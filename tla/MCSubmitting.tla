---------------------------- MODULE MCSubmitting ----------------------------
EXTENDS SubmittingProperties

CONSTANTS s1
=============================================================================
