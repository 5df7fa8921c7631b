------------------------------ MODULE MCVisitor ------------------------------
(* Three filters: everything, nine pages long; two pages; nothing.         *)
EXTENDS VisitorProperties

ThreeFilters == {"all", "some", "none"}
NinePages == [f \in ThreeFilters |-> CASE f = "all" -> 9 [] f = "some" -> 2 [] f = "none" -> 0]
=============================================================================
