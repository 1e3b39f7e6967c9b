----------------------------- MODULE MCWorkbench -----------------------------
(***************************************************************************)
(* One file holds two documents and needs formatting, the other an alias   *)
(* without its anchor, which parses and can be neither formatted nor       *)
(* analysed.  They bear the names of the sample and of the cleared editor. *)
(* One query: two of the nodes it finds in the file are left in the        *)
(* sample, in another order, and one in general mode.                      *)
(***************************************************************************)
EXTENDS Workbench

CONSTANTS empty, sample, two, tidy, alias, f1, f2, q, n1, n2, n3

MCformatYaml ==
    [t \in Texts |-> CASE t = alias -> NoText
                       [] t = two -> tidy
                       [] OTHER -> t]

MCContents == [f \in Files |-> IF f = f1 THEN two ELSE alias]

MCtextareaValue == [t \in Texts |-> t]

MCtreeMatches ==
    [t \in Texts, m \in Modes, query \in Queries |->
        CASE query = NoQuery \/ t \in {empty, alias} -> <<>>
          [] t \in {two, tidy} -> <<n1, n2, n3>>
          [] m = "kubernetes" -> <<n3, n2>>
          [] OTHER -> <<n2>>]

=============================================================================
