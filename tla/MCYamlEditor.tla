---------------------------- MODULE MCYamlEditor ----------------------------
(***************************************************************************)
(* A file with CR LF line endings that needs formatting, a file with an    *)
(* alias without its anchor and one that does not parse; a text typed by   *)
(* the user is already formatted.                                          *)
(***************************************************************************)
EXTENDS YamlEditor

CONSTANTS empty, sample, typed, crlf, long, neat, broken, alias, f1, f2, f3

MCformatYaml ==
    [t \in Texts |-> CASE t \in {broken, alias} -> NoText
                       [] t \in {crlf, long} -> neat
                       [] OTHER -> t]

MCContents == [f \in Files |-> CASE f = f1 -> crlf [] f = f2 -> alias [] OTHER -> broken]

MCtextareaValue == [t \in Texts |-> IF t = crlf THEN long ELSE t]

=============================================================================
