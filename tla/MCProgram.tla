------------------------------ MODULE MCProgram ------------------------------
(***************************************************************************)
(* Model-checking instance of Program: files that are missing, unreadable, *)
(* syntactically wrong, broken in one section, or good in either mode.     *)
(***************************************************************************)
EXTENDS Program

h(path, priority) == [path |-> path, priority |-> priority]

(* A misspelt priority and a second handler for a path; an invalid path. *)
Few == <<h("estop", "CRITICAL"), h("costmap", "BACKGROUND")>>
Usual == <<h("estop", "CRITICAL"), h("telemetry", "NORMAL"), h("costmap", "BACKGROUND")>>
Odd == <<h("estop", "critical"), h("estop", "CRITICAL"), h("", "NORMAL")>>

File(tui, handlers) == [path |-> "yes", broken |-> "nowhere", given |-> Section,
                        tui |-> tui, handlers |-> handlers]

UsualFile == {File(TRUE, Few)}

MCFiles == UsualFile
             \cup {File(FALSE, Usual)}
             \cup {[File(FALSE, Odd) EXCEPT !.given = {"tui", "handlers"}]}
             \cup {[File(TRUE, Odd) EXCEPT !.path = p] : p \in {"no", "error"}}
             \cup {[File(FALSE, Odd) EXCEPT !.broken = b] :
                      b \in {"syntax", "tui", "handlers"}}

MCInvalidPaths == {""}
=============================================================================
