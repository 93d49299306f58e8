---------------------------- MODULE Configuration ----------------------------
(***************************************************************************)
(* Config of src/config.cpp: what load() makes of a configuration file.    *)
(*                                                                         *)
(* Of a section the model keeps where its values come from, and the values *)
(* that decide what the program does: tui.enabled and the handlers.  (The  *)
(* values of channels are parsed and never used.)                          *)
(***************************************************************************)
EXTENDS Naturals, Sequences

(* In the order in which load() parses them. *)
Sections == <<"server", "zenoh", "channels", "liveliness", "tui", "handlers">>
Section == {Sections[i] : i \in 1 .. Len(Sections)}

Origins == {"default", "file", "part"}

(* What every member of Config is initialised to. *)
DefaultConfig == [origin   |-> [s \in Section |-> "default"],
                  tui      |-> TRUE,
                  handlers |-> <<>>]

(***************************************************************************)
(* A file is a record of: path, what std::filesystem::exists() says of it  *)
(* ("yes", "no", or "error" when it throws); broken, where yaml-cpp throws *)
(* ("nowhere", "syntax" before any section, or a section); given, the      *)
(* sections it has; tui and handlers, their values.                        *)
(***************************************************************************)
Before(s, t) == \E i, j \in 1 .. Len(Sections) :
                   i < j /\ Sections[i] = s /\ Sections[j] = t

Parsed(file) == {s \in file.given : \/ file.broken = "nowhere"
                                    \/ file.broken \in Section /\ Before(s, file.broken)}

(* Where the values of each section come from. *)
Origin(file) == [s \in Section |-> IF s \in Parsed(file) THEN "file"
                                   ELSE IF s = file.broken THEN "part" ELSE "default"]

(* An exception in a section leaves what was assigned before it: of the    *)
(* handlers any number of the first ones, of tui perhaps enabled.          *)
Enabled(file, origin) == CASE origin = "default" -> {TRUE}
                           [] origin = "file" -> {file.tui}
                           [] origin = "part" -> {TRUE, file.tui}

Counts(file, origin) == CASE origin = "default" -> {0}
                          [] origin = "file" -> {Len(file.handlers)}
                          [] origin = "part" -> 0 .. Len(file.handlers)

Results(file) ==
  {[origin |-> Origin(file), tui |-> e, handlers |-> SubSeq(file.handlers, 1, n)] :
     e \in Enabled(file, Origin(file)["tui"]),
     n \in Counts(file, Origin(file)["handlers"])}

(***************************************************************************)
(* load() as a relation between a file, its result and the configuration   *)
(* it leaves.  use_defaults(), called on both error paths, only clears the *)
(* remembered path.                                                        *)
(***************************************************************************)
load(file, ok, config) ==
  \/ file.path = "no" /\ ok /\ config = DefaultConfig
  \/ file.path = "yes" /\ ok = (file.broken = "nowhere") /\ config \in Results(file)

(* Anything that is not CRITICAL or NORMAL is BACKGROUND. *)
parse_priority(s) == IF s \in {"CRITICAL", "NORMAL"} THEN s ELSE "BACKGROUND"
=============================================================================
