------------------------------ MODULE ReportVerb ------------------------------
(***************************************************************************)
(* `whirl report` (whirl-cli/report.rs): a checklist run becomes a row of  *)
(* the release notes and a report. Several may run at once, on the same    *)
(* outputs; a write may fail half way and a process may be killed.         *)
(*                                                                         *)
(* A flag's value is "ok", "blank" or a word the checks tell apart; what   *)
(* the documents look like is left out, what they say of an item is kept.  *)
(***************************************************************************)
EXTENDS Naturals, SequencesExt

CONSTANTS Reporters,    \* the processes
          Platform,     \* "macos", "windows" or "linux": the machine's
          ChecklistOf,  \* the items of each platform's checklist
          CommandLines, \* the flags given: functions from flag names to values
          Observations, \* the observation files: sequences of entries
          MaxMishaps    \* failing writes and killed processes

ASSUME ReportAssumption == Platform \in {"macos", "windows", "linux"}

VARIABLES written,         \* the output files by path: by whom, whole or not, and the verdicts
          reporter,     \* each process: where it is and what it has built
          mishaps

reportVars == <<written, reporter, mishaps>>

Outputs == UNION {{f["out"], f["row"]} : f \in {g \in CommandLines : {"out", "row"} \subseteq DOMAIN g}}
NoFile == [by |-> "nobody"]

ReportInit == /\ written = [p \in Outputs |-> NoFile]
              /\ reporter = [r \in Reporters |-> [step |-> "start", exit |-> "none"]]
              /\ mishaps = 0

-----------------------------------------------------------------------------
(* build: the first thing wrong with the command line, and whether that is a
   usage error or a refusal of the run. *)

Run(holds) == IF holds THEN "" ELSE "refused"
Usage(holds) == IF holds THEN "" ELSE "usage"
FirstOf(verdicts) ==
  LET bad == {i \in DOMAIN verdicts : verdicts[i] # ""} IN IF bad = {} THEN "" ELSE verdicts[Min(bad)]

\* Flags::require_text, of a flag that must also be one of some words.
Required(f, flag) == Run(flag \in DOMAIN f /\ f[flag] # "blank")
OneOf(f, flag, words) == Run(flag \in DOMAIN f /\ f[flag] \in words)

RequiredFlags == <<"observations", "log", "build-version", "build-commit", "machine",
                   "os-version", "by", "at">>

\* The bullet only this platform's row has: its flags are required there and refused elsewhere.
ExtraFlags(f) ==
  CASE Platform = "macos"   -> <<OneOf(f, "signed", {"yes", "no"}),
                                 IF f["signed"] = "yes" THEN Run("first-run" \notin DOMAIN f)
                                 ELSE Required(f, "first-run")>>
    [] Platform = "windows" -> <<Usage("signed" \notin DOMAIN f), Required(f, "smartscreen")>>
    [] Platform = "linux"   -> <<Usage({"signed", "smartscreen"} \cap DOMAIN f = {})>>

KnownFlags == Range(RequiredFlags) \cup {"checklist", "backend", "out", "row"}
              \cup (CASE Platform = "macos" -> {"signed", "first-run"}
                      [] Platform = "windows" -> {"smartscreen"} [] Platform = "linux" -> {})

BadCommandLine(f) ==
  FirstOf(<<OneOf(f, "checklist", {Platform})>>
          \o [i \in DOMAIN RequiredFlags |-> Required(f, RequiredFlags[i])]
          \o <<Run("at" \in DOMAIN f /\ f["at"] # "no date"), OneOf(f, "backend", {"native", "noop"})>>
          \o (IF Platform = "macos" /\ "signed" \notin DOMAIN f THEN <<"refused">> ELSE ExtraFlags(f))
          \o <<Required(f, "out"), Required(f, "row"), Usage(DOMAIN f \subseteq KnownFlags)>>
          \o <<Run("log" \in DOMAIN f /\ f["log"] # "unreadable")>>)

\* observe: an entry names an item of the checklist, and a verdict that is not not-run has evidence.
Observed(entry) == /\ entry.item \in ChecklistOf[Platform]
                   /\ entry.verdict \in {"pass", "fail", "not-run"}
                   /\ entry.verdict # "not-run" => entry.evidence

\* read_observations: every item of the checklist, not run unless an entry says more.
Results(entries) ==
  [i \in ChecklistOf[Platform] |->
     IF \E n \in DOMAIN entries : entries[n].item = i
     THEN (CHOOSE e \in Range(entries) : e.item = i).verdict ELSE "not-run"]

Admissible(entries) == /\ \A n \in DOMAIN entries : Observed(entries[n])
                       /\ IsInjective([n \in DOMAIN entries |-> entries[n].item])

Exit(r, code) == reporter' = [reporter EXCEPT ![r].step = "ended", ![r].exit = code]

Build(r, f, entries) ==
  /\ reporter[r].step = "start"
  /\ LET bad == BadCommandLine(f)
     IN  IF bad = "" /\ Admissible(entries)
         THEN reporter' = [reporter EXCEPT ![r] = [step |-> "row", exit |-> "none", out |-> f["out"],
                             row |-> f["row"], results |-> Results(entries), notes |-> entries]]
         ELSE Exit(r, IF bad = "usage" THEN "3" ELSE "1")
  /\ UNCHANGED <<written, mishaps>>

-----------------------------------------------------------------------------
(* write: the row, then the report; the row goes again if the report cannot be made. *)

File(r, whole) == [by |-> r, whole |-> whole, results |-> reporter[r].results]

\* Mutant: the file is created or truncated, whatever is there.
Overwrite(r, path, whole) == written' = [written EXCEPT ![path] = File(r, whole)]

\* create_new: never over a file that is there.
CreateNew(r, path, whole) == /\ written[path] = NoFile
                             /\ written' = [written EXCEPT ![path] = File(r, whole)]

Fails == mishaps < MaxMishaps /\ mishaps' = mishaps + 1

WriteRow(r) ==
  /\ reporter[r].step = "row"
  /\ CreateNew(r, reporter[r].row, TRUE)
  /\ reporter' = [reporter EXCEPT ![r].step = "out"]
  /\ UNCHANGED mishaps

\* It is there already, or it cannot be created, or only a part of it can be written: that stays.
RowFails(r) ==
  /\ reporter[r].step = "row"
  /\ \/ written[reporter[r].row] # NoFile /\ UNCHANGED <<written, mishaps>>
     \/ UNCHANGED written /\ Fails
     \/ CreateNew(r, reporter[r].row, FALSE) /\ Fails
  /\ Exit(r, "1")

WriteOut(r) ==
  /\ reporter[r].step = "out"
  /\ CreateNew(r, reporter[r].out, TRUE)
  /\ Exit(r, "0")
  /\ UNCHANGED mishaps

OutFails(r) ==
  /\ reporter[r].step = "out"
  /\ \/ written[reporter[r].out] # NoFile /\ UNCHANGED <<written, mishaps>>
     \/ UNCHANGED written /\ Fails
     \/ CreateNew(r, reporter[r].out, FALSE) /\ Fails
  /\ reporter' = [reporter EXCEPT ![r].step = "undo"]

UndoRow(r) ==
  /\ reporter[r].step = "undo"
  /\ written' = [written EXCEPT ![reporter[r].row] = NoFile]
  /\ Exit(r, "1")
  /\ UNCHANGED mishaps

Killed(r) == /\ reporter[r].step \in {"row", "out", "undo"}
             /\ Fails
             /\ Exit(r, "killed")
             /\ UNCHANGED written

ReportNext == \E r \in Reporters :
                \/ \E f \in CommandLines, entries \in Observations : Build(r, f, entries)
                \/ WriteRow(r) \/ RowFails(r) \/ WriteOut(r) \/ OutFails(r) \/ UndoRow(r) \/ Killed(r)

ReportSpec == ReportInit /\ [][ReportNext]_reportVars

-----------------------------------------------------------------------------
\* A run that exited 0 has both its files, whole and its own, from then on, whatever other
\* runs do on the same paths; and what they claim of an item was observed (report.rs:41-47,
\* write, read_observations).
TwoFilesOfOneRun ==
  \A r \in Reporters : reporter[r].exit = "0" =>
    /\ written[reporter[r].row] = File(r, TRUE) /\ written[reporter[r].out] = File(r, TRUE)
    /\ \A i \in ChecklistOf[Platform] : reporter[r].results[i] # "not-run" =>
         \E n \in DOMAIN reporter[r].notes : /\ reporter[r].notes[n].item = i
                                             /\ reporter[r].notes[n].verdict = reporter[r].results[i]
                                             /\ reporter[r].notes[n].evidence
=============================================================================
