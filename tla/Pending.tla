------------------------------ MODULE Pending ------------------------------
(***************************************************************************)
(* The log of captured facts that wait for a review: a file of lines that  *)
(* the Hermes plugin appends to, and that two programs rewrite without a   *)
(* lock.  `aidememo pending` reads it, commits and discards entries and    *)
(* renames a temporary file, always the same one, over it; the plugin's    *)
(* slash command truncates the log and writes what is left in place.       *)
(*                                                                         *)
(* Of a file the model keeps the entries that are whole lines, and whether *)
(* it ends inside a line.  The order of the lines decides nothing.         *)
(***************************************************************************)
CONSTANTS
  Captures,
  Reviews,  \* runs of `aidememo pending`
  Slashes,  \* runs of the plugin's slash command
  NoFile

VARIABLES
  log,
  tmp,        \* the temporary file, or NoFile
  facts,      \* the entries that are facts
  discarded,  \* the entries somebody chose to discard
  captured,   \* the entries appended as whole lines
  excused,    \* the entries that were cut off, that a pass could not know of,
              \* or died over
  passes

reviewVars == <<log, tmp, facts, discarded, captured, excused, passes>>

Files == [lines : SUBSET Captures, torn : BOOLEAN]

Emptied == [lines |-> {}, torn |-> FALSE]

(* A run is of one program, and a missing file is not a file.              *)
ASSUME PassesApart == Reviews \cap Slashes = {}
ASSUME NoFileApart == NoFile \notin Files

Passes == Reviews \cup Slashes

Ready == [pc |-> "ready", todo |-> {}, commit |-> {}, discard |-> {},
          kept |-> {}, file |-> "none"]

Over == [Ready EXCEPT !.pc = "over"]

ReviewInit ==
  /\ log = Emptied
  /\ tmp = NoFile
  /\ facts = {}
  /\ discarded = {}
  /\ captured = {}
  /\ excused = {}
  /\ passes = [p \in Passes |-> Ready]

Open == {p \in Passes : passes[p].pc \notin {"ready", "over"}}

Live == captured \ (facts \cup discarded)

-----------------------------------------------------------------------------
(* The plugin captures an entry: one line at the end of the log.  A crash  *)
(* may cut the line, and the next line then continues it.                  *)
Capture(entry) ==
  /\ entry \notin captured \cup excused
  /\ \/ /\ ~log.torn
        /\ log' = [log EXCEPT !.lines = @ \cup {entry}]
        /\ captured' = captured \cup {entry}
        /\ excused' = IF Open = {} THEN excused ELSE excused \cup {entry}
     \/ /\ \E torn \in BOOLEAN :
             /\ log.torn \/ torn
             /\ log' = [log EXCEPT !.torn = torn]
        /\ excused' = excused \cup {entry}
        /\ UNCHANGED captured
  /\ UNCHANGED <<tmp, facts, discarded, passes>>

(* A pass reads the log, somebody chooses, and it goes on or is over.  Bad *)
(* lines are skipped.                                                      *)
Read(p, commit, discard, goesOn) ==
  /\ passes[p].pc = "ready"
  /\ commit \cup discard \subseteq log.lines
  /\ excused' = excused \cup (Live \ log.lines)
  /\ discarded' = discarded \cup discard
  /\ passes' = [passes EXCEPT ![p] =
       IF goesOn
       THEN [pc |-> "applying", todo |-> log.lines, commit |-> commit,
             discard |-> discard, kept |-> {}, file |-> "none"]
       ELSE Over]
  /\ UNCHANGED <<log, tmp, facts, captured>>

(* `approve` commits what is selected, `reject` discards it, and `review`  *)
(* does both.  Nothing selected, nothing done.                             *)
ReadReview(p, commit, discard) ==
  /\ p \in Reviews
  /\ commit \cap discard = {}
  /\ Read(p, commit, discard, commit \cup discard # {})

(* commit_one, commit_all, clear_one and clear_all.  Only the last writes  *)
(* the log although it read nothing.                                       *)
ReadSlash(p, commit, discard) ==
  LET chosen == commit \cup discard
  IN  /\ p \in Slashes
      /\ commit = {} \/ discard = {}
      /\ chosen = log.lines \/ \E entry \in log.lines : chosen = {entry}
      /\ \E goesOn \in BOOLEAN :
           /\ chosen # {} => goesOn
           /\ Read(p, commit, discard, goesOn)

-----------------------------------------------------------------------------
(* apply_review: entry by entry; what cannot be committed is kept.         *)

(* Fault: an entry that could not be committed is not kept.                *)
KeptUnlessChosen(pass, entry, committed) ==
  IF entry \in pass.commit \cup pass.discard THEN pass.kept
  ELSE pass.kept \cup {entry}

Kept(pass, entry, committed) ==
  IF committed \/ entry \in pass.discard THEN pass.kept
  ELSE pass.kept \cup {entry}

Apply(p) ==
  LET pass == passes[p]
      step(entry, committed) ==
        passes' = [passes EXCEPT ![p] =
          [pass EXCEPT !.todo = @ \ {entry},
                       !.kept = Kept(pass, entry, committed)]]
  IN  /\ p \in Reviews
      /\ pass.pc = "applying"
      /\ \E entry \in pass.todo :
           \/ /\ entry \in pass.commit
              /\ facts' = facts \cup {entry}
              /\ step(entry, TRUE)
           \/ /\ step(entry, FALSE)
              /\ UNCHANGED facts
      /\ UNCHANGED <<log, tmp, discarded, captured, excused>>

(* The slash command's chosen entries are added by one request, whose      *)
(* failure, or lost answer, leaves the log alone.                          *)
AddAll(p) ==
  LET pass == passes[p]
      chosen == pass.commit \cup pass.discard
  IN  /\ p \in Slashes
      /\ pass.pc = "applying"
      /\ facts' \in {facts, facts \cup pass.commit}
      /\ \/ /\ pass.commit \subseteq facts'
            /\ passes' = [passes EXCEPT ![p] =
                 [pass EXCEPT !.pc = "writing", !.kept = pass.todo \ chosen]]
         \/ /\ pass.commit # {}
            /\ passes' = [passes EXCEPT ![p] = Over]
      /\ UNCHANGED <<log, tmp, discarded, captured, excused>>

-----------------------------------------------------------------------------
(* write_jsonl of the program and write of the plugin                      *)

(* File::create empties the temporary file, also when it is another's.     *)
CreateTmp(p) ==
  /\ p \in Reviews
  /\ passes[p].pc = "applying"
  /\ passes[p].todo = {}
  /\ tmp' = Emptied
  /\ passes' = [passes EXCEPT ![p] = [@ EXCEPT !.pc = "filling",
                                               !.file = "tmp"]]
  /\ UNCHANGED <<log, facts, discarded, captured, excused>>

Truncate(p) ==
  /\ passes[p].pc = "writing"
  /\ log' = Emptied
  /\ passes' = [passes EXCEPT ![p] = [@ EXCEPT !.pc = "filling",
                                               !.file = "log"]]
  /\ UNCHANGED <<tmp, facts, discarded, captured, excused>>

(* Lines written from the start of a file that another process may have    *)
(* written: a longer content sticks out behind, perhaps inside a line.     *)
Overlaid(old, new) ==
  {new} \cup {[lines |-> new.lines \cup rest, torn |-> torn] :
                rest \in SUBSET old.lines, torn \in {FALSE, old.torn}}

Write(p, new) ==
  \/ /\ passes[p].file = "tmp"
     /\ tmp' \in Overlaid(tmp, new)
     /\ UNCHANGED log
  \/ /\ passes[p].file = "log"
     /\ log' \in Overlaid(log, new)
     /\ UNCHANGED tmp
  \/ /\ passes[p].file = "unlinked"
     /\ UNCHANGED <<log, tmp>>

Fill(p) ==
  /\ passes[p].pc = "filling"
  /\ Write(p, [lines |-> passes[p].kept, torn |-> FALSE])
  /\ passes' = [passes EXCEPT ![p] =
       IF p \in Reviews THEN [@ EXCEPT !.pc = "renaming", !.file = "none"]
       ELSE Over]
  /\ UNCHANGED <<facts, discarded, captured, excused>>

(* Whoever still has the renamed file open writes the log from now on, and *)
(* whoever has the old log open writes a file without a name.              *)
Renamed(file) ==
  CASE file = "tmp" -> "log" [] file = "log" -> "unlinked" [] OTHER -> file

Rename(p) ==
  /\ passes[p].pc = "renaming"
  /\ \/ /\ tmp # NoFile
        /\ log' = tmp
        /\ tmp' = NoFile
        /\ passes' = [q \in Passes |->
             IF q = p THEN Over ELSE [passes[q] EXCEPT !.file = Renamed(@)]]
     \/ /\ tmp = NoFile
        /\ passes' = [passes EXCEPT ![p] = Over]
        /\ UNCHANGED <<log, tmp>>
  /\ UNCHANGED <<facts, discarded, captured, excused>>

Replacing(q) == passes[q].pc \in {"filling", "renaming"}

(* A pass fails or dies; in the middle of writing it leaves some of the    *)
(* lines, which is harmless only in a temporary file nobody else uses.     *)
Fail(p) ==
  /\ p \in Open
  /\ \/ /\ passes[p].pc = "filling"
        /\ \E lines \in SUBSET passes[p].kept, torn \in BOOLEAN :
             Write(p, [lines |-> lines, torn |-> torn])
        /\ excused' = IF \/ passes[p].file = "log"
                         \/ \E q \in Passes \ {p} : Replacing(q)
                      THEN excused \cup captured ELSE excused
     \/ /\ passes[p].pc # "filling"
        /\ UNCHANGED <<log, tmp, excused>>
  /\ passes' = [passes EXCEPT ![p] = Over]
  /\ UNCHANGED <<facts, discarded, captured>>

ReviewNext ==
  \/ \E entry \in Captures : Capture(entry)
  \/ \E p \in Passes :
       \/ \E commit, discard \in SUBSET Captures :
            \/ ReadReview(p, commit, discard)
            \/ ReadSlash(p, commit, discard)
       \/ Apply(p)
       \/ AddAll(p)
       \/ CreateTmp(p)
       \/ Truncate(p)
       \/ Fill(p)
       \/ Rename(p)
       \/ Fail(p)

ReviewSpec == ReviewInit /\ [][ReviewNext]_reviewVars

-----------------------------------------------------------------------------

PassRecords ==
  [pc : {"ready", "applying", "writing", "filling", "renaming", "over"},
   todo : SUBSET Captures, commit : SUBSET Captures,
   discard : SUBSET Captures, kept : SUBSET Captures,
   file : {"tmp", "log", "unlinked", "none"}]

ReviewTypeOK ==
  /\ log \in Files
  /\ tmp \in Files \cup {NoFile}
  /\ facts \cup discarded \cup captured \cup excused \subseteq Captures
  /\ passes \in [Passes -> PassRecords]

(* What those who have the file open have yet to write to it.              *)
InHand(file) ==
  UNION {passes[p].kept :
           p \in {q \in Passes : /\ passes[q].pc = "filling"
                                 /\ passes[q].file = file}}

(* Whatever passes overlap, fail and die, an entry that every pass could   *)
(* see when it read is in the log, or a fact, or was discarded: only what  *)
(* is captured during a pass, or cut off while the log itself is being     *)
(* written, is lost.                                                       *)
EntriesAccounted ==
  captured \ excused \subseteq
    log.lines \cup InHand("log") \cup facts \cup discarded

(* "Anything not touched stays in the log for next time" (pending/mod.rs): *)
(* what was captured is in the log until it is committed or discarded.     *)
UntouchedEntriesStay ==
  captured \subseteq log.lines \cup InHand("log") \cup facts \cup discarded
=============================================================================
