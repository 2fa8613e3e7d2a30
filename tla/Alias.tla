-------------------------------- MODULE Alias --------------------------------
(***************************************************************************)
(* How sessions get their metro names: claimMetroAlias, releaseMetroAlias  *)
(* and staleClaimsCleanup of src/src/identity.ts, and the parts of         *)
(* session_start and session_shutdown that call them.                      *)
(*                                                                         *)
(* A claim is a directory, made with mkdir, with an owner.json written     *)
(* into it.  A starting session takes a snapshot of the live sessions,     *)
(* sweeps the claims of others, tries candidate names one after another,   *)
(* and only then registers.  Live sessions sweep now and then.             *)
(*                                                                         *)
(* A session is one instance: it starts once, and may continue the session *)
(* file of an earlier one, whose name it prefers.  Lines (colors) are      *)
(* numbered in their order in LINES.  Live sessions keep their heartbeat   *)
(* fresh, so that readRegistry lists exactly those that are "up", and a    *)
(* session registers within the 15 seconds of grace after its claim.       *)
(***************************************************************************)
EXTENDS Naturals, Sequences, FiniteSets, SequencesExt, TLC

CONSTANTS
  Sessions,
  NoSession,
  Alone,    \* sessions in a project of their own; the others share one
  MaxLine,  \* the number of LINES
  MaxRun,   \* MAX_RUN
  Sweepers  \* sessions that sweep: METROL_DISABLE_SWEEP is not set for them

VARIABLES
  claim,  \* of each name: Absent, Bare (no owner.json yet), or whose it is
  aged,   \* sessions whose claimedAt is past the grace
  pc,     \* where each session is in its life
  view,   \* the live sessions it saw when it started
  heir,   \* the session whose file it continues
  todo,   \* candidates it has not tried yet; the first is the one it tries
  last,   \* sessions that are through with previousAlias and siblingColor
  name,   \* metroName
  sweep,  \* the sweep each session has in progress
  owed,   \* history: sessions that found the old claim of a dead predecessor
  clean   \* history: no sweep overlapped the writing or the release of a claim

vars == <<claim, aged, pc, view, heir, todo, last, name, sweep, owed, clean>>

Name   == [line: 1..MaxLine, run: 1..MaxRun]
NoName == [line |-> 0, run |-> 0]
Absent == "absent"
Bare   == "bare"

ASSUME AliasAssumption ==
  /\ {NoSession, Absent, Bare} \cap Sessions = {}
  /\ Alone \subseteq Sessions /\ Sweepers \subseteq Sessions
  /\ MaxLine \in Nat \ {0} /\ MaxRun \in Nat \ {0}

Candidates == Seq(Name \cup {NoName})

Starting == {"sweep", "mkdir", "read", "owner", "undo", "register"}
PC == {"off", "up", "leaving", "releasing", "gone", "failed", "dead"} \cup Starting

\* live: the snapshot's sessions; old: those past the grace when it began
Sweep == [live: SUBSET Sessions, old: SUBSET Sessions, left: SUBSET Name,
          doomed: Name \cup {NoName}]
NoSweep == [live |-> {}, old |-> {}, left |-> {}, doomed |-> NoName]

Live == {s \in Sessions : pc[s] = "up"}

Goto(s, step) == pc' = [pc EXCEPT ![s] = step]

\* Keeps the history: every action ends with it.
Track == clean' = (clean /\ ~(/\ \E s \in Sessions : sweep'[s] # NoSweep
                              /\ \E s \in Sessions :
                                   pc'[s] \in {"owner", "undo", "leaving", "releasing"}))

----------------------------------------------------------------------------
(* Candidates *)

SharesProject(s, t) == {s, t} \cap Alone = {}

\* Slip: a name does not count as a live session's
NobodyHolds(s, n) == FALSE

\* heldByOther
HeldByOther(s, n) == \E t \in view[s] : name[t] = n

\* The loops go on without a try.  NoName stands for a line somebody has claimed.
Skipped(s, n) == n = NoName \/ HeldByOther(s, n)

NothingLeft(s) == \A i \in DOMAIN todo[s] : Skipped(s, todo[s][i])

Runs(line, from) == [i \in 1 .. MaxRun + 1 - from |-> [line |-> line, run |-> from + i - 1]]

\* previousAlias, then the line of a live session of the same project
FirstChoices(s, sibling) ==
  (IF heir[s] = NoSession THEN <<>> ELSE <<name[heir[s]]>>)
  \o (IF sibling = NoSession THEN <<>> ELSE Runs(name[sibling].line, 1))

\* A line nobody has claimed, then run 1 of any line, then any name
OtherChoices ==
  LET used  == {n.line : n \in {m \in Name : claim[m] # Absent}}
      first == [line \in 1..MaxLine |-> [line |-> line, run |-> 1]]
  IN  [line \in 1..MaxLine |-> IF line \in used THEN NoName ELSE first[line]] \o first
      \o FlattenSeq([line \in 1..MaxLine |-> Runs(line, 2)])

----------------------------------------------------------------------------
(* session_start *)

BeginSweep(s) ==
  sweep' = [sweep EXCEPT ![s] = [live |-> Live, old |-> aged,
                                 left |-> {n \in Name : claim[n] # Absent},
                                 doomed |-> NoName]]

\* The predecessor p is dead and its claim is there and past the grace.  Another
\* session that starts at the same time may take the name: then nothing is owed.
Owed(p) == /\ p # NoSession /\ pc[p] = "dead" /\ p \in aged /\ claim[name[p]] = p
           /\ \A t \in Sessions : pc[t] \notin Starting
           /\ \A t \in Live : name[t] # name[p]

\* The session looks at the registry
Start(s) ==
  /\ pc[s] = "off"
  /\ \E p \in {NoSession} \cup {t \in Sessions : name[t] # NoName} :
       /\ heir' = [heir EXCEPT ![s] = p]
       /\ owed' = {t \in owed : pc[t] \notin Starting} \cup (IF Owed(p) THEN {s} ELSE {})
  /\ view' = [view EXCEPT ![s] = Live]
  /\ IF s \in Sweepers THEN BeginSweep(s) ELSE UNCHANGED sweep
  /\ Goto(s, "sweep")
  /\ UNCHANGED <<claim, aged, todo, last, name>> /\ Track

\* Its sweep, if any, is over: previousAlias and siblingColor come first
BeginClaim(s) ==
  /\ pc[s] = "sweep" /\ sweep[s] = NoSweep
  /\ LET siblings == {t \in view[s] : SharesProject(s, t)}
     IN  \E sibling \in (IF siblings = {} THEN {NoSession} ELSE siblings) :
           todo' = [todo EXCEPT ![s] = FirstChoices(s, sibling)]
  /\ Goto(s, "mkdir")
  /\ UNCHANGED <<claim, aged, view, heir, last, name, sweep, owed>> /\ Track

\* What claimMetroAlias knew is forgotten
Forget(s) == todo' = [todo EXCEPT ![s] = <<>>] /\ last' = last \ {s}

\* None of these was free: look at the claims there are
WidenChoice(s) ==
  /\ pc[s] = "mkdir" /\ NothingLeft(s) /\ s \notin last
  /\ todo' = [todo EXCEPT ![s] = OtherChoices]
  /\ last' = last \cup {s}
  /\ UNCHANGED <<claim, aged, pc, view, heir, name, sweep, owed>> /\ Track

\* "no aliases available": session_start throws
NoneAvailable(s) ==
  /\ pc[s] = "mkdir" /\ NothingLeft(s) /\ s \in last
  /\ Goto(s, "failed") /\ Forget(s)
  /\ UNCHANGED <<claim, aged, view, heir, name, sweep, owed>> /\ Track

\* tryClaim's mkdir of the next candidate, atomic: EEXIST leads to a look at the
\* owner
Mkdir(s) ==
  /\ pc[s] = "mkdir"
  /\ \E i \in DOMAIN todo[s] :
       /\ ~Skipped(s, todo[s][i]) /\ \A j \in 1 .. i - 1 : Skipped(s, todo[s][j])
       /\ todo' = [todo EXCEPT ![s] = SubSeq(@, i, Len(@))]
       /\ LET n == todo[s][i]
          IN  IF claim[n] = Absent
              THEN claim' = [claim EXCEPT ![n] = Bare] /\ Goto(s, "owner")
              ELSE UNCHANGED claim /\ Goto(s, "read")
  /\ UNCHANGED <<aged, view, heir, last, name, sweep, owed>> /\ Track

Takes(s) == name' = [name EXCEPT ![s] = Head(todo[s])] /\ Goto(s, "register") /\ Forget(s)

\* One's own claim is taken again, another one means the next candidate
ReadOwner(s) ==
  /\ pc[s] = "read"
  /\ IF claim[Head(todo[s])] = s
     THEN Takes(s)
     ELSE /\ todo' = [todo EXCEPT ![s] = Tail(@)] /\ Goto(s, "mkdir")
          /\ UNCHANGED <<last, name>>
  /\ UNCHANGED <<claim, aged, view, heir, sweep, owed>> /\ Track

\* writeFile of owner.json, straight to its place: it needs the directory
WriteOwner(s) ==
  /\ pc[s] = "owner"
  /\ LET n == Head(todo[s])
     IN  IF claim[n] # Absent
         THEN claim' = [claim EXCEPT ![n] = s] /\ Takes(s)
         ELSE UNCHANGED <<claim, todo, last, name>> /\ Goto(s, "undo")
  /\ UNCHANGED <<aged, view, heir, sweep, owed>> /\ Track

\* rm of the failed claim; session_start throws
Undo(s) ==
  /\ pc[s] = "undo"
  /\ claim' = [claim EXCEPT ![Head(todo[s])] = Absent]
  /\ Goto(s, "failed") /\ Forget(s)
  /\ UNCHANGED <<aged, view, heir, name, sweep, owed>> /\ Track

\* writeRegistryEntry
Register(s) ==
  /\ pc[s] = "register"
  /\ Goto(s, "up")
  /\ UNCHANGED <<claim, aged, view, heir, todo, last, name, sweep, owed>> /\ Track

----------------------------------------------------------------------------
(* The sweep, at the start and every five minutes *)

SweepBegins(s) ==
  /\ s \in Sweepers /\ pc[s] = "up" /\ sweep[s] = NoSweep
  /\ BeginSweep(s)
  /\ UNCHANGED <<claim, aged, pc, view, heir, todo, last, name, owed>> /\ Track

\* Slip: no grace for a session that has not registered yet
SweepReadsWithoutGrace(s) ==
  /\ sweep[s].doomed = NoName
  /\ \E n \in sweep[s].left :
       sweep' = [sweep EXCEPT ![s].left = @ \ {n},
                              ![s].doomed = IF claim[n] \in sweep[s].live THEN NoName ELSE n]
  /\ UNCHANGED <<claim, aged, pc, view, heir, todo, last, name, owed>> /\ Track

\* Slip: the grace is taken the wrong way round
SweepReadsTheYoung(s) ==
  /\ sweep[s].doomed = NoName
  /\ \E n \in sweep[s].left :
       sweep' = [sweep EXCEPT
         ![s].left = @ \ {n},
         ![s].doomed = IF \/ claim[n] \in {Absent, Bare}
                          \/ claim[n] \in Sessions \ (sweep[s].old \cup sweep[s].live)
                       THEN n ELSE NoName]
  /\ UNCHANGED <<claim, aged, pc, view, heir, todo, last, name, owed>> /\ Track

\* readOwner of the next directory: without an owner it is removed, else when
\* its owner is not live and its claim is past the grace
SweepReads(s) ==
  /\ sweep[s].doomed = NoName
  /\ \E n \in sweep[s].left :
       sweep' = [sweep EXCEPT
         ![s].left = @ \ {n},
         ![s].doomed = IF \/ claim[n] \in {Absent, Bare}
                          \/ claim[n] \in sweep[s].old \ sweep[s].live
                       THEN n ELSE NoName]
  /\ UNCHANGED <<claim, aged, pc, view, heir, todo, last, name, owed>> /\ Track

SweepRemoves(s) ==
  /\ sweep[s].doomed # NoName
  /\ claim' = [claim EXCEPT ![sweep[s].doomed] = Absent]
  /\ sweep' = [sweep EXCEPT ![s].doomed = NoName]
  /\ UNCHANGED <<aged, pc, view, heir, todo, last, name, owed>> /\ Track

SweepEnds(s) ==
  /\ sweep[s] # NoSweep /\ sweep[s].left = {} /\ sweep[s].doomed = NoName
  /\ sweep' = [sweep EXCEPT ![s] = NoSweep]
  /\ UNCHANGED <<claim, aged, pc, view, heir, todo, last, name, owed>> /\ Track

----------------------------------------------------------------------------
(* session_shutdown, and what happens without anybody's doing *)

\* removeRegistryEntry
Shutdown(s) ==
  /\ pc[s] = "up"
  /\ Goto(s, "leaving")
  /\ view' = [view EXCEPT ![s] = {}]
  /\ UNCHANGED <<claim, aged, heir, todo, last, name, sweep, owed>> /\ Track

\* releaseMetroAlias reads the owner
ReleaseRead(s) ==
  /\ pc[s] = "leaving"
  /\ Goto(s, IF claim[name[s]] = s THEN "releasing" ELSE "gone")
  /\ UNCHANGED <<claim, aged, view, heir, todo, last, name, sweep, owed>> /\ Track

ReleaseRm(s) ==
  /\ pc[s] = "releasing"
  /\ claim' = [claim EXCEPT ![name[s]] = Absent]
  /\ Goto(s, "gone")
  /\ UNCHANGED <<aged, view, heir, todo, last, name, sweep, owed>> /\ Track

\* The 15 seconds of grace after a claim pass
Age(s) ==
  /\ s \notin aged /\ pc[s] # "register" /\ \E n \in Name : claim[n] = s
  /\ aged' = aged \cup {s}
  /\ UNCHANGED <<claim, pc, view, heir, todo, last, name, sweep, owed>> /\ Track

Crash(s) ==
  /\ pc[s] \in Starting \cup {"up"}
  /\ Goto(s, "dead")
  /\ sweep' = [sweep EXCEPT ![s] = NoSweep] /\ view' = [view EXCEPT ![s] = {}]
  /\ Forget(s)
  /\ UNCHANGED <<claim, aged, heir, name, owed>> /\ Track

----------------------------------------------------------------------------
Init ==
  /\ claim = [n \in Name |-> Absent] /\ aged = {}
  /\ pc = [s \in Sessions |-> "off"] /\ view = [s \in Sessions |-> {}]
  /\ heir = [s \in Sessions |-> NoSession] /\ todo = [s \in Sessions |-> <<>>]
  /\ last = {} /\ name = [s \in Sessions |-> NoName]
  /\ sweep = [s \in Sessions |-> NoSweep]
  /\ owed = {} /\ clean = TRUE

SweepStep(s) == SweepReads(s) \/ SweepRemoves(s) \/ SweepEnds(s)
StartStep(s) == \/ BeginClaim(s) \/ WidenChoice(s) \/ NoneAvailable(s)
                \/ Mkdir(s) \/ ReadOwner(s) \/ WriteOwner(s) \/ Undo(s) \/ Register(s)

Next ==
  \E s \in Sessions :
    \/ Start(s) \/ StartStep(s) \/ SweepBegins(s) \/ SweepStep(s)
    \/ Shutdown(s) \/ ReleaseRead(s) \/ ReleaseRm(s) \/ Age(s) \/ Crash(s)

Spec == Init /\ [][Next]_vars

\* Sessions that differ in nothing
Symmetry == Permutations(Sessions \ (Sweepers \cup Alone))

----------------------------------------------------------------------------
(* Properties *)

\* Every variable keeps to its domain, and a session that is up has a name.
TypeOK ==
  /\ claim \in [Name -> {Absent, Bare} \cup Sessions] /\ aged \subseteq Sessions
  /\ pc \in [Sessions -> PC] /\ view \in [Sessions -> SUBSET Sessions]
  /\ heir \in [Sessions -> Sessions \cup {NoSession}]
  /\ todo \in [Sessions -> Candidates] /\ last \subseteq Sessions
  /\ name \in [Sessions -> Name \cup {NoName}] /\ sweep \in [Sessions -> Sweep]
  /\ owed \subseteq Sessions /\ clean \in BOOLEAN
  /\ \A s \in Live : name[s] # NoName

\* README.md:85: aliases are allocated atomically, two live sessions do not get
\* the same name.  A sweep that finds the directory of a claim before its
\* owner.json removes it, without any grace, and the name is given out again.
UniqueNames == \A s, t \in Live : name[s] = name[t] => s = t

\* As long as no sweep overlaps the writing or the release of a claim, names
\* are unique, however many sessions start, sweep, crash and leave at the same
\* time: the grace protects a session between its claim and its registration.
SerialNamesAreUnique == clean => UniqueNames

\* index.ts:1163: a live session keeps its name even if its claim is gone: a
\* session that saw it when it started does not take the name.
LiveNameIsKept == \A s, t \in Live : s \in view[t] => name[s] # name[t]

\* A session that sweeps and continues one which crashed gets its name back, and
\* is not pushed past the dead one's claim, once that claim is past the grace.
AgedClaimIsReclaimed ==
  \A s \in Sweepers \cap owed :
    pc[s] \in {"register", "up"} => name[s] = name[heir[s]]
=============================================================================
