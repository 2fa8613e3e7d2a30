----------------------------- MODULE Delegate ------------------------------
(***************************************************************************)
(* metro_delegate: pick a peer, ask it, and perhaps wait for the answer    *)
(* (src/src/delegate.ts, with select.ts, list.ts and resolveTarget of      *)
(* transport.ts).                                                          *)
(*                                                                         *)
(* The registry is read twice: once to pick a session, once by enqueueAsk, *)
(* which looks the picked session's name up again.  Sessions come and go   *)
(* in between.  What becomes of the ask is in AskProtocol; here its record *)
(* is queued, under way, and at some time perhaps answered or failed.      *)
(***************************************************************************)
EXTENDS Naturals, Sequences, FiniteSets, SequencesExt

CONSTANTS Sessions,  \* instance ids of the peers
          Names,     \* their aliases
          MaxTokens, \* bound on the context usage
          Scope      \* of the delegation: "cwd", "project" or "all"

VARIABLES
  name, place, \* of each session: its alias, and how its directory relates to the caller's
  registry,    \* live entries, by instance id
  hint,        \* targetHint
  pc, picked, asked, \* runDelegate: where it is, whom it picked, whom it asked
  rec, handoff, \* the ask's latest metrol:request; has metrol:handoff been written?
  late, result, \* has timeoutMs passed?  how runDelegate ended
  inTime        \* history: the ask was answered or failed before

peers == <<name, place>>
vars  == <<name, place, registry, hint, pc, picked, asked, rec, handoff, late, result, inTime>>

None   == "none"

ASSUME DelegateAssumption ==
  /\ IsFiniteSet(Sessions) /\ Sessions \cap Names = {} /\ None \notin Sessions \cup Names
  /\ MaxTokens \in Nat /\ Scope \in {"cwd", "project", "all"}

Place  == {"cwd", "project", "elsewhere"}
Entry  == [idle : BOOLEAN, tokens : 0..MaxTokens] \* no usage reported counts as 0
Live   == DOMAIN registry
Closed == {"answered", "failed"}

----------------------------------------------------------------------------
(* Listing and choice, as the code computes them *)

Visible(s) == CASE Scope = "all"     -> TRUE
                [] Scope = "cwd"     -> place[s] = "cwd"
                [] Scope = "project" -> place[s] # "elsewhere"

\* filter: those of a list that are in the set
Filter(list, set) ==
  LET kept[i \in 0..Len(list)] ==
        IF i = 0 THEN <<>>
        ELSE IF list[i] \in set THEN Append(kept[i - 1], list[i]) ELSE kept[i - 1]
  IN kept[Len(list)]

\* listSessions: a stable sort by rank of the files in the order of readdir
ListSessions(files) ==
  LET Ranked(p) == Filter(files, {s \in Live : Visible(s) /\ place[s] = p})
  IN Ranked("cwd") \o Ranked("project") \o Ranked("elsewhere")

Matches(s) == hint \in {s, name[s]}

\* The hint narrows the pool, unless nothing matches it.
Pool(all) == LET hits == Filter(all, {s \in Live : Matches(s)})
             IN IF hint # None /\ hits # <<>> THEN hits ELSE all

\* Slip: the running sessions first
SelectPeerRunning(pool) ==
  LET Before(i, j) ==
        LET s == registry[pool[i]]
            t == registry[pool[j]]
        IN IF s.idle # t.idle THEN t.idle
           ELSE s.tokens < t.tokens \/ (s.tokens = t.tokens /\ i < j)
  IN pool[CHOOSE i \in DOMAIN pool : \A j \in DOMAIN pool \ {i} : Before(i, j)]

\* selectPeer: the first after a sort by state, tokens and index
SelectPeer(pool) ==
  LET Before(i, j) ==
        LET s == registry[pool[i]]
            t == registry[pool[j]]
        IN IF s.idle # t.idle THEN s.idle
           ELSE s.tokens < t.tokens \/ (s.tokens = t.tokens /\ i < j)
  IN pool[CHOOSE i \in DOMAIN pool : \A j \in DOMAIN pool \ {i} : Before(i, j)]

\* Slip: of several hits the first is as good as any
ResolveAny(target) ==
  LET hits == {s \in Live : Visible(s) /\ target \in {s, name[s]}}
  IN IF hits = {} THEN None ELSE CHOOSE s \in hits : TRUE

\* resolveTarget, None when it refuses: nobody, or more than one
ResolveTarget(target) ==
  LET hits == {s \in Live : Visible(s) /\ target \in {s, name[s]}}
  IN IF \E s \in hits : hits = {s} THEN CHOOSE s \in hits : TRUE ELSE None

----------------------------------------------------------------------------
(* runDelegate *)

Ends(r) == pc' = "done" /\ result' = r

\* listSessions, selectPeer
Pick ==
  /\ pc = "idle"
  /\ \E files \in SetToSeqs(Live) :
       LET all == ListSessions(files)
       IN IF all = <<>>
          THEN Ends("no_idle_peer") /\ UNCHANGED picked
          ELSE picked' = SelectPeer(Pool(all)) /\ pc' = "picked" /\ UNCHANGED result
  /\ UNCHANGED <<peers, registry, hint, asked, rec, handoff, late, inTime>>

\* enqueueAsk looks up the name of the picked session.
LookUp ==
  /\ pc = "picked"
  /\ asked' = ResolveTarget(name[picked])
  /\ IF asked' = None
     THEN Ends("threw") /\ rec' = "failed"
     ELSE pc' = "writing" /\ UNCHANGED <<result, rec>>
  /\ UNCHANGED <<peers, registry, hint, picked, handoff, late, inTime>>

\* The ask is refused for its size (and recorded), or the write throws.
WriteFails ==
  /\ pc = "writing"
  /\ Ends("threw") /\ rec' \in {None, "failed"}
  /\ UNCHANGED <<peers, registry, hint, picked, asked, handoff, late, inTime>>

Written ==
  /\ pc = "writing"
  /\ pc' = "asked" /\ rec' = "queued"
  /\ UNCHANGED <<peers, registry, hint, picked, asked, handoff, late, result, inTime>>

\* The ack has come, or its time is over.  With waitForReply the poll begins,
\* and its clock starts.
EnqueueReturns ==
  /\ pc = "asked"
  /\ handoff' = TRUE
  /\ \/ pc' = "polling" /\ UNCHANGED result
     \/ Ends("queued")
  /\ UNCHANGED <<peers, registry, hint, picked, asked, rec, late, inTime>>

\* Slip: the clock is looked at before the record
PollClockFirst ==
  /\ pc = "polling" /\ (rec \in Closed \/ late)
  /\ Ends(IF late THEN "timeout" ELSE rec)
  /\ UNCHANGED <<peers, registry, hint, picked, asked, rec, handoff, late, inTime>>

\* Slip: the poll relies on the ask to end
PollForAnswer ==
  /\ pc = "polling" /\ rec \in Closed
  /\ Ends(rec)
  /\ UNCHANGED <<peers, registry, hint, picked, asked, rec, handoff, late, inTime>>

\* The poll that ends the loop.  The others change nothing.
Poll ==
  /\ pc = "polling" /\ (rec \in Closed \/ late)
  /\ Ends(IF rec \in Closed THEN rec ELSE "timeout")
  /\ UNCHANGED <<peers, registry, hint, picked, asked, rec, handoff, late, inTime>>

TimePasses ==
  /\ pc = "polling" /\ ~late /\ late' = TRUE
  /\ UNCHANGED <<peers, registry, hint, pc, picked, asked, rec, handoff, result, inTime>>

----------------------------------------------------------------------------
(* The rest of the system *)

\* Acks, replies, fails and metro_cancel: the record moves on, and is never
\* reopened (AskProtocol: TerminalIsSticky).
AskProgresses ==
  /\ pc \in {"asked", "polling"} /\ rec \in {"queued", "running", "answered"}
  /\ \/ rec = "queued" /\ rec' = "running"
     \/ rec # "answered" /\ rec' = "answered"
     \/ rec' = "failed"
  /\ inTime' = (inTime \/ (rec' \in Closed /\ ~late))
  /\ UNCHANGED <<peers, registry, hint, pc, picked, asked, handoff, late, result>>

\* A session starts, changes or ends.  Bound: between the two looks at the
\* registry; the first may find any.
RegistryChanges ==
  /\ pc = "picked"
  /\ \/ \E s \in Sessions, e \in Entry :
          registry' = [t \in Live \cup {s} |-> IF t = s THEN e ELSE registry[t]]
     \/ \E s \in Live : registry' = [t \in Live \ {s} |-> registry[t]]
  /\ UNCHANGED <<peers, hint, pc, picked, asked, rec, handoff, late, result, inTime>>

Init ==
  /\ name \in [Sessions -> Names] /\ place \in [Sessions -> Place]
  /\ \E alive \in SUBSET Sessions : registry \in [alive -> Entry]
  /\ hint \in Sessions \cup Names \cup {None}
  /\ pc = "idle" /\ picked = None /\ asked = None /\ rec = None
  /\ handoff = FALSE /\ late = FALSE /\ result = None /\ inTime = FALSE

Next ==
  \/ Pick \/ LookUp \/ WriteFails \/ Written \/ EnqueueReturns \/ Poll \/ TimePasses
  \/ AskProgresses \/ RegistryChanges

Spec == Init /\ [][Next]_vars

\* A call that has begun goes on, and its sleeps end.  Nobody has to answer.
FairSpec ==
  /\ Spec
  /\ WF_vars(pc # "idle" /\ (LookUp \/ Written \/ WriteFails \/ EnqueueReturns \/ Poll))
  /\ WF_vars(TimePasses)

----------------------------------------------------------------------------
(* Properties *)

\* Every variable keeps to its domain, and the audit entry is written for an
\* ask that has a record.
TypeOK ==
  /\ registry \in UNION {[alive -> Entry] : alive \in SUBSET Sessions}
  /\ pc \in {"idle", "picked", "writing", "asked", "polling", "done"}
  /\ {picked, asked} \subseteq Sessions \cup {None}
  /\ rec \in {None, "queued", "running"} \cup Closed
  /\ result \in {None, "no_idle_peer", "threw", "queued", "timeout"} \cup Closed
  /\ {handoff, late, inTime} \subseteq BOOLEAN
  /\ handoff => rec # None

\* s is as good a choice as t: idle before running, then fewer tokens, then
\* nearer to the caller.
AsGood(s, t) ==
  LET near == [cwd |-> 0, project |-> 1, elsewhere |-> 2]
      e == registry[s]
      f == registry[t]
  IN \/ e.idle /\ ~f.idle
     \/ e.idle = f.idle /\ e.tokens < f.tokens
     \/ e.idle = f.idle /\ e.tokens = f.tokens /\ near[place[s]] <= near[place[t]]

\* The choice and the call.  Whatever the order of the files, the picked session
\* is in scope, matches the hint if anyone in scope does, and none of those
\* is better.  And the ask goes to it: another session gets it only when it has
\* the same name and the picked one is gone; when both are there, nobody does.
BestPeerIsAsked ==
  [][/\ picked' # picked =>
          LET inScope == {s \in Live : Visible(s)}
              hits    == {s \in inScope : Matches(s)}
              pool    == IF hits = {} THEN inScope ELSE hits
          IN picked' \in pool /\ \A t \in pool : AsGood(picked', t)
     /\ asked' # asked =>
          asked' \in {picked, None} \/ (picked \notin Live /\ name[asked'] = name[picked])]_vars

\* An answer or a failure that is recorded before the timeout is what the
\* blocking call returns, however late its next poll comes.
AnswerBeatsTimeout == result = "timeout" => ~inTime

\* metro_delegate returns, also when the peer never answers: no monitor watches
\* its ask.
DelegateReturns == pc # "idle" ~> pc = "done"
=============================================================================
