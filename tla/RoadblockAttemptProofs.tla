----------------------- MODULE RoadblockAttemptProofs -----------------------
(* Theorems about RoadblockAttempt and the session it runs in, for any     *)
(* roadblocks, seeds, limits, and numbers of signals and sessions.         *)
EXTENDS RoadblockAttempt, FiniteSetTheorems, TLAPS

USE AttemptAssumption

Record ==
    DOMAIN att = {"key", "direct", "chains", "tries", "ranked", "seed", "root", "orig", "evidence", "ranges",
                  "fields", "text", "plan", "left"}

----------------------------------------------------------------------------
(* Where a step of a handler leaves the process.                           *)
After == Working \cup {"head", "hung", "ending"}

LEMMA HandlerStays == Handler => UNCHANGED session /\ pc \in Working /\ pc' \in After
<1> USE DEF Working, After, Goes, Returns, Raises, Fails
<1>1. Begin \/ Lookup \/ Slice \/ ConstraintsUsable \/ ConstraintsRetried \/ Hangs \/ Uncaught
          => UNCHANGED session /\ pc \in Working /\ pc' \in After
  BY DEF Begin, Lookup, Slice, ConstraintsUsable, ConstraintsRetried, Hangs, Uncaught
<1>2. Rank \/ Route \/ AllPathsDone => UNCHANGED session /\ pc \in Working /\ pc' \in After
  BY DEF Rank, Route, AllPathsDone
<1>3. ExtractionSkipped \/ Extract \/ Export => UNCHANGED session /\ pc \in Working /\ pc' \in After
  BY DEF ExtractionSkipped, Extract, Export, ExtractionFails, NextSeed
<1>4. PathGivesUp \/ PathProposes => UNCHANGED session /\ pc \in Working /\ pc' \in After
  BY DEF PathGivesUp, PathProposes, PathEnds
<1>5. ASSUME NEW looks \in BOOLEAN, NEW outcome \in Outcome, PathTests(looks, outcome)
      PROVE  UNCHANGED session /\ pc \in Working /\ pc' \in After
  BY <1>5 DEF PathTests, PathEnds
<1> QED
  BY <1>1, <1>2, <1>3, <1>4, <1>5 DEF Handler

(* A signal or a kill ends what the thread is doing, unless the first      *)
(* handler only notes it.                                                  *)
LEMMA StoppedLeaves ==
    Stopped => \/ pc' = pc /\ dumpHit' = dumpHit
               \/ /\ pc' \in {"exited", "closing", "ending"} /\ dumpHit' = (dumpHit \/ pc = "dumping")
                  /\ pc' # "exited" => pc \notin {"import", "store"} \cup Over
  BY DEF Stopped, Signal, SignalHandler, RunnerHandler, DefaultHandler, Kill, Interrupted, Unwound, Boot

----------------------------------------------------------------------------
(* static.json is cut while it is rewritten, and after that only if the    *)
(* rewriting was hit.                                                      *)
StaticInv ==
    /\ static \in {"whole", "cut"} /\ dumpHit \in BOOLEAN
    /\ static = "cut" => pc = "dumping" \/ dumpHit
    /\ pc = "broken" => dumpHit

LEMMA NextStatic == StaticInv /\ [Next]_vars => StaticInv'
<1> SUFFICES ASSUME StaticInv, [Next]_vars PROVE StaticInv'
    OBVIOUS
<1> USE DEF StaticInv
<1>1. CASE SessionStep
  BY <1>1 DEF SessionStep, Import, CreateRunner, LoadFuzzerPid, CreateTracer, StopMonitor, OpenStatic,
              DumpStatic, Exit, session
<1>2. CASE InitAttemptedRoadblockStore
  BY <1>2 DEF InitAttemptedRoadblockStore, Goes, session
<1>3. CASE Idle
  BY <1>3 DEF Idle, MainHead, session
<1>4. ASSUME NEW k \in scope.keys, NEW direct \in scope.direct, Pick(k, direct) PROVE StaticInv'
  BY <1>4 DEF Pick, MainHead, session
<1>5. CASE Handler
  BY <1>5, HandlerStays DEF session, Working, After
<1>6. CASE Stopped
  <2>1. static' = static
    BY <1>6 DEF Stopped, Signal, Kill
  <2> QED
    BY <1>6, <2>1, StoppedLeaves
<1>7. CASE Dies
  BY <1>7 DEF Dies
<1>8. CASE NewSession
  BY <1>8 DEF NewSession, Restart
<1>9. CASE UNCHANGED vars
  BY <1>9 DEF vars, session
<1> QED
  BY <1>1, <1>2, <1>3, <1>4, <1>5, <1>6, <1>7, <1>8, <1>9 DEF Next, Main

(* StartsAgain: a session that cannot start was preceded by one that was   *)
(* hit while it rewrote static.json.                                       *)
THEOREM SessionsStartAgain == Spec => []StartsAgain
<1>1. Init => StaticInv
  BY DEF Init, SessionInit, StaticInv
<1>2. StaticInv => StartsAgain
  BY DEF StaticInv, StartsAgain
<1> QED
  BY <1>1, <1>2, NextStatic, PTL DEF Spec

----------------------------------------------------------------------------
(* The counter of failed extractions is reset before the second run of the *)
(* extractor, and never exceeds the barren ones.                           *)
CounterInv ==
    /\ failures \in Nat /\ barren \in Nat /\ failures <= barren
    /\ pc = "export" => failures = 0

LEMMA FailureCounted ==
    ASSUME CounterInv, ExtractionFails, failures < FailureThreshold
    PROVE  CounterInv'
<1>1. /\ failures' = failures + 1 /\ barren' = Least(barren + 1, FailureThreshold)
      /\ pc' \in {"route", "extract"}
  BY DEF ExtractionFails, NextSeed, Goes
<1> QED
  BY <1>1 DEF CounterInv, Least

LEMMA NextCounted == CounterInv /\ [Next]_vars => CounterInv'
<1> SUFFICES ASSUME CounterInv, [Next]_vars PROVE CounterInv'
    OBVIOUS
<1> USE DEF Goes, extraction
<1>1. CASE Extract
  <2>1. CASE ExtractionFails
    BY <1>1, <2>1, FailureCounted DEF Extract
  <2>2. CASE failures' = 0 /\ barren' = barren
    BY <2>2 DEF CounterInv
  <2> QED
    BY <1>1, <2>1, <2>2 DEF Extract
<1>2. CASE Export
  <2>1. failures < FailureThreshold
    BY <1>2 DEF Export, CounterInv
  <2>2. CASE ExtractionFails
    BY <2>1, <2>2, FailureCounted
  <2>3. CASE failures' = 0 /\ barren' = 0
    BY <2>3 DEF CounterInv
  <2> QED
    BY <1>2, <2>2, <2>3 DEF Export
<1>3. CASE NewSession
  BY <1>3 DEF NewSession, Restart, CounterInv
<1>4. CASE UNCHANGED <<failures, barren>> /\ (pc' = "export" => pc = "export")
  BY <1>4 DEF CounterInv
<1>5. ASSUME NEW k \in scope.keys, NEW direct \in scope.direct, Pick(k, direct) PROVE CounterInv'
  BY <1>5, <1>4 DEF Pick, MainHead
<1>6. CASE SessionStep /\ Framed
  BY <1>4, <1>6 DEF Framed, SessionStep, Import, CreateRunner, LoadFuzzerPid, CreateTracer, StopMonitor,
                    OpenStatic, DumpStatic, Exit
<1>7. CASE InitAttemptedRoadblockStore \/ Idle \/ (Dies /\ Framed)
  BY <1>4, <1>7 DEF InitAttemptedRoadblockStore, Idle, MainHead, Framed, Dies
<1>8. CASE Begin \/ Lookup \/ Slice \/ ConstraintsUsable \/ ConstraintsRetried \/ Hangs \/ Uncaught
  BY <1>4, <1>8 DEF Begin, Lookup, Slice, ConstraintsUsable, ConstraintsRetried, Hangs, Uncaught, Returns,
                    Raises, Fails
<1>9. CASE Rank \/ Route \/ AllPathsDone \/ ExtractionSkipped
  BY <1>4, <1>9 DEF Rank, Route, AllPathsDone, ExtractionSkipped, NextSeed, Returns
<1>10. CASE PathGivesUp \/ PathProposes
  BY <1>4, <1>10 DEF PathGivesUp, PathProposes, PathEnds, Returns, Fails
<1>11. ASSUME NEW looks \in BOOLEAN, NEW outcome \in Outcome, PathTests(looks, outcome) PROVE CounterInv'
  BY <1>4, <1>11 DEF PathTests, PathEnds, Returns, Fails
<1>12. CASE Stopped
  <2>1. UNCHANGED <<failures, barren>>
    BY <1>12 DEF Stopped
  <2> QED
    BY <1>4, <1>12, <2>1, StoppedLeaves
<1>13. CASE UNCHANGED vars
  BY <1>4, <1>13 DEF vars
<1> QED
  BY <1>1, <1>2, <1>3, <1>5, <1>6, <1>7, <1>8, <1>9, <1>10, <1>11, <1>12, <1>13 DEF Next, Main, Handler

(* DisabledIsEarned: the counter that disables extraction counts no more   *)
(* failures than followed each other.                                      *)
THEOREM ExtractionGivenUpFairly == Spec => []DisabledIsEarned
<1>1. Init => CounterInv
  BY DEF Init, SessionInit, CounterInv
<1>2. CounterInv => DisabledIsEarned
  BY DEF CounterInv, DisabledIsEarned
<1> QED
  BY <1>1, <1>2, NextCounted, PTL DEF Spec

----------------------------------------------------------------------------
(* What was worked on is on file; what is on file is in memory once the    *)
(* store is loaded; and the direct handler marks before it works.          *)
Loading == {"import", "store"} \cup Over
Marked == Working \ {"begin", "lookup"}
StoreInv ==
    /\ Record
    /\ worked \subseteq filed
    /\ pc \notin Loading => filed \subseteq attempted
    /\ pc \in Marked /\ att.direct => att.key \in filed

LEMMA NextStore == StoreInv /\ [Next]_vars => StoreInv'
<1> SUFFICES ASSUME StoreInv, [Next]_vars PROVE StoreInv'
    OBVIOUS
<1> USE DEF Goes, Returns, Raises, Loading, Marked, Working, Over, Record, NoAttempt
<1>1. CASE Lookup
  <2>1. ASSUME att.direct PROVE attempted' = attempted \cup {att.key} /\ filed' = filed \cup {att.key}
    BY <1>1, <2>1 DEF Lookup, MarkRoadblockAttempted
  <2>2. ASSUME ~att.direct PROVE attempted' = attempted /\ filed' = filed
    BY <1>1, <2>2 DEF Lookup
  <2>3. worked' = worked /\ pc = "lookup" /\ pc' \in {"head", "slice", "ending"}
    BY <1>1 DEF Lookup
  <2>4. att' = NoAttempt \/ \E n \in 1 .. MaxChains : att' = [att EXCEPT !.chains = n]
    BY <1>1 DEF Lookup
  <2> QED
    BY <2>1, <2>2, <2>3, <2>4 DEF StoreInv
<1>2. ASSUME NEW looks \in BOOLEAN, NEW outcome \in Outcome, PathTests(looks, outcome) PROVE StoreInv'
  <2>1. /\ UNCHANGED <<attempted, filed>> /\ pc = "test"
        /\ worked' = worked \/ (att.direct /\ worked' = worked \cup {att.key})
    BY <1>2 DEF PathTests, PathEnds, stores, Fails
  <2>2. /\ Record' /\ pc' \notin Loading
        /\ pc' \in Marked /\ att'.direct => att.direct /\ att'.key = att.key
    BY <1>2 DEF PathTests, PathEnds, StoreInv, Fails
  <2> QED
    BY <2>1, <2>2 DEF StoreInv
<1>3. ASSUME UNCHANGED <<attempted, filed, worked>>, Record', pc' \notin Loading => pc \notin Loading,
             pc' \in Marked /\ att'.direct => pc \in Marked /\ att.direct /\ att'.key = att.key
      PROVE  StoreInv'
  BY <1>3 DEF StoreInv
<1>4. CASE Begin \/ Slice \/ ConstraintsUsable \/ ConstraintsRetried \/ Hangs \/ Uncaught
  BY <1>3, <1>4 DEF Begin, Slice, ConstraintsUsable, ConstraintsRetried, Hangs, Uncaught, Fails, stores, StoreInv
<1>5. CASE Rank \/ Route \/ AllPathsDone
  BY <1>3, <1>5 DEF Rank, Route, AllPathsDone, stores, StoreInv
<1>6. CASE ExtractionSkipped \/ Extract \/ Export
  BY <1>3, <1>6 DEF ExtractionSkipped, Extract, Export, ExtractionFails, NextSeed, stores, StoreInv
<1>7. CASE PathGivesUp \/ PathProposes
  BY <1>3, <1>7 DEF PathGivesUp, PathProposes, PathEnds, Fails, stores, StoreInv
<1>8. ASSUME NEW k \in scope.keys, NEW direct \in scope.direct, Pick(k, direct) PROVE StoreInv'
  BY <1>3, <1>8 DEF Pick, MainHead, stores, StoreInv
<1>9. CASE SessionStep /\ Framed
  BY <1>3, <1>9 DEF Framed, SessionStep, Import, CreateRunner, LoadFuzzerPid, CreateTracer, StopMonitor,
                    OpenStatic, DumpStatic, Exit, stores, StoreInv
<1>10. CASE Idle \/ (Dies /\ Framed)
  BY <1>3, <1>10 DEF Idle, MainHead, Framed, Dies, stores, StoreInv
<1>11. CASE InitAttemptedRoadblockStore
  BY <1>11 DEF InitAttemptedRoadblockStore, Loaded, StoreInv
<1>12. CASE Stopped
  <2>1. /\ UNCHANGED <<attempted, filed, worked>> /\ att' = IF pc' \in Working THEN att ELSE NoAttempt
    BY <1>12 DEF Stopped, stores
  <2> QED
    BY <1>3, <1>12, <2>1, StoppedLeaves DEF StoreInv
<1>13. CASE NewSession
  BY <1>13 DEF NewSession, Restart, StoreInv
<1>14. CASE UNCHANGED vars
  BY <1>14 DEF vars, stores, StoreInv
<1> QED
  BY <1>1, <1>2, <1>4, <1>5, <1>6, <1>7, <1>8, <1>9, <1>10, <1>11, <1>12, <1>13, <1>14 DEF Next, Main, Handler

(* OnceAcrossSessions: a roadblock the direct handler has generated for    *)
(* does not pass its first test again, in whatever session.                *)
THEOREM GeneratedForOnce == Spec => OnceAcrossSessions
<1>1. Init => StoreInv
  BY DEF Init, SessionInit, StoreInv, Record, NoAttempt, Marked, Working
<1>2. StoreInv /\ [Next]_vars
          => [\A k \in Key : pc = "begin" /\ att.direct /\ att.key = k /\ k \in worked => pc' # "lookup"]_vars
  <2> SUFFICES ASSUME StoreInv, Next, NEW k \in Key, pc = "begin", att.direct, att.key = k, k \in worked
               PROVE  pc' # "lookup"
      OBVIOUS
  <2>1. att.key \in attempted
    BY DEF StoreInv, Loading, Over
  <2>2. CASE Handler
    <3>2. ~(Lookup \/ Slice \/ ConstraintsUsable \/ ConstraintsRetried \/ Rank \/ ExtractionSkipped)
      BY DEF Lookup, Slice, ConstraintsUsable, ConstraintsRetried, Rank, ExtractionSkipped
    <3>3. ~(Extract \/ Export \/ Hangs \/ Uncaught \/ Route \/ AllPathsDone \/ PathGivesUp \/ PathProposes)
      BY DEF Extract, Hangs, Uncaught, Export, Route, AllPathsDone, PathGivesUp, PathProposes
    <3>4. ~\E looks \in BOOLEAN, outcome \in Outcome : PathTests(looks, outcome)
      BY DEF PathTests
    <3>1. Begin
      BY <2>2, <3>2, <3>3, <3>4 DEF Handler
    <3> QED
      BY <2>1, <3>1 DEF Begin, Raises, Returns, Goes
  <2>3. CASE Stopped
    BY <2>3, StoppedLeaves
  <2> QED
    BY <2>2, <2>3 DEF Next, Main, SessionStep, Import, CreateRunner, LoadFuzzerPid, CreateTracer, StopMonitor,
                      OpenStatic, DumpStatic, Exit, InitAttemptedRoadblockStore, Idle, Pick, MainHead, Dies,
                      NewSession, Restart
<1> QED
  BY <1>1, <1>2, NextStore, PTL DEF Spec, OnceAcrossSessions

----------------------------------------------------------------------------
(* A file of the extractor is about the roadblock of its directory and a   *)
(* root of its seed; an attempt has evidence from its seeds on, and only   *)
(* of the seed it took it from.                                            *)
Evident == {"route", "paths", "test"}
Own(s, k) == Origins[s] \X {k}
Filed(file) ==
    /\ file \in [Dir -> (Seed \X Key) \cup {None}]
    /\ \A s \in Seed, k \in Key : file[<<s, k>>] = None \/ file[<<s, k>>] \in Own(s, k)
EvidenceInv ==
    /\ Record /\ scope \in Scopes
    /\ Filed(rel)
    /\ pc \in Working => att.key \in Key
    /\ pc \in {"extract", "export"} => att.ranked \in Seq(Seed) /\ att.ranked # <<>>
    /\ pc = "export" => att.root \in Origins[Head(att.ranked)]
    /\ att.evidence # None =>
         pc \in Evident /\ att.evidence \in Own(att.seed, att.key) /\ att.orig \in Origins[att.seed]

(* The next seed is one of those left.                                     *)
LEMMA SeedTaken ==
    ASSUME EvidenceInv, UNCHANGED scope, pc \in {"extract", "export"}, Filed(rel'),
           NEW evidence, NEW ranges, NEW fields, NextSeed(evidence, ranges, fields),
           evidence = None \/ (pc = "export" /\ evidence \in Own(Head(att.ranked), att.key))
    PROVE  EvidenceInv'
<1>1. att.ranked \in Seq(Seed) /\ att.ranked # <<>> /\ att.key \in Key
  BY DEF EvidenceInv, Working
<1>2. Head(att.ranked) \in Seed /\ Tail(att.ranked) \in Seq(Seed)
  BY <1>1
<1> DEFINE rest == IF evidence # None THEN <<>> ELSE Tail(att.ranked)
           orig == IF evidence # None THEN att.root ELSE None
<1>3. /\ pc' = IF rest = <<>> THEN "route" ELSE "extract"
      /\ att' = [att EXCEPT !.ranked = rest, !.seed = Head(att.ranked), !.root = None, !.orig = orig,
                            !.evidence = evidence, !.ranges = ranges, !.fields = fields]
  BY DEF NextSeed, Goes
<1>4. /\ Record' /\ att'.key = att.key /\ att'.ranked = rest
      /\ att'.seed = Head(att.ranked) /\ att'.evidence = evidence /\ att'.orig = orig
  BY <1>3 DEF EvidenceInv, Record
<1>5. rest \in Seq(Seed) /\ (evidence # None => pc' = "route")
  BY <1>2, <1>3
<1>6. evidence # None => evidence \in Own(Head(att.ranked), att.key) /\ orig \in Origins[Head(att.ranked)]
  BY DEF EvidenceInv
<1>7. pc' \in {"route", "extract"} /\ (pc' = "extract" => rest # <<>>)
  BY <1>3
<1> HIDE DEF rest, orig
<1> QED
  BY <1>1, <1>4, <1>5, <1>6, <1>7 DEF EvidenceInv, Evident

LEMMA NextEvident == EvidenceInv /\ [Next]_vars => EvidenceInv'
<1> SUFFICES ASSUME EvidenceInv, [Next]_vars PROVE EvidenceInv'
    OBVIOUS
<1>0. UNCHANGED scope
  BY DEF Next, vars
<1>1. ASSUME pc \in {"extract", "export"}
      PROVE  /\ Head(att.ranked) \in Seed /\ att.key \in Key
             /\ Here = <<Head(att.ranked), att.key>> /\ Here \in Dir
  BY <1>1 DEF EvidenceInv, Working, Here, ArtifactDir, Dir
<1>2. CASE ExtractionSkipped
  BY <1>0, <1>2, SeedTaken DEF ExtractionSkipped, extraction, EvidenceInv
<1>3. CASE Extract
  <2>1. CASE ExtractionFails
    BY <1>0, <1>3, <2>1, SeedTaken DEF Extract, ExtractionFails, EvidenceInv
  <2>2. ASSUME NEW root \in Origins[Head(att.ranked)], pc' = "export", att' = [att EXCEPT !.root = root]
        PROVE  EvidenceInv'
    <3>1. /\ pc = "extract" /\ rel' = rel /\ att.evidence = None /\ Record
          /\ att.ranked \in Seq(Seed) /\ att.ranked # <<>> /\ att.key \in Key
      BY <1>3, <2>2 DEF Extract, EvidenceInv, Working, Evident
    <3>2. /\ Record' /\ att'.root = root /\ att'.key = att.key /\ att'.ranked = att.ranked
          /\ att'.evidence = None
      BY <2>2, <3>1 DEF Record
    <3> QED
      BY <1>0, <2>2, <3>1, <3>2 DEF EvidenceInv
  <2> QED
    BY <1>3, <2>1, <2>2 DEF Extract, Goes
<1>4. CASE Export
  <2>1. pc = "export" /\ att.root \in Origins[Head(att.ranked)] /\ Origins[Head(att.ranked)] \subseteq Seed
    BY <1>1, <1>4 DEF Export, EvidenceInv
  <2>2. <<att.root, att.key>> \in Own(Head(att.ranked), att.key) /\ <<att.root, att.key>> \in Seed \X Key
    BY <1>1, <2>1 DEF Own
  <2>3. Filed(rel')
    <3>1. rel' = rel \/ rel' = [rel EXCEPT ![<<Head(att.ranked), att.key>>] = <<att.root, att.key>>]
      BY <1>1, <1>4, <2>1 DEF Export
    <3>2. Filed(rel)
      BY DEF EvidenceInv
    <3>3. ASSUME rel' = [rel EXCEPT ![<<Head(att.ranked), att.key>>] = <<att.root, att.key>>]
          PROVE  Filed(rel')
      <4>1. rel \in [Dir -> (Seed \X Key) \cup {None}]
        BY <3>2 DEF Filed
      <4>2. rel' \in [Dir -> (Seed \X Key) \cup {None}]
        BY <2>2, <3>3, <4>1
      <4>3. ASSUME NEW s \in Seed, NEW k \in Key
            PROVE  rel'[<<s, k>>] = None \/ rel'[<<s, k>>] \in Own(s, k)
        <5>1. <<s, k>> \in Dir
          BY DEF Dir
        <5>2. CASE s = Head(att.ranked) /\ k = att.key
          BY <2>2, <3>3, <4>1, <5>1, <5>2
        <5>3. CASE ~(s = Head(att.ranked) /\ k = att.key)
          <6>1. <<s, k>> # <<Head(att.ranked), att.key>>
            BY <5>3
          <6>2. rel'[<<s, k>>] = rel[<<s, k>>]
            BY <3>3, <4>1, <5>1, <6>1
          <6> QED
            BY <3>2, <6>2 DEF Filed
        <5> QED
          BY <5>2, <5>3
      <4> QED
        BY <4>2, <4>3 DEF Filed
    <3> QED
      BY <3>1, <3>2, <3>3
  <2>4. CASE ExtractionFails
    BY <1>0, <2>1, <2>3, <2>4, SeedTaken DEF ExtractionFails
  <2>5. ASSUME NEW ranges \in BOOLEAN, NEW fields \in BOOLEAN, rel'[Here] # None,
               NextSeed(rel'[Here], ranges, fields)
        PROVE  EvidenceInv'
    <3>1. rel'[Here] \in Own(Head(att.ranked), att.key)
      BY <1>1, <2>1, <2>3, <2>5 DEF Filed
    <3> QED
      BY <1>0, <2>1, <2>3, <2>5, <3>1, SeedTaken
  <2> QED
    BY <1>4, <2>4, <2>5 DEF Export
<1>5. CASE Rank
  <2>1. PICK s \in Orders :
          IF att.direct
          THEN /\ pc' = "paths"
               /\ att' = [att EXCEPT !.seed = IF s = <<>> THEN None ELSE s[1], !.plan = <<"direct_generation">>]
          ELSE /\ pc' = (IF s = <<>> THEN "route" ELSE "extract")
               /\ att' = [att EXCEPT !.ranked = s]
    BY <1>5 DEF Rank, Goes
  <2>2. s \in Seq(Seed)
    BY DEF Orders, SeqOf, EvidenceInv
  <2>3. pc = "rank" /\ rel' = rel /\ att.evidence = None /\ att.key \in Key
    BY <1>5 DEF Rank, extraction, EvidenceInv, Evident, Working
  <2>4. /\ Record' /\ att'.key = att.key /\ att'.evidence = None /\ pc' # "export"
        /\ pc' \in {"extract", "export"} => att'.ranked = s /\ s # <<>>
    BY <2>1, <2>3 DEF EvidenceInv, Record
  <2> QED
    BY <1>0, <2>2, <2>3, <2>4 DEF EvidenceInv
<1>6. ASSUME UNCHANGED rel, Record', pc' \notin {"extract", "export"},
             pc' \in Working => pc \in Working /\ att'.key = att.key,
             \/ att'.evidence = None
             \/ pc \in Evident /\ pc' \in Evident
                /\ att'.evidence = att.evidence /\ att'.seed = att.seed /\ att'.key = att.key
                /\ att'.orig = att.orig
      PROVE  EvidenceInv'
  BY <1>0, <1>6 DEF EvidenceInv
<1> USE DEF Goes, Returns, Raises, Fails, NoAttempt, Record, extraction, Working, Evident
<1>7. CASE Begin \/ Lookup \/ Slice \/ ConstraintsUsable \/ ConstraintsRetried \/ Hangs \/ Uncaught
  BY <1>6, <1>7 DEF Begin, Lookup, Slice, ConstraintsUsable, ConstraintsRetried, Hangs, Uncaught, EvidenceInv
<1>8. CASE Route \/ AllPathsDone
  <2>1. /\ UNCHANGED rel /\ Record /\ pc \in {"route", "paths"}
        /\ pc' \in {"route", "paths", "head"}
    BY <1>8 DEF Route, AllPathsDone, EvidenceInv
  <2>2. \/ att' = NoAttempt /\ pc' = "head"
        \/ (\E p, t : att' = [att EXCEPT !.plan = p, !.text = t, !.tries = 0]) /\ pc' \in Evident
        \/ att' = [att EXCEPT !.tries = @ + 1] /\ pc' \in Evident
    BY <1>8 DEF Route, AllPathsDone
  <2>3. CASE att' = NoAttempt /\ pc' = "head"
    BY <1>6, <2>1, <2>3
  <2>4. ASSUME NEW p, NEW t, att' = [att EXCEPT !.plan = p, !.text = t, !.tries = 0], pc' \in Evident
        PROVE  EvidenceInv'
    <3>1. Record' /\ att'.evidence = att.evidence /\ att'.orig = att.orig /\ att'.seed = att.seed /\ att'.key = att.key
      BY <2>1, <2>4
    <3> QED
      BY <1>6, <2>1, <2>4, <3>1
  <2>5. CASE att' = [att EXCEPT !.tries = @ + 1] /\ pc' \in Evident
    <3>1. Record' /\ att'.evidence = att.evidence /\ att'.orig = att.orig /\ att'.seed = att.seed /\ att'.key = att.key
      BY <2>1, <2>5
    <3> QED
      BY <1>6, <2>1, <2>5, <3>1
  <2> QED
    BY <2>2, <2>3, <2>4, <2>5
<1>9. ASSUME pc \in {"paths", "test"}, NEW produced \in BOOLEAN, PathEnds(produced), UNCHANGED rel
      PROVE  EvidenceInv'
  <2>1. CASE ~att.direct
    <3>1. Record' /\ att'.evidence = att.evidence /\ att'.orig = att.orig /\ att'.seed = att.seed /\ att'.key = att.key /\ pc' = "paths"
      BY <1>9, <2>1 DEF PathEnds, EvidenceInv
    <3> QED
      BY <1>6, <1>9, <3>1
  <2>2. CASE att.direct
    <3>1. \/ att' = NoAttempt /\ pc' = "head"
          \/ att' = [NoAttempt EXCEPT !.key = att.key, !.direct = TRUE, !.chains = att.chains - 1] /\ pc' = "slice"
      BY <1>9, <2>2 DEF PathEnds
    <3>2. CASE att' = NoAttempt /\ pc' = "head"
      BY <1>6, <1>9, <3>2
    <3>3. CASE att' = [NoAttempt EXCEPT !.key = att.key, !.direct = TRUE, !.chains = att.chains - 1] /\ pc' = "slice"
      <4>1. Record' /\ att'.evidence = None /\ att'.key = att.key
        BY <3>3
      <4> QED
        BY <1>6, <1>9, <3>3, <4>1
    <3> QED
      BY <3>1, <3>2, <3>3
  <2> QED
    BY <2>1, <2>2
<1>10. CASE PathGivesUp
  BY <1>9, <1>10 DEF PathGivesUp
<1>17. CASE PathProposes
  <2>1. /\ UNCHANGED rel /\ pc = "paths" /\ pc' = "test"
        /\ \E n : att' = [att EXCEPT !.left = n]
    BY <1>17 DEF PathProposes
  <2>2. Record' /\ att'.evidence = att.evidence /\ att'.orig = att.orig /\ att'.seed = att.seed /\ att'.key = att.key
    BY <2>1 DEF EvidenceInv
  <2> QED
    BY <1>6, <2>1, <2>2
<1>18. ASSUME NEW looks \in BOOLEAN, NEW outcome \in Outcome, PathTests(looks, outcome) PROVE EvidenceInv'
  <2>1. UNCHANGED rel /\ pc = "test"
    BY <1>18 DEF PathTests
  <2>2. \/ PathEnds(FALSE) \/ PathEnds(Produced(outcome))
        \/ pc' = "test" /\ att' = [att EXCEPT !.left = @ - 1]
    BY <1>18 DEF PathTests
  <2>3. CASE pc' = "test" /\ att' = [att EXCEPT !.left = @ - 1]
    <3>1. Record' /\ att'.evidence = att.evidence /\ att'.orig = att.orig /\ att'.seed = att.seed /\ att'.key = att.key
      BY <2>3 DEF EvidenceInv
    <3> QED
      BY <1>6, <2>1, <2>3, <3>1
  <2>4. Produced(outcome) \in BOOLEAN
    BY DEF Produced
  <2> QED
    BY <1>9, <2>1, <2>2, <2>3, <2>4
<1>11. ASSUME NEW k \in scope.keys, NEW direct \in scope.direct, Pick(k, direct) PROVE EvidenceInv'
  <2>1. k \in Key
    BY DEF EvidenceInv
  <2> QED
    BY <1>0, <1>11, <2>1 DEF Pick, MainHead, EvidenceInv
<1>12. CASE SessionStep /\ Framed
  BY <1>0, <1>12 DEF Framed, SessionStep, Import, CreateRunner, LoadFuzzerPid, CreateTracer, StopMonitor,
                     OpenStatic, DumpStatic, Exit, EvidenceInv
<1>13. CASE InitAttemptedRoadblockStore \/ Idle \/ (Dies /\ Framed)
  BY <1>0, <1>13 DEF InitAttemptedRoadblockStore, Idle, MainHead, Framed, Dies, EvidenceInv
<1>14. CASE Stopped
  <2>1. UNCHANGED rel /\ att' = IF pc' \in Working THEN att ELSE NoAttempt
    BY <1>14 DEF Stopped
  <2>2. pc' = pc \/ pc' \notin Working
    BY <1>14, StoppedLeaves
  <2> QED
    BY <1>0, <2>1, <2>2 DEF EvidenceInv
<1>15. CASE NewSession
  BY <1>0, <1>15 DEF NewSession, Restart, EvidenceInv
<1>16. CASE UNCHANGED vars
  BY <1>16 DEF vars, EvidenceInv
<1> QED
  BY <1>2, <1>3, <1>4, <1>5, <1>7, <1>8, <1>10, <1>11, <1>12, <1>13, <1>14, <1>15, <1>16, <1>17, <1>18
     DEF Next, Main, Handler

(* EvidenceIsOwn: the evidence the paths use was exported for this         *)
(* roadblock from a root of the seed the attempt holds, and the root that  *)
(* is mutated in its place is of that seed, whatever files earlier         *)
(* attempts and sessions left, whichever of the seeds gave none, and       *)
(* wherever the line of the seed ended each time.                          *)
THEOREM EvidenceBelongs == Spec => []EvidenceIsOwn
<1>1. Init => EvidenceInv
  BY DEF Init, SessionInit, EvidenceInv, Record, NoAttempt, Working, Filed, Dir
<1>2. EvidenceInv => EvidenceIsOwn
  BY DEF EvidenceInv, EvidenceIsOwn, Own
<1> QED
  BY <1>1, <1>2, NextEvident, PTL DEF Spec
----------------------------------------------------------------------------
(* An attempt runs down.  How much of it is left, with n seeds that reach  *)
(* the roadblock: chains, each with its tries for constraints, its seeds   *)
(* with two runs of the extractor, its tries for a plan, and the paths of  *)
(* the plan with their candidates.                                         *)
PathNames == {"flag", "taint_mutation", "state_driven", "field_mutation", "xml_grammar", "batch_mutation",
              "direct_generation"}
PathWork == MaxTests + 1
PlanWork == (MaxPlan + 7) * PathWork
RankWork(n) == PlanWork + RouterTries + 2 * n + 1
ChainWork(n) == RankWork(n) + MaxTime + 2

Turn(n, a, p) ==
    IF p = "slice" THEN RankWork(n) + MaxTime + 1
    ELSE IF p = "constraints" THEN RankWork(n) + (MaxTime - a.tries)
    ELSE IF p = "rank" THEN RankWork(n)
    ELSE IF p = "extract" THEN PlanWork + RouterTries + 2 * Len(a.ranked)
    ELSE IF p = "export" THEN PlanWork + RouterTries + 2 * Len(a.ranked) - 1
    ELSE IF p = "route" THEN PlanWork + (RouterTries - a.tries)
    ELSE IF p = "paths" THEN Len(a.plan) * PathWork
    ELSE (Len(a.plan) - 1) * PathWork + a.left

Work(n, a, p) ==
    IF p = "begin" THEN MaxChains * ChainWork(n) + 1
    ELSE IF p = "lookup" THEN MaxChains * ChainWork(n)
    ELSE (a.chains - 1) * ChainWork(n) + Turn(n, a, p)

(* What an attempt holds where it is.                                      *)
Fits(n, a, p) ==
    /\ p \in Working
    /\ p \notin {"begin", "lookup"} => a.chains \in 1 .. MaxChains
    /\ p = "constraints" => a.tries \in 0 .. MaxTime - 1
    /\ p \in {"rank", "extract", "export"} => a.tries = 0
    /\ p \in {"extract", "export"} => a.ranked \in Seq(Seed) /\ Len(a.ranked) \in 1 .. n
    /\ p = "route" => a.tries \in 0 .. RouterTries - 1
    /\ p \in {"paths", "test"} => a.plan \in Seq(PathNames) /\ Len(a.plan) <= MaxPlan + 7
    /\ p = "test" => Len(a.plan) >= 1 /\ a.left \in 1 .. MaxTests

LEMMA TimesOneLess == ASSUME NEW a \in Int, NEW k \in Int PROVE (a - 1) * k = a * k - k
  OBVIOUS

LEMMA TimesFewer ==
    ASSUME NEW a \in Nat, NEW b \in Nat, a <= b, NEW k \in Nat
    PROVE  a * k \in Nat /\ a * k <= b * k
  OBVIOUS

LEMMA WorkIsNat ==
    ASSUME NEW n \in Nat
    PROVE  /\ PathWork \in Nat /\ PlanWork \in Nat /\ PathWork <= PlanWork
           /\ RankWork(n) \in Nat /\ ChainWork(n) \in Nat
<1>1. PathWork \in Nat /\ MaxPlan + 7 \in Nat /\ 1 \in Nat /\ 1 <= MaxPlan + 7
  BY DEF PathWork
<1>2. 1 * PathWork <= (MaxPlan + 7) * PathWork /\ 0 * PathWork <= (MaxPlan + 7) * PathWork
  BY <1>1, TimesFewer
<1>3. PlanWork \in Nat /\ PathWork <= PlanWork
  BY <1>1, <1>2 DEF PlanWork
<1>4. RankWork(n) \in Nat
  BY <1>3 DEF RankWork
<1> QED
  BY <1>1, <1>3, <1>4 DEF ChainWork

(* The work of a plan is bounded, and each of its paths is worth the same. *)
LEMMA PlanIsBounded ==
    ASSUME NEW plan \in Seq(PathNames), Len(plan) <= MaxPlan + 7
    PROVE  /\ Len(plan) * PathWork \in Nat /\ Len(plan) * PathWork <= PlanWork
           /\ (Len(plan) - 1) * PathWork = Len(plan) * PathWork - PathWork
           /\ Len(plan) >= 1 => (Len(plan) - 1) * PathWork \in Nat
<1>1. PathWork \in Nat /\ Len(plan) \in Nat /\ MaxPlan + 7 \in Nat
  BY WorkIsNat
<1>2. Len(plan) * PathWork \in Nat /\ Len(plan) * PathWork <= PlanWork
  BY <1>1, TimesFewer DEF PlanWork
<1>3. (Len(plan) - 1) * PathWork = Len(plan) * PathWork - PathWork
  BY <1>1, TimesOneLess
<1>4. ASSUME Len(plan) >= 1 PROVE (Len(plan) - 1) * PathWork \in Nat
  <2>1. Len(plan) - 1 \in Nat
    BY <1>1, <1>4
  <2> QED
    BY <1>1, <2>1, TimesFewer
<1> QED
  BY <1>2, <1>3, <1>4

LEMMA TurnIsNat ==
    ASSUME NEW n \in Nat, NEW a, NEW p, Fits(n, a, p), p \notin {"begin", "lookup"}
    PROVE  Turn(n, a, p) \in Nat /\ Turn(n, a, p) < ChainWork(n)
<1>1. /\ PathWork \in Nat /\ PlanWork \in Nat /\ PathWork <= PlanWork
      /\ RankWork(n) \in Nat /\ RankWork(n) = PlanWork + RouterTries + 2 * n + 1
      /\ ChainWork(n) = RankWork(n) + MaxTime + 2 /\ PathWork = MaxTests + 1
  BY WorkIsNat DEF RankWork, ChainWork, PathWork
<1>5. ChainWork(n) \in Nat /\ PlanWork < ChainWork(n) /\ PlanWork + RouterTries + 2 * n < ChainWork(n)
  BY <1>1
<1>2. CASE p \in {"slice", "constraints", "rank", "route"}
  <2>1. \/ Turn(n, a, p) = RankWork(n) + MaxTime + 1
        \/ Turn(n, a, p) = RankWork(n) + (MaxTime - a.tries) /\ a.tries \in 0 .. MaxTime - 1
        \/ Turn(n, a, p) = RankWork(n)
        \/ Turn(n, a, p) = PlanWork + (RouterTries - a.tries) /\ a.tries \in 0 .. RouterTries - 1
    BY <1>2 DEF Fits, Turn
  <2> QED
    BY <1>1, <2>1
<1>3. CASE p \in {"extract", "export"}
  <2>1. /\ \/ Turn(n, a, p) = PlanWork + RouterTries + 2 * Len(a.ranked)
           \/ Turn(n, a, p) = PlanWork + RouterTries + 2 * Len(a.ranked) - 1
        /\ Len(a.ranked) \in 1 .. n
    BY <1>3 DEF Fits, Turn
  <2>2. 2 * Len(a.ranked) \in Nat /\ 2 * Len(a.ranked) >= 1 /\ 2 * Len(a.ranked) <= 2 * n
    BY <2>1
  <2>3. PlanWork + RouterTries \in Nat /\ 2 * n \in Nat
    BY <1>1
  <2> QED
    BY <1>5, <2>1, <2>2, <2>3
<1>4. CASE p \in {"paths", "test"}
  <2> DEFINE all == Len(a.plan) * PathWork
             others == (Len(a.plan) - 1) * PathWork
  <2>1. all \in Nat /\ all <= PlanWork /\ others = all - PathWork /\ (Len(a.plan) >= 1 => others \in Nat)
    BY <1>4, PlanIsBounded DEF Fits
  <2>2. \/ Turn(n, a, p) = all
        \/ Turn(n, a, p) = others + a.left /\ Len(a.plan) >= 1 /\ a.left \in 1 .. MaxTests
    BY <1>4 DEF Turn, Fits
  <2> HIDE DEF all, others
  <2> QED
    BY <1>1, <1>5, <2>1, <2>2
<1> QED
  BY <1>2, <1>3, <1>4 DEF Fits, Working

LEMMA ChainsAreBounded ==
    ASSUME NEW n \in Nat, NEW c \in 1 .. MaxChains
    PROVE  /\ (c - 1) * ChainWork(n) \in Nat
           /\ (c - 1) * ChainWork(n) + ChainWork(n) <= MaxChains * ChainWork(n)
           /\ MaxChains * ChainWork(n) \in Nat
<1>1. ChainWork(n) \in Nat /\ c \in Nat /\ c - 1 \in Nat /\ c <= MaxChains /\ c \in Int
  BY WorkIsNat
<1>2. c * ChainWork(n) \in Nat /\ c * ChainWork(n) <= MaxChains * ChainWork(n)
  BY <1>1, TimesFewer
<1>3. (c - 1) * ChainWork(n) = c * ChainWork(n) - ChainWork(n)
  BY <1>1, TimesOneLess
<1>4. (c - 1) * ChainWork(n) \in Nat
  BY <1>1, TimesFewer
<1>5. MaxChains * ChainWork(n) \in Nat
  BY <1>1
<1> QED
  BY <1>1, <1>2, <1>3, <1>4, <1>5

LEMMA WorkIsBounded ==
    ASSUME NEW n \in Nat, NEW a, NEW p, Fits(n, a, p)
    PROVE  Work(n, a, p) \in 0 .. MaxChains * ChainWork(n) + 1
<1>1. 1 \in 1 .. MaxChains
  OBVIOUS
<1>2. MaxChains * ChainWork(n) \in Nat
  BY <1>1, ChainsAreBounded
<1>3. CASE p \in {"begin", "lookup"}
  BY <1>2, <1>3 DEF Work
<1>4. CASE p \notin {"begin", "lookup"}
  <2>1. Turn(n, a, p) \in Nat /\ Turn(n, a, p) < ChainWork(n) /\ ChainWork(n) \in Nat
    BY <1>4, TurnIsNat, WorkIsNat
  <2>2. a.chains \in 1 .. MaxChains
    BY <1>4 DEF Fits
  <2>3. /\ (a.chains - 1) * ChainWork(n) \in Nat
        /\ (a.chains - 1) * ChainWork(n) + ChainWork(n) <= MaxChains * ChainWork(n)
    BY <2>2, ChainsAreBounded
  <2>4. Work(n, a, p) = (a.chains - 1) * ChainWork(n) + Turn(n, a, p)
    BY <1>4 DEF Work
  <2> QED
    BY <1>2, <2>1, <2>3, <2>4
<1> QED
  BY <1>3, <1>4

(* Within a chain, and on to the next.                                     *)
LEMMA ChainGoesOn ==
    ASSUME NEW n \in Nat, NEW a, NEW p, NEW b, NEW q, Fits(n, a, p), Fits(n, b, q),
           p \notin {"begin", "lookup"}, q \notin {"begin", "lookup"},
           \/ b.chains = a.chains /\ Turn(n, b, q) < Turn(n, a, p)
           \/ b.chains = a.chains - 1
    PROVE  Work(n, b, q) < Work(n, a, p)
<1>1. /\ Turn(n, a, p) \in Nat /\ Turn(n, b, q) \in Nat /\ Turn(n, b, q) < ChainWork(n) /\ ChainWork(n) \in Nat
      /\ a.chains \in 1 .. MaxChains /\ b.chains \in 1 .. MaxChains
  BY TurnIsNat, WorkIsNat DEF Fits
<1>2. /\ Work(n, a, p) = (a.chains - 1) * ChainWork(n) + Turn(n, a, p)
      /\ Work(n, b, q) = (b.chains - 1) * ChainWork(n) + Turn(n, b, q)
  BY DEF Work
<1>3. (a.chains - 1) * ChainWork(n) \in Nat /\ (b.chains - 1) * ChainWork(n) \in Nat
  BY <1>1, ChainsAreBounded
<1>4. CASE b.chains = a.chains /\ Turn(n, b, q) < Turn(n, a, p)
  BY <1>1, <1>2, <1>3, <1>4
<1>5. CASE b.chains = a.chains - 1
  <2>1. ((a.chains - 1) - 1) * ChainWork(n) = (a.chains - 1) * ChainWork(n) - ChainWork(n)
    BY <1>1, TimesOneLess
  <2> QED
    BY <1>1, <1>2, <1>3, <1>5, <2>1
<1> QED
  BY <1>4, <1>5
(* What a step of a handler makes of an attempt: it is over, or there is   *)
(* less of it left.                                                        *)
Falls(n) ==
    /\ Record'
    /\ \/ pc' \in {"head", "hung", "ending"} /\ att' = NoAttempt
       \/ Fits(n, att', pc') /\ Work(n, att', pc') < Work(n, att, pc)

LEMMA WithinChain ==
    ASSUME NEW n \in Nat, Fits(n, att, pc), Record', pc \notin {"begin", "lookup"},
           Fits(n, att', pc'), pc' \notin {"begin", "lookup"},
           att'.chains = att.chains, Turn(n, att', pc') < Turn(n, att, pc)
    PROVE  Falls(n)
  BY ChainGoesOn DEF Falls

LEMMA StartFalls ==
    ASSUME NEW n \in Nat, Record, Fits(n, att, pc), Begin \/ Lookup
    PROVE  Falls(n)
<1>0. MaxChains * ChainWork(n) \in Nat
  <2>1. 1 \in 1 .. MaxChains
    OBVIOUS
  <2> QED
    BY <2>1, ChainsAreBounded
<1>1. CASE Begin
  <2>1. /\ Record' /\ pc = "begin"
        /\ (pc' \in {"head", "ending"} /\ att' = NoAttempt) \/ (pc' = "lookup" /\ att' = att)
    BY <1>1 DEF Begin, Raises, Returns, Goes, Record, NoAttempt
  <2>2. ASSUME pc' = "lookup" PROVE Fits(n, att', pc') /\ Work(n, att', pc') < Work(n, att, pc)
    <3>1. Fits(n, att', pc')
      BY <2>2 DEF Fits, Working
    <3>2. Work(n, att', pc') = MaxChains * ChainWork(n) /\ Work(n, att, pc) = MaxChains * ChainWork(n) + 1
      BY <2>1, <2>2 DEF Work
    <3> QED
      BY <1>0, <3>1, <3>2
  <2> QED
    BY <2>1, <2>2 DEF Falls
<1>2. CASE Lookup
  <2>1. pc = "lookup" /\ Work(n, att, pc) = MaxChains * ChainWork(n)
    BY <1>2 DEF Lookup, Work
  <2>2. CASE Returns \/ Raises
    BY <2>2 DEF Returns, Raises, Goes, Record, NoAttempt, Falls
  <2>3. ASSUME NEW c \in 1 .. MaxChains, pc' = "slice", att' = [att EXCEPT !.chains = c]
        PROVE  Falls(n)
    <3>1. Record' /\ att'.chains = c
      BY <2>3 DEF Record
    <3>2. Fits(n, att', pc')
      BY <2>3, <3>1 DEF Fits, Working
    <3>3. Turn(n, att', pc') \in Nat /\ Turn(n, att', pc') < ChainWork(n) /\ ChainWork(n) \in Nat
      BY <2>3, <3>2, TurnIsNat, WorkIsNat
    <3>4. Work(n, att', pc') = (c - 1) * ChainWork(n) + Turn(n, att', pc')
      BY <2>3, <3>1 DEF Work
    <3>5. (c - 1) * ChainWork(n) \in Nat /\ (c - 1) * ChainWork(n) + ChainWork(n) <= MaxChains * ChainWork(n)
      BY ChainsAreBounded
    <3>6. Work(n, att', pc') < Work(n, att, pc)
      BY <1>0, <2>1, <3>3, <3>4, <3>5
    <3> QED
      BY <3>1, <3>2, <3>6 DEF Falls
  <2> QED
    BY <1>2, <2>2, <2>3 DEF Lookup, Goes
<1> QED
  BY <1>1, <1>2

LEMMA ConstraintsFall ==
    ASSUME NEW n \in Nat, Record, Fits(n, att, pc), Slice \/ ConstraintsUsable \/ ConstraintsRetried
    PROVE  Falls(n)
<1>0. RankWork(n) \in Nat
  BY WorkIsNat
<1>1. pc \in {"slice", "constraints"} /\ att.chains \in 1 .. MaxChains
      /\ (pc = "constraints" => att.tries \in 0 .. MaxTime - 1)
  BY DEF Slice, ConstraintsUsable, ConstraintsRetried, Fits
<1>2. \/ Returns \/ Raises
      \/ pc = "slice" /\ pc' = "constraints" /\ att' = [att EXCEPT !.tries = 0]
      \/ pc = "constraints" /\ pc' = "rank" /\ att' = [att EXCEPT !.tries = 0]
      \/ pc = "constraints" /\ pc' = "constraints" /\ att' = [att EXCEPT !.tries = @ + 1] /\ att.tries + 1 < MaxTime
  BY DEF Slice, ConstraintsUsable, ConstraintsRetried, Fails, Goes
<1>3. CASE Returns \/ Raises
  BY <1>3 DEF Returns, Raises, Goes, Record, NoAttempt, Falls
<1>4. CASE pc = "slice" /\ pc' = "constraints" /\ att' = [att EXCEPT !.tries = 0]
  <2>1. Record' /\ att'.chains = att.chains /\ att'.tries = 0
    BY <1>4 DEF Record
  <2>2. Fits(n, att', pc')
    BY <1>1, <1>4, <2>1 DEF Fits, Working
  <2>3. Turn(n, att', pc') = RankWork(n) + (MaxTime - 0) /\ Turn(n, att, pc) = RankWork(n) + MaxTime + 1
    BY <1>4, <2>1 DEF Turn
  <2> QED
    BY <1>0, <1>4, <2>1, <2>2, <2>3, WithinChain
<1>5. CASE pc = "constraints" /\ pc' = "rank" /\ att' = [att EXCEPT !.tries = 0]
  <2>1. Record' /\ att'.chains = att.chains /\ att'.tries = 0
    BY <1>5 DEF Record
  <2>2. Fits(n, att', pc')
    BY <1>1, <1>5, <2>1 DEF Fits, Working
  <2>3. Turn(n, att', pc') = RankWork(n) /\ Turn(n, att, pc) = RankWork(n) + (MaxTime - att.tries)
    BY <1>5 DEF Turn
  <2> QED
    BY <1>0, <1>1, <1>5, <2>1, <2>2, <2>3, WithinChain
<1>6. CASE pc = "constraints" /\ pc' = "constraints" /\ att' = [att EXCEPT !.tries = @ + 1] /\ att.tries + 1 < MaxTime
  <2>1. Record' /\ att'.chains = att.chains /\ att'.tries = att.tries + 1 /\ att'.tries \in 0 .. MaxTime - 1
    BY <1>1, <1>6 DEF Record
  <2>2. Fits(n, att', pc')
    BY <1>1, <1>6, <2>1 DEF Fits, Working
  <2>3. Turn(n, att', pc') = RankWork(n) + (MaxTime - att'.tries)
        /\ Turn(n, att, pc) = RankWork(n) + (MaxTime - att.tries)
    BY <1>6 DEF Turn
  <2> QED
    BY <1>0, <1>1, <1>6, <2>1, <2>2, <2>3, WithinChain
<1> QED
  BY <1>2, <1>3, <1>4, <1>5, <1>6

(* The orders of the seeds are sequences of at most all of them.           *)
LEMMA OrdersAreShort ==
    ASSUME NEW n \in Nat, n = Cardinality(scope.seeds), scope.seeds \subseteq Seed, NEW s \in Orders
    PROVE  s \in Seq(Seed) /\ Len(s) \in 0 .. n /\ (s # <<>> => Len(s) \in 1 .. n)
<1>1. PICK m \in 0 .. n : s \in [1 .. m -> scope.seeds]
  BY DEF Orders, SeqOf
<1>2. s \in Seq(Seed) /\ Len(s) = m
  BY <1>1
<1> QED
  BY <1>1, <1>2

LEMMA RankFalls ==
    ASSUME NEW n \in Nat, n = Cardinality(scope.seeds), scope.seeds \subseteq Seed,
           Record, Fits(n, att, pc), Rank
    PROVE  Falls(n)
<1>0. /\ RankWork(n) = PlanWork + RouterTries + 2 * n + 1 /\ PlanWork \in Nat /\ RankWork(n) \in Nat
      /\ PathWork \in Nat /\ PathWork <= PlanWork
  BY WorkIsNat DEF RankWork
<1>1. pc = "rank" /\ att.chains \in 1 .. MaxChains /\ att.tries = 0 /\ Turn(n, att, pc) = RankWork(n)
  BY DEF Rank, Fits, Turn
<1>2. PICK s \in Orders :
         IF att.direct
         THEN /\ pc' = "paths"
              /\ att' = [att EXCEPT !.seed = IF s = <<>> THEN None ELSE s[1], !.plan = <<"direct_generation">>]
         ELSE /\ pc' = (IF s = <<>> THEN "route" ELSE "extract")
              /\ att' = [att EXCEPT !.ranked = s]
  BY DEF Rank, Goes
<1>3. s \in Seq(Seed) /\ Len(s) \in 0 .. n /\ (s # <<>> => Len(s) \in 1 .. n)
  BY OrdersAreShort
<1>4. CASE att.direct
  <2>1. Record' /\ att'.chains = att.chains /\ att'.plan = <<"direct_generation">> /\ pc' = "paths"
    BY <1>2, <1>4 DEF Record
  <2>2. <<"direct_generation">> \in Seq(PathNames) /\ Len(<<"direct_generation">>) = 1
    BY DEF PathNames
  <2>3. Fits(n, att', pc')
    BY <1>1, <2>1, <2>2 DEF Fits, Working
  <2>4. Turn(n, att', pc') = 1 * PathWork
    BY <2>1, <2>2 DEF Turn
  <2>5. Turn(n, att', pc') < Turn(n, att, pc)
    BY <1>0, <1>1, <2>4
  <2> QED
    BY <1>1, <2>1, <2>3, <2>5, WithinChain
<1>5. CASE ~att.direct /\ s = <<>>
  <2>1. Record' /\ att'.chains = att.chains /\ att'.tries = 0 /\ pc' = "route"
    BY <1>1, <1>2, <1>5 DEF Record
  <2>2. Fits(n, att', pc')
    BY <1>1, <2>1 DEF Fits, Working
  <2>3. Turn(n, att', pc') = PlanWork + (RouterTries - 0)
    BY <2>1 DEF Turn
  <2>4. Turn(n, att', pc') < Turn(n, att, pc)
    BY <1>0, <1>1, <2>3
  <2> QED
    BY <1>1, <2>1, <2>2, <2>4, WithinChain
<1>6. CASE ~att.direct /\ s # <<>>
  <2>1. Record' /\ att'.chains = att.chains /\ att'.tries = 0 /\ att'.ranked = s /\ pc' = "extract"
    BY <1>1, <1>2, <1>6 DEF Record
  <2>2. Fits(n, att', pc')
    BY <1>1, <1>3, <1>6, <2>1 DEF Fits, Working
  <2>3. Turn(n, att', pc') = PlanWork + RouterTries + 2 * Len(s)
    BY <2>1 DEF Turn
  <2>4. 2 * Len(s) \in Nat /\ 2 * Len(s) <= 2 * n /\ 2 * n \in Nat
    BY <1>3
  <2>5. Turn(n, att', pc') < Turn(n, att, pc)
    BY <1>0, <1>1, <2>3, <2>4
  <2> QED
    BY <1>1, <2>1, <2>2, <2>5, WithinChain
<1> QED
  BY <1>4, <1>5, <1>6

LEMMA SeedFalls ==
    ASSUME NEW n \in Nat, Record, Fits(n, att, pc), pc \in {"extract", "export"},
           NEW evidence, NEW ranges, NEW fields, NextSeed(evidence, ranges, fields)
    PROVE  Falls(n)
<1>0. PlanWork \in Nat
  BY WorkIsNat
<1>1. /\ att.chains \in 1 .. MaxChains /\ att.tries = 0
      /\ att.ranked \in Seq(Seed) /\ Len(att.ranked) \in 1 .. n
  BY DEF Fits
<1>2. Tail(att.ranked) \in Seq(Seed) /\ Len(Tail(att.ranked)) = Len(att.ranked) - 1
  BY <1>1
<1>3. PICK rest : /\ rest = (IF evidence # None THEN <<>> ELSE Tail(att.ranked))
                  /\ pc' = (IF rest = <<>> THEN "route" ELSE "extract")
                  /\ att' = [att EXCEPT !.ranked = rest, !.seed = Head(att.ranked), !.root = None,
                                        !.orig = IF evidence # None THEN att.root ELSE None,
                                        !.evidence = evidence, !.ranges = ranges, !.fields = fields]
  BY DEF NextSeed, Goes
<1>4. Record' /\ att'.chains = att.chains /\ att'.tries = 0 /\ att'.ranked = rest
  BY <1>1, <1>3 DEF Record
<1>5. PICK k \in 1 .. n : k = Len(att.ranked)
  BY <1>1
<1>6. \/ Turn(n, att, pc) = PlanWork + RouterTries + 2 * k
      \/ Turn(n, att, pc) = PlanWork + RouterTries + 2 * k - 1
  BY <1>5 DEF Turn
<1>7. CASE rest = <<>>
  <2>1. pc' = "route" /\ Fits(n, att', pc')
    BY <1>1, <1>3, <1>4, <1>7 DEF Fits, Working
  <2>2. Turn(n, att', pc') = PlanWork + (RouterTries - 0)
    BY <1>4, <2>1 DEF Turn
  <2>3. Turn(n, att', pc') < Turn(n, att, pc)
    BY <1>0, <1>6, <2>2
  <2> QED
    BY <1>4, <2>1, <2>3, WithinChain
<1>8. CASE rest # <<>>
  <2>1. rest = Tail(att.ranked) /\ pc' = "extract"
    BY <1>3, <1>8
  <2>2. rest \in Seq(Seed) /\ Len(rest) = k - 1 /\ Len(rest) \in 1 .. n
    <3>1. rest \in Seq(Seed) /\ Len(rest) = k - 1
      BY <1>2, <1>5, <2>1
    <3>2. Len(rest) # 0
      BY <1>8, <3>1
    <3> QED
      BY <3>1, <3>2
  <2>3. Fits(n, att', pc')
    BY <1>1, <1>4, <2>1, <2>2 DEF Fits, Working
  <2>4. Turn(n, att', pc') = PlanWork + RouterTries + 2 * Len(rest)
    BY <1>4, <2>1 DEF Turn
  <2>5. Turn(n, att', pc') = PlanWork + RouterTries + 2 * (k - 1)
    BY <2>2, <2>4
  <2>6. Turn(n, att', pc') < Turn(n, att, pc)
    BY <1>0, <1>6, <2>5
  <2> QED
    BY <1>4, <2>1, <2>3, <2>6, WithinChain
<1> QED
  BY <1>7, <1>8

LEMMA ExtractionFalls ==
    ASSUME NEW n \in Nat, Record, Fits(n, att, pc), ExtractionSkipped \/ Extract \/ Hangs \/ Uncaught \/ Export
    PROVE  Falls(n)
<1>1. CASE ExtractionSkipped
  BY <1>1, SeedFalls DEF ExtractionSkipped
<1>2. CASE Extract
  <2>1. CASE ExtractionFails
    BY <1>2, <2>1, SeedFalls DEF Extract, ExtractionFails
  <2>2. ASSUME NEW root, pc' = "export", att' = [att EXCEPT !.root = root] PROVE Falls(n)
    <3>0. /\ Record' /\ att'.chains = att.chains /\ att'.tries = att.tries /\ att'.ranked = att.ranked
      BY <2>2 DEF Record
    <3>1. pc = "extract" /\ Fits(n, att', pc') /\ Record' /\ Len(att.ranked) \in Nat
      BY <1>2, <2>2, <3>0 DEF Extract, Fits, Working
    <3>2. PICK k \in Nat : k = Len(att.ranked)
      BY <3>1
    <3>3. /\ Turn(n, att, pc) = PlanWork + RouterTries + 2 * k
          /\ Turn(n, att', pc') = PlanWork + RouterTries + 2 * k - 1
      BY <2>2, <3>0, <3>1, <3>2 DEF Turn
    <3>5. PlanWork \in Nat
      BY WorkIsNat
    <3>4. Turn(n, att', pc') < Turn(n, att, pc)
      BY <3>3, <3>5
    <3> QED
      BY <2>2, <3>0, <3>1, <3>4, WithinChain
  <2> QED
    BY <1>2, <2>1, <2>2 DEF Extract, Goes
<1>3. CASE Hangs \/ Uncaught
  BY <1>3 DEF Hangs, Uncaught, Raises, Goes, Record, NoAttempt, Falls
<1>4. CASE Export
  <2>1. pc = "export"
    BY <1>4 DEF Export
  <2>2. \E evidence, ranges, fields : NextSeed(evidence, ranges, fields)
    BY <1>4 DEF Export, ExtractionFails
  <2> QED
    BY <2>1, <2>2, SeedFalls
<1> QED
  BY <1>1, <1>2, <1>3, <1>4

(* The plans the router can select, or takes for want of a reply.          *)
LEMMA PlansAreShort ==
    ASSUME NEW structured \in BOOLEAN
    PROVE  /\ Paths(structured) \in Seq(PathNames) /\ Len(Paths(structured)) <= MaxPlan + 7
           /\ \A p \in Selections(structured) : p \in Seq(PathNames) /\ Len(p) <= MaxPlan + 7
<1>1. Paths(structured) \in Seq(PathNames) /\ Len(Paths(structured)) \in {5, 7}
  <2>1. CASE structured
    BY <2>1 DEF Paths, PathNames
  <2>2. CASE ~structured
    BY <2>2 DEF Paths, PathNames
  <2> QED
    BY <2>1, <2>2
<1>2. ToSet(Paths(structured)) \subseteq PathNames
  BY <1>1 DEF ToSet
<1>3. ASSUME NEW p \in Selections(structured) PROVE p \in Seq(PathNames) /\ Len(p) <= MaxPlan + 7
  <2>1. PICK m \in 0 .. MaxPlan : p \in [1 .. m -> ToSet(Paths(structured))]
    BY DEF Selections, SeqOf
  <2>2. p \in [1 .. m -> PathNames]
    BY <1>2, <2>1
  <2>3. p \in Seq(PathNames) /\ Len(p) = m
    BY <2>2
  <2> QED
    BY <2>1, <2>3
<1>4. Len(Paths(structured)) <= MaxPlan + 7
  <2>1. MaxPlan + 7 \in Nat /\ 5 <= MaxPlan + 7 /\ 7 <= MaxPlan + 7
    OBVIOUS
  <2> QED
    BY <1>1, <2>1
<1> HIDE DEF PathNames
<1> QED
  BY <1>1, <1>3, <1>4

LEMMA RouteFalls ==
    ASSUME NEW n \in Nat, Record, Fits(n, att, pc), Route
    PROVE  Falls(n)
<1>0. PlanWork \in Nat
  BY WorkIsNat
<1>1. /\ pc = "route" /\ att.chains \in 1 .. MaxChains /\ att.tries \in 0 .. RouterTries - 1
      /\ Turn(n, att, pc) = PlanWork + (RouterTries - att.tries)
  BY DEF Route, Fits, Turn
<1>2. CASE Returns
  BY <1>2 DEF Returns, Goes, Record, NoAttempt, Falls
<1>3. ASSUME NEW p \in Seq(PathNames), Len(p) <= MaxPlan + 7, NEW text, pc' = "paths",
             att' = [att EXCEPT !.plan = p, !.text = text, !.tries = 0]
      PROVE  Falls(n)
  <2>1. Record' /\ att'.chains = att.chains /\ att'.plan = p
    BY <1>3 DEF Record
  <2>2. Fits(n, att', pc')
    BY <1>1, <1>3, <2>1 DEF Fits, Working
  <2> DEFINE all == Len(p) * PathWork
  <2>3. Turn(n, att', pc') = all
    BY <1>3, <2>1 DEF Turn
  <2>4. all \in Nat /\ all <= PlanWork
    BY <1>3, PlanIsBounded
  <2> HIDE DEF all
  <2>5. Turn(n, att', pc') < Turn(n, att, pc)
    BY <1>0, <1>1, <2>3, <2>4
  <2> QED
    BY <1>1, <1>3, <2>1, <2>2, <2>5, WithinChain
<1>4. CASE pc' = "route" /\ att' = [att EXCEPT !.tries = @ + 1] /\ att.tries + 1 < RouterTries
  <2>1. Record' /\ att'.chains = att.chains /\ att'.tries = att.tries + 1 /\ att'.tries \in 0 .. RouterTries - 1
    BY <1>1, <1>4 DEF Record
  <2>2. Fits(n, att', pc')
    BY <1>1, <1>4, <2>1 DEF Fits, Working
  <2>3. Turn(n, att', pc') = PlanWork + (RouterTries - att'.tries)
    BY <1>4 DEF Turn
  <2>4. Turn(n, att', pc') < Turn(n, att, pc)
    BY <1>0, <1>1, <2>1, <2>3
  <2> QED
    BY <1>1, <1>4, <2>1, <2>2, <2>4, WithinChain
<1>5. PICK structured \in BOOLEAN, text \in BOOLEAN :
         \/ \E p \in Selections(structured) :
              IF p = <<>> THEN Returns
              ELSE Goes("paths") /\ att' = [att EXCEPT !.plan = p, !.text = text, !.tries = 0]
         \/ IF att.tries + 1 < RouterTries
            THEN Goes("route") /\ att' = [att EXCEPT !.tries = @ + 1]
            ELSE Goes("paths") /\ att' = [att EXCEPT !.plan = Paths(structured), !.text = text,
                                                     !.tries = 0]
  BY DEF Route
<1>6. /\ Paths(structured) \in Seq(PathNames) /\ Len(Paths(structured)) <= MaxPlan + 7
      /\ \A p \in Selections(structured) : p \in Seq(PathNames) /\ Len(p) <= MaxPlan + 7
  BY PlansAreShort
<1> QED
  BY <1>2, <1>3, <1>4, <1>5, <1>6 DEF Goes

(* A path ends: the next one, the next chain, or the attempt is over.      *)
LEMMA PathEndFalls ==
    ASSUME NEW n \in Nat, Record, Fits(n, att, pc), pc \in {"paths", "test"}, Len(att.plan) >= 1,
           NEW produced, PathEnds(produced)
    PROVE  Falls(n)
<1>0. PathWork \in Nat \ {0}
  BY DEF PathWork
<1>1. att.chains \in 1 .. MaxChains /\ att.plan \in Seq(PathNames) /\ Len(att.plan) <= MaxPlan + 7
  BY DEF Fits
<1>2. CASE Returns \/ (Returns /\ UNCHANGED stores) \/ Fails
  BY <1>2 DEF Fails, Returns, Goes, Record, NoAttempt, Falls
<1>3. CASE pc' = "paths" /\ att' = [att EXCEPT !.plan = Tail(@), !.left = 0]
  <2>1. Record' /\ att'.chains = att.chains /\ att'.plan = Tail(att.plan)
    BY <1>3 DEF Record
  <2>2. Tail(att.plan) \in Seq(PathNames) /\ Len(Tail(att.plan)) = Len(att.plan) - 1 /\ Len(att.plan) \in Nat
    BY <1>1
  <2>3. Fits(n, att', pc')
    BY <1>1, <1>3, <2>1, <2>2 DEF Fits, Working
  <2> DEFINE all == Len(att.plan) * PathWork
             others == (Len(att.plan) - 1) * PathWork
  <2>4. Turn(n, att', pc') = others
    BY <1>3, <2>1, <2>2 DEF Turn
  <2>5. Turn(n, att, pc) = all \/ (Turn(n, att, pc) = others + att.left /\ att.left \in 1 .. MaxTests)
    BY DEF Turn, Fits
  <2>6. all \in Nat /\ others \in Nat /\ others = all - PathWork
    BY <1>1, PlanIsBounded
  <2> HIDE DEF all, others
  <2>7. Turn(n, att', pc') < Turn(n, att, pc)
    BY <1>0, <2>4, <2>5, <2>6
  <2> QED
    BY <1>3, <2>1, <2>3, <2>7, WithinChain
<1>4. CASE /\ pc' = "slice" /\ att.chains > 1
           /\ att' = [NoAttempt EXCEPT !.key = att.key, !.direct = TRUE, !.chains = att.chains - 1]
  <2>1. Record' /\ att'.chains = att.chains - 1 /\ att.chains - 1 \in 1 .. MaxChains
    BY <1>1, <1>4 DEF Record, NoAttempt
  <2>2. Fits(n, att', pc')
    BY <1>4, <2>1 DEF Fits, Working
  <2>3. Work(n, att', pc') < Work(n, att, pc)
    BY <1>4, <2>1, <2>2, ChainGoesOn
  <2> QED
    BY <2>1, <2>2, <2>3 DEF Falls
<1> QED
  BY <1>2, <1>3, <1>4 DEF PathEnds, Goes

LEMMA PathsFall ==
    ASSUME NEW n \in Nat, Record, Fits(n, att, pc),
           \/ AllPathsDone \/ PathGivesUp \/ PathProposes
           \/ \E looks \in BOOLEAN, outcome \in Outcome : PathTests(looks, outcome)
    PROVE  Falls(n)
<1>1. CASE AllPathsDone
  BY <1>1 DEF AllPathsDone, Returns, Goes, Record, NoAttempt, Falls
<1>2. /\ pc \in {"paths", "test"} /\ att.chains \in 1 .. MaxChains
      /\ att.plan \in Seq(PathNames) /\ Len(att.plan) <= MaxPlan + 7
  BY DEF AllPathsDone, PathGivesUp, PathProposes, PathTests, Fits
<1>3. att.plan # <<>> => Len(att.plan) >= 1
  BY <1>2
<1> DEFINE all == Len(att.plan) * PathWork
           others == (Len(att.plan) - 1) * PathWork
<1>4. all \in Nat /\ others = all - PathWork /\ PathWork = MaxTests + 1 /\ (att.plan # <<>> => others \in Nat)
  BY <1>2, <1>3, PlanIsBounded DEF PathWork
<1>5. \A a : a.plan = att.plan => Turn(n, a, "paths") = all /\ Turn(n, a, "test") = others + a.left
  BY DEF Turn
<1> HIDE DEF all, others
<1>6. CASE PathGivesUp
  BY <1>3, <1>6, PathEndFalls DEF PathGivesUp
<1>7. CASE PathProposes
  <2>1. PICK k \in 1 .. MaxTests : pc = "paths" /\ att.plan # <<>> /\ pc' = "test" /\ att' = [att EXCEPT !.left = k]
    BY <1>7 DEF PathProposes, Goes
  <2>2. Record' /\ att'.chains = att.chains /\ att'.plan = att.plan /\ att'.left = k
    BY <2>1 DEF Record
  <2>3. Fits(n, att', pc')
    BY <1>2, <1>3, <2>1, <2>2 DEF Fits, Working
  <2>4. Turn(n, att', pc') = others + k /\ Turn(n, att, pc) = all
    BY <1>5, <2>1, <2>2
  <2>5. Turn(n, att', pc') < Turn(n, att, pc)
    BY <1>4, <2>1, <2>4
  <2> QED
    BY <2>1, <2>2, <2>3, <2>5, WithinChain
<1>8. ASSUME NEW looks \in BOOLEAN, NEW outcome \in Outcome, PathTests(looks, outcome) PROVE Falls(n)
  <2>1. pc = "test" /\ Len(att.plan) >= 1 /\ att.plan # <<>> /\ att.left \in 1 .. MaxTests
    BY <1>2, <1>8 DEF PathTests, Fits
  <2>2. \/ PathEnds(FALSE) \/ PathEnds(Produced(outcome))
        \/ pc' = "test" /\ att' = [att EXCEPT !.left = @ - 1] /\ att.left # 1
    BY <1>8 DEF PathTests, LastOne, Goes
  <2>3. CASE pc' = "test" /\ att' = [att EXCEPT !.left = @ - 1] /\ att.left # 1
    <3>1. Record' /\ att'.chains = att.chains /\ att'.plan = att.plan
          /\ att'.left = att.left - 1 /\ att'.left \in 1 .. MaxTests
      BY <2>1, <2>3 DEF Record
    <3>2. Fits(n, att', pc')
      BY <1>2, <2>1, <2>3, <3>1 DEF Fits, Working
    <3>3. Turn(n, att', pc') = others + att'.left /\ Turn(n, att, pc) = others + att.left
      BY <1>5, <2>1, <2>3, <3>1
    <3>4. Turn(n, att', pc') < Turn(n, att, pc)
      BY <1>4, <2>1, <3>1, <3>3
    <3> QED
      BY <2>1, <2>3, <3>1, <3>2, <3>4, WithinChain
  <2>4. CASE PathEnds(FALSE) \/ PathEnds(Produced(outcome))
    BY <2>1, <2>4, PathEndFalls
  <2> QED
    BY <2>2, <2>3, <2>4
<1> QED
  BY <1>1, <1>6, <1>7, <1>8

LEMMA HandlerFalls ==
    ASSUME NEW n \in Nat, n = Cardinality(scope.seeds), scope.seeds \subseteq Seed,
           Record, Fits(n, att, pc), Handler
    PROVE  Falls(n)
  BY StartFalls, ConstraintsFall, RankFalls, ExtractionFalls, RouteFalls, PathsFall DEF Handler

----------------------------------------------------------------------------
(* What is left of a session once it winds down, the attempt included.     *)
Seeds == Cardinality(scope.seeds)
Ahead(n, a, p) ==
    IF p \in Working THEN 6 + Work(n, a, p)
    ELSE IF p \in {"head", "hung"} THEN 5 ELSE IF p = "ending" THEN 4 ELSE IF p = "closing" THEN 3
    ELSE IF p = "dumping" THEN 2 ELSE IF p = "saved" THEN 1 ELSE 0

SeedsAreFinite == \A s \in Scopes : IsFiniteSet(s.seeds)

(* The handler of FuzzerRunner stands from its constructor on, and has     *)
(* ended the loop when it has set its flag.                                *)
RunningInv ==
    /\ scope \in Scopes /\ Record
    /\ pc \in Boot \cup {"head", "hung"} \cup Working \cup Closing \cup Over
    /\ IF pc \in Working THEN Fits(Seeds, att, pc) ELSE att = NoAttempt
    /\ terminating => pc \in Closing \cup Over
    /\ pc \notin {"import", "store", "runner"} \cup Over => handlers = "runner"

OnlyDies == alive /\ ~alive' /\ UNCHANGED <<pc, att>>

(* An attempt is within its budget and each of its steps uses some of it.  *)
AttemptStep ==
    pc \in Working => pc' \notin Working \/ Work(Seeds, att, pc)' < Work(Seeds, att, pc) \/ OnlyDies
AttemptsRunDown ==
    [](pc \in Working => Work(Seeds, att, pc) \in 0 .. MaxChains * ChainWork(Seeds) + 1) /\ [][AttemptStep]_vars

(* After the signal, or the death of the fuzzer, the same holds up to the  *)
(* end of the process.                                                     *)
WindsDown == terminating \/ (~alive /\ pc \notin Boot)
EndIsNear ==
    [][WindsDown /\ pc \notin Over =>
         Ahead(Seeds, att, pc)' < Ahead(Seeds, att, pc) \/ OnlyDies]_vars

LEMMA RunningStep ==
    ASSUME SeedsAreFinite, RunningInv, [Next]_vars
    PROVE  /\ RunningInv' /\ scope' = scope
           /\ \/ Handler /\ Falls(Seeds)
              \/ UNCHANGED vars \/ OnlyDies
              \/ pc \notin Working /\ Main
              \/ pc' \in {"exited", "closing", "ending"} /\ Stopped
              \/ pc \in {"import", "store", "runner", "exited"}
<1>0. /\ scope' = scope /\ scope.seeds \subseteq Seed /\ scope.keys \subseteq Key
      /\ Seeds \in Nat /\ Seeds = Cardinality(scope.seeds) /\ Seeds' = Seeds
  <2>1. scope' = scope /\ scope \in Scopes
    BY DEF Next, vars, RunningInv
  <2>2. IsFiniteSet(scope.seeds)
    BY <2>1 DEF SeedsAreFinite
  <2>3. Cardinality(scope.seeds) \in Nat
    BY <2>2, FS_CardinalityType
  <2> QED
    BY <2>1, <2>3 DEF Seeds
<1>1. CASE Handler
  <2>1. UNCHANGED session /\ pc \in Working /\ pc' \in After
    BY <1>1, HandlerStays
  <2>2. Falls(Seeds)
    BY <1>0, <1>1, <2>1, HandlerFalls DEF RunningInv
  <2>3. Record' /\ IF pc' \in Working THEN Fits(Seeds', att', pc') ELSE att' = NoAttempt
    BY <1>0, <2>2 DEF Falls, Fits, Working
  <2>4. terminating' = FALSE /\ handlers' = "runner"
    BY <2>1 DEF RunningInv, session, Working, Closing, Over
  <2> QED
    BY <1>0, <1>1, <2>1, <2>2, <2>3, <2>4 DEF RunningInv, After, Closing, Over
<1>2. CASE SessionStep /\ Framed
  BY <1>0, <1>2 DEF Framed, SessionStep, Import, CreateRunner, LoadFuzzerPid, CreateTracer, StopMonitor,
                     OpenStatic, DumpStatic, Exit, session, RunningInv, Boot, Working, Closing, Over, Record, Main
<1>3. CASE InitAttemptedRoadblockStore \/ Idle
  BY <1>0, <1>3 DEF InitAttemptedRoadblockStore, Idle, MainHead, Framed, Goes, session, RunningInv, Boot, Working,
                     Closing, Over, Record, Main
<1>4. ASSUME NEW k \in scope.keys, NEW direct \in scope.direct, Pick(k, direct)
      PROVE  RunningInv' /\ pc \notin Working /\ Main
  <2>1. /\ pc = "head" /\ UNCHANGED session /\ pc' \in {"begin", "ending"}
        /\ att' = IF pc' = "begin" THEN [NoAttempt EXCEPT !.key = k, !.direct = direct] ELSE att
    BY <1>4 DEF Pick, MainHead
  <2>2. Record' /\ IF pc' \in Working THEN Fits(Seeds', att', pc') ELSE att' = NoAttempt
    BY <2>1 DEF Record, NoAttempt, Fits, Working, RunningInv
  <2> QED
    BY <1>0, <1>4, <2>1, <2>2 DEF RunningInv, session, Boot, Working, Closing, Over, Main
<1>5. CASE Stopped
  <2>1. att' = IF pc' \in Working THEN att ELSE NoAttempt
    BY <1>5 DEF Stopped
  <2>2. /\ pc' = pc \/ pc' \in {"exited", "closing", "ending"}
        /\ pc' \notin {"exited", pc} => handlers = "runner"
        /\ handlers' = handlers /\ pc \notin Over
        /\ terminating' => terminating \/ pc' \in {"exited", "closing", "ending"}
    BY <1>5 DEF Stopped, Signal, SignalHandler, RunnerHandler, DefaultHandler, Kill, Interrupted, Unwound, Boot
  <2>3. CASE pc' = pc
    <3>1. att' = att
      BY <2>1, <2>3 DEF RunningInv
    <3>2. pc \in {"import", "store", "runner"}
      BY <1>5, <2>2, <2>3 DEF RunningInv, Stopped, Signal, SignalHandler, RunnerHandler, DefaultHandler, Kill,
                              Interrupted, Unwound, Boot, Working, Closing, Over
    <3> QED
      BY <1>0, <2>2, <2>3, <3>1, <3>2 DEF RunningInv, Record, Closing, Over
  <2>4. CASE pc' # pc
    <3>1. pc' \in {"exited", "closing", "ending"} /\ att' = NoAttempt
      BY <2>1, <2>2, <2>4 DEF Working
    <3>2. terminating' => pc' \in Closing \cup Over
      BY <3>1 DEF Closing, Over
    <3> QED
      BY <1>0, <1>5, <2>2, <2>4, <3>1, <3>2 DEF RunningInv, Record, NoAttempt, Working, Closing, Over
  <2> QED
    BY <2>3, <2>4
<1>6. CASE Dies /\ Framed
  BY <1>0, <1>6 DEF Dies, Framed, RunningInv, Record, OnlyDies
<1>7. CASE NewSession
  BY <1>0, <1>7 DEF NewSession, Restart, RunningInv, Boot, Working, Closing, Over, Record
<1>8. CASE UNCHANGED vars
  BY <1>0, <1>8 DEF vars, session, RunningInv, Record
<1> QED
  BY <1>0, <1>1, <1>2, <1>3, <1>4, <1>5, <1>6, <1>7, <1>8 DEF Next, Main

LEMMA FallsAhead ==
    ASSUME SeedsAreFinite, RunningInv, [Next]_vars
    PROVE  /\ pc \in Working =>
                \/ pc' \notin Working \/ Work(Seeds, att, pc)' < Work(Seeds, att, pc)
                \/ OnlyDies \/ UNCHANGED vars
           /\ WindsDown /\ pc \notin Over =>
                Ahead(Seeds, att, pc)' < Ahead(Seeds, att, pc) \/ OnlyDies \/ UNCHANGED vars
<1>0. /\ RunningInv' /\ Seeds' = Seeds /\ Seeds \in Nat
      /\ Work(Seeds, att, pc)' = Work(Seeds, att', pc') /\ Ahead(Seeds, att, pc)' = Ahead(Seeds, att', pc')
  <2>1. RunningInv' /\ scope' = scope
    BY RunningStep
  <2>2. Seeds \in Nat
    BY FS_CardinalityType DEF SeedsAreFinite, RunningInv, Seeds
  <2> QED
    BY <2>1, <2>2 DEF Seeds, Work, Turn, Ahead
<1>1. /\ pc \in Working => Work(Seeds, att, pc) \in Nat
      /\ pc' \in Working => Work(Seeds, att', pc') \in Nat
  <2>1. MaxChains * ChainWork(Seeds) \in Nat
    BY <1>0, WorkIsNat
  <2>2. 0 .. MaxChains * ChainWork(Seeds) + 1 \subseteq Nat
    BY <2>1
  <2> QED
    BY <1>0, <2>2, WorkIsBounded DEF RunningInv
<1>2. CASE Handler /\ Falls(Seeds)
  <2>1. pc \in Working
    BY <1>2, HandlerStays
  <2>2. CASE pc' \in {"head", "hung", "ending"}
    BY <1>0, <1>1, <2>1, <2>2 DEF Ahead, Working
  <2>3. CASE pc' \in Working /\ Work(Seeds, att', pc') < Work(Seeds, att, pc)
    BY <1>0, <1>1, <2>1, <2>3 DEF Ahead
  <2> QED
    BY <1>2, <2>2, <2>3 DEF Falls, Fits
<1>3. CASE pc \notin Working /\ Main
  <2> SUFFICES ASSUME WindsDown, pc \notin Over
               PROVE  Ahead(Seeds, att', pc') < Ahead(Seeds, att, pc)
      BY <1>0, <1>3
  <2>1. pc \in {"head", "hung"} \cup Closing /\ (pc = "head" => ~alive)
    BY <1>3 DEF RunningInv, WindsDown, Closing, Over, Boot
  <2>2. <<pc, pc'>> \in {<<"head", "ending">>, <<"ending", "closing">>, <<"closing", "dumping">>,
                         <<"dumping", "saved">>, <<"saved", "exited">>}
    <3>1. ~Handler
      BY <1>3, HandlerStays
    <3> QED
      BY <1>3, <2>1, <3>1 DEF Main, SessionStep, Import, CreateRunner, LoadFuzzerPid, CreateTracer, StopMonitor,
           OpenStatic, DumpStatic, Exit, InitAttemptedRoadblockStore, Idle, Pick, MainHead, CheckFuzzerAlive,
           CheckAlive, Closing
  <2> QED
    BY <2>2 DEF Ahead, Working
<1>4. CASE pc' \in {"exited", "closing", "ending"} /\ Stopped
  <2>1. pc' \notin Working
    BY <1>4 DEF Working
  <2>7. CASE pc' = pc
    <3>1. pc \in Closing \cup Over
      BY <1>4, <2>7 DEF Closing, Over
    <3>2. pc \notin Over => handlers = "runner"
      BY <3>1 DEF RunningInv, Closing
    <3> QED
      BY <1>4, <2>7, <3>1, <3>2 DEF Stopped, Signal, SignalHandler, RunnerHandler, DefaultHandler, Kill,
                                    Interrupted, Unwound, Boot, Working, Closing, Over
  <2> SUFFICES ASSUME WindsDown, pc \notin Over, pc' # pc
               PROVE  Ahead(Seeds, att', pc') < Ahead(Seeds, att, pc)
      BY <1>0, <2>1, <2>7
  <2>3. pc \in {"head", "hung"} \cup Working \cup Closing /\ handlers = "runner"
    BY DEF WindsDown, RunningInv, Boot, Over, Closing, Working
  <2>4. pc' = "exited" \/ pc' = Unwound
    BY <1>4, <2>3 DEF Stopped, Signal, SignalHandler, RunnerHandler, DefaultHandler, Kill, Interrupted
  <2>5. \/ pc \in {"head", "hung"} \cup Working /\ pc' \in {"exited", "ending"}
        \/ pc = "ending" /\ pc' \in {"exited", "closing"}
        \/ pc \in {"closing", "dumping", "saved"} /\ pc' = "exited"
    BY <2>3, <2>4 DEF Unwound, Boot, Working, Closing
  <2>6. Ahead(Seeds, att, pc) \in Nat /\ (pc \in Working => Ahead(Seeds, att, pc) > 5)
    BY <1>1 DEF Ahead
  <2> QED
    BY <2>5, <2>6 DEF Ahead, Working
<1>5. CASE pc \in {"import", "store", "runner", "exited"}
  BY <1>5 DEF RunningInv, WindsDown, Boot, Closing, Over, Working
<1> QED
  BY <1>2, <1>3, <1>4, <1>5, RunningStep

LEMMA InitRunning == Init => RunningInv
  BY DEF Init, SessionInit, RunningInv, Record, NoAttempt, Boot, Working, Over

(* AttemptsRunDown: whatever the slicer, the extractor, the model and the  *)
(* paths return, each step of an attempt uses some of what is left of it   *)
(* or leaves it (it returns, raises, or hangs in a program without a       *)
(* timeout); only the death of the fuzzer takes place beside it.           *)
THEOREM AttemptsEnd == ASSUME SeedsAreFinite PROVE Spec => AttemptsRunDown
<1>1. RunningInv => (pc \in Working => Work(Seeds, att, pc) \in 0 .. MaxChains * ChainWork(Seeds) + 1)
  BY FS_CardinalityType, WorkIsBounded DEF SeedsAreFinite, RunningInv, Seeds
<1>2. RunningInv /\ [Next]_vars => RunningInv'
  BY RunningStep
<1>3. RunningInv /\ [Next]_vars => [AttemptStep]_vars
  BY FallsAhead DEF AttemptStep
<1> QED
  BY InitRunning, <1>1, <1>2, <1>3, PTL DEF Spec, AttemptsRunDown

(* EndIsNear: after the signal, or the death of the fuzzer, each step of   *)
(* the process, in an attempt or on its way out, brings it nearer its end, *)
(* or to where it hangs, which only a signal or a kill leads out of.       *)
THEOREM SessionsWindDown == ASSUME SeedsAreFinite PROVE Spec => EndIsNear
<1>1. RunningInv /\ [Next]_vars => RunningInv'
  BY RunningStep
<1>2. RunningInv /\ [Next]_vars =>
        [WindsDown /\ pc \notin Over =>
            Ahead(Seeds, att, pc)' < Ahead(Seeds, att, pc) \/ OnlyDies]_vars
  BY FallsAhead
<1> QED
  BY InitRunning, <1>1, <1>2, PTL DEF Spec, EndIsNear

----------------------------------------------------------------------------
(* Types.                                                                  *)
Stores ==
    /\ isi \in [Dir -> Dir \cup {None}]
    /\ attempted \subseteq Key /\ filed \subseteq Key /\ passed \subseteq Key /\ worked \subseteq Key

LEMMA StoresTyped == Stores /\ EvidenceInv /\ [Next]_vars => Stores'
<1> SUFFICES ASSUME Stores, EvidenceInv, [Next]_vars PROVE Stores'
    OBVIOUS
<1> USE DEF Stores, stores, extraction
<1>1. ASSUME pc \in Working PROVE att.key \in Key
  BY <1>1 DEF EvidenceInv
<1>2. CASE Begin \/ ConstraintsUsable \/ Rank \/ ExtractionSkipped \/ Hangs \/ Uncaught \/ Route
           \/ AllPathsDone \/ PathProposes
  BY <1>2 DEF Begin, ConstraintsUsable, Rank, ExtractionSkipped, Hangs, Uncaught, Route, AllPathsDone, PathProposes
<1>3. CASE Lookup \/ Slice \/ ConstraintsRetried
  <2>1. att.key \in Key
    BY <1>1, <1>3 DEF Lookup, Slice, ConstraintsRetried, Working
  <2> QED
    BY <1>3, <2>1 DEF Lookup, Slice, ConstraintsRetried, MarkRoadblockAttempted, Fails
<1>4. CASE Extract \/ Export
  <2>1. att.key \in Key /\ Head(att.ranked) \in Seed
    <3>1. pc \in {"extract", "export"}
      BY <1>4 DEF Extract, Export
    <3>2. att.ranked \in Seq(Seed) /\ att.ranked # <<>>
      BY <3>1 DEF EvidenceInv
    <3> QED
      BY <1>1, <3>1, <3>2 DEF Working
  <2>2. Here \in Dir /\ \A root \in Origins[Head(att.ranked)] : <<root, att.key>> \in Dir
    BY <2>1 DEF Here, ArtifactDir, Dir
  <2>3. isi' = isi \/ \E d \in Dir : isi' = [isi EXCEPT ![Here] = d]
    BY <1>4, <2>2 DEF Extract, Export
  <2>4. UNCHANGED <<attempted, filed, passed, worked>>
    BY <1>4 DEF Extract, Export, ExtractionFails
  <2> QED
    BY <2>2, <2>3, <2>4
<1>5. ASSUME pc \in Working, NEW produced, PathEnds(produced), UNCHANGED <<extraction, worked>> PROVE Stores'
  BY <1>1, <1>5 DEF PathEnds, Fails
<1>6. CASE PathGivesUp
  BY <1>5, <1>6 DEF PathGivesUp, Working
<1>7. ASSUME NEW looks \in BOOLEAN, NEW outcome \in Outcome, PathTests(looks, outcome) PROVE Stores'
  <2>1. pc \in Working /\ worked' \subseteq Key /\ isi' = isi
    BY <1>1, <1>7 DEF PathTests, Working
  <2>2. UNCHANGED stores \/ \E produced : PathEnds(produced)
    BY <1>7 DEF PathTests
  <2>3. attempted' = attempted /\ filed' = filed /\ passed' \subseteq Key
    BY <1>1, <2>1, <2>2 DEF PathEnds, Fails
  <2> QED
    BY <2>1, <2>3
<1>8. CASE InitAttemptedRoadblockStore
  BY <1>8 DEF InitAttemptedRoadblockStore, Loaded
<1>9. CASE Idle \/ (SessionStep /\ Framed) \/ (Dies /\ Framed) \/ Stopped \/ NewSession
  BY <1>9 DEF Idle, Framed, Stopped, NewSession
<1>10. ASSUME NEW k \in scope.keys, NEW direct \in scope.direct, Pick(k, direct) PROVE Stores'
  BY <1>10 DEF Pick
<1>11. CASE UNCHANGED vars
  BY <1>11 DEF vars
<1> QED
  BY <1>2, <1>3, <1>4, <1>6, <1>7, <1>8, <1>9, <1>10, <1>11 DEF Next, Main, Handler

(* TypeOK: where the thread is, the counters, what the files are about and *)
(* the stores of this and of earlier sessions keep their types.            *)
THEOREM TypeCorrect == ASSUME SeedsAreFinite PROVE Spec => []TypeOK
<1> DEFINE Typed == Stores /\ EvidenceInv /\ RunningInv /\ CounterInv
<1>1. Init => Typed
  BY InitRunning DEF Init, SessionInit, EvidenceInv, Record, NoAttempt, Working, Stores, CounterInv,
                     Filed, Dir
<1>2. Typed /\ [Next]_vars => Typed'
  BY StoresTyped, NextEvident, RunningStep, NextCounted
<1>3. Typed => TypeOK
  BY DEF TypeOK, Stores, EvidenceInv, RunningInv, CounterInv, Filed, Dir
<1> QED
  BY <1>1, <1>2, <1>3, PTL DEF Spec
=============================================================================
