---------------------------- MODULE FrontierProofs ----------------------------
(***************************************************************************)
(* Calls of the Frontier, proved for any calls, sessions, profiles, limits *)
(* and thread maps an earlier run has left: threads of the App Server stay *)
(* apart, and money is spent once and last.                                *)
(***************************************************************************)
EXTENDS Frontier, SequenceTheorems, FiniteSetTheorems, TLAPS

(***************************************************************************)
(* Types, and the two kinds of steps of a call.                            *)
(***************************************************************************)
Whys == {"identity", "busy", "protocol", "spawn", "silent"}
Serving == {"compacting", "asked", "running"}
Holding == Serving \cup {"opening", "exec"}

CallType ==
    [at : Holding \cup {"new", "paying", "next", "over"}, kind : Kind,
     profile : 1..Len(Profiles), attempt : Nat, thread : ThreadIds \cup {0},
     known : BOOLEAN, accepted : BOOLEAN, compacted : BOOLEAN,
     final : Whys, fate : Seq(Whys), entered : BOOLEAN, posts : 0..(Retries + 1)]

\* A call that may pay although Codex was asked: all profiles failed so that another
\* identity might heal it, or one fell silent.
Warranted(fate) ==
    fate # <<>> => \/ Len(fate) = Len(Profiles) /\ ToSet(fate) \subseteq Failover
                   \/ Last(fate) = "silent"

\* A call that is on its way has tried the profiles before its own, and one uses a thread
\* exactly while the App Server serves it; one that sends billable requests has its id
\* taken and may pay.
Sound(k) ==
    /\ k \in CallType
    /\ k.at # "over" => k.fate \in Seq(Failover) /\ Len(k.fate) = k.profile - 1
    /\ k.at \in {"new", "paying"} => k.fate = <<>>
    /\ k.at = "paying" => k.entered /\ k.posts <= Retries
    /\ k.at \notin {"paying", "over"} => ~k.entered
    /\ k.posts > 0 => k.entered /\ Warranted(k.fate)
    /\ k.thread # 0 <=> k.at \in Serving

Typed ==
    /\ call \in [Calls -> CallType] /\ \A c \in Calls : Sound(call[c])
    /\ locked \in [ToSet(Profiles) -> Calls \cup {Free, Cli}]

\* A step after which c holds no profile: it takes its id, if nobody is known to have it,
\* or is as it was.
Leaves(c) ==
    \E k \in CallType :
      /\ call' = [call EXCEPT ![c] = k] /\ Sound(k) /\ k.at \notin Holding
      /\ \/ UNCHANGED paid /\ k.entered = call[c].entered
         \/ Correlation[c] \notin paid /\ Enter(Correlation[c]) /\ k.entered

\* A step after which c holds the profile that it is at.
Keeps(c) ==
    /\ \E k \in CallType :
         /\ call' = [call EXCEPT ![c] = k] /\ Sound(k) /\ k.at \in Holding
         /\ k.profile = call[c].profile /\ k.entered = call[c].entered
    /\ UNCHANGED paid

\* A profile the call is at.
LEMMA ProfileIsOne == ASSUME Typed, NEW c \in Calls PROVE Profile(c) \in ToSet(Profiles)
BY FrontierAssumption DEF Typed, CallType, Profile, ToSet

\* A call that has not begun is sound.
LEMMA NoCallIsSound == Sound(NoCall) /\ NoCall \in CallType
<1>1. Len(Profiles) >= 1 /\ Len(Profiles) \in Nat
  BY FrontierAssumption
<1>2. <<>> \in Seq(Whys) /\ <<>> \in Seq(Failover) /\ Len(<<>>) = 0
  OBVIOUS
<1>3. Retries \in Nat
  BY FrontierAssumption
<1> QED BY <1>1, <1>2, <1>3 DEF NoCall, Sound, CallType, Kind, Whys, Serving, Holding

\* A call on its way has no id taken.
LEMMA OnItsWay ==
    ASSUME NEW k, Sound(k), k.at \notin {"paying", "over"}
    PROVE  k.entered = FALSE /\ k.posts = 0
<1>1. k.entered \in BOOLEAN /\ k.posts \in 0..(Retries + 1) /\ Retries \in Nat
  BY FrontierAssumption DEF Sound, CallType
<1> QED BY <1>1 DEF Sound

\* A call that ends holds nothing.
LEMMA OverLeaves ==
    ASSUME Typed, NEW c \in Calls, call[c].at \notin {"paying", "over"}, Over(c), UNCHANGED paid
    PROVE  Leaves(c)
<1> DEFINE k == [NoCall EXCEPT !.at = "over"]
<1>1. k \in CallType /\ Sound(k) /\ k.at = "over" /\ ~k.entered /\ k.entered \in BOOLEAN
  BY NoCallIsSound DEF NoCall, Sound, CallType, Serving, Holding
<1>2. ~call[c].entered /\ call[c].entered \in BOOLEAN
  BY DEF Typed, Sound, CallType
<1> QED BY <1>1, <1>2 DEF Over, Leaves, Holding, Serving

\* So does one whose id was taken, now or when it began.
LEMMA PaidLeaves ==
    ASSUME Typed, NEW c \in Calls, NEW fate \in Seq(Whys), NEW posts \in 0..(Retries + 1),
           Paid(c, fate, posts), posts > 0 => Warranted(fate),
           \/ UNCHANGED paid /\ call[c].entered
           \/ Correlation[c] \notin paid /\ Enter(Correlation[c])
    PROVE  Leaves(c)
<1> DEFINE k == [NoCall EXCEPT !.at = "over", !.fate = fate, !.entered = TRUE, !.posts = posts]
<1>1. k \in CallType /\ Sound(k) /\ k.at = "over" /\ k.entered = TRUE
  BY NoCallIsSound DEF NoCall, Sound, CallType, Serving, Holding
<1>2. call[c].entered \in BOOLEAN
  BY DEF Typed, CallType
<1> QED BY <1>1, <1>2 DEF Paid, Leaves, Holding, Serving

\* Paid requests, answered or refused, end the call.
LEMMA PayLeaves ==
    ASSUME Typed, NEW c \in Calls, call[c].at \notin {"paying", "over"}, NEW n,
           NEW fate \in Seq(Whys), Warranted(fate), Pay(c, n, fate)
    PROVE  Leaves(c)
<1>1. CASE Over(c) /\ UNCHANGED paid
  BY <1>1, OverLeaves
<1>2. ASSUME NEW posts \in 0..(Retries + 1), Paid(c, fate, posts),
             Correlation[c] \notin paid, Enter(Correlation[c])
      PROVE  Leaves(c)
  BY <1>2, PaidLeaves
<1>3. Retries \in Nat
  BY FrontierAssumption
<1> QED BY <1>1, <1>2, <1>3 DEF Pay, Requests

\* A call for which Codex is not asked ends.
LEMMA WithoutCodexLeaves ==
    ASSUME Typed, NEW c \in Calls, call[c].at \notin {"paying", "over"}, NEW kind, NEW n,
           WithoutCodex(c, kind, n)
    PROVE  Leaves(c)
<1>1. <<>> \in Seq(Whys) /\ Warranted(<<>>)
  BY DEF Warranted
<1> QED BY <1>1, PayLeaves, OverLeaves DEF WithoutCodex

\* After a failed attempt the call goes on without a profile, or ends; it pays only if no
\* profile is left to try, or the last one fell silent.
LEMMA AttemptLeaves ==
    ASSUME Typed, NEW c \in Calls, NEW why \in Whys, call[c].at \notin {"new", "paying", "over"},
           AttemptFails(c, why)
    PROVE  Leaves(c)
<1> DEFINE fate == Append(call[c].fate, why)
           final == IF why = "silent" THEN call[c].final ELSE why
           on == [NoCall EXCEPT !.at = "next", !.kind = call[c].kind, !.final = final]
<1>1. /\ call[c] \in CallType /\ call[c].fate \in Seq(Failover)
      /\ Len(call[c].fate) = call[c].profile - 1
      /\ call[c].entered \in BOOLEAN /\ ~call[c].entered
      /\ call[c].profile \in 1..Len(Profiles) /\ Len(Profiles) \in Nat
  BY FrontierAssumption DEF Typed, Sound, CallType
<1>2. /\ fate \in Seq(Whys) /\ Len(fate) = call[c].profile /\ Last(fate) = why
      /\ why \in Failover => fate \in Seq(Failover)
  <2>1. call[c].fate \in Seq(Whys)
    BY <1>1 DEF CallType
  <2> QED BY <1>1, <2>1 DEF Last
<1>3. final \in Whys
  BY <1>1 DEF CallType
<1>4. ASSUME NEW k \in CallType, k.at = "next", ~k.entered, k.posts = 0, k.thread = 0,
             k.fate \in Seq(Failover), Len(k.fate) = k.profile - 1,
             call' = [call EXCEPT ![c] = k], UNCHANGED paid
      PROVE  Leaves(c)
  <2>1. k.entered \in BOOLEAN /\ k.entered = call[c].entered
    BY <1>1, <1>4 DEF CallType
  <2>2. Sound(k)
    BY <1>4 DEF Sound, Serving
  <2> QED BY <1>4, <2>1, <2>2 DEF Leaves, Holding, Serving
<1>5. CASE why \in Failover /\ HasNext(c)
  <2> DEFINE k == [on EXCEPT !.profile = call[c].profile + 1, !.fate = fate]
  <2>1. call' = [call EXCEPT ![c] = k] /\ UNCHANGED paid
    BY <1>5 DEF AttemptFails, Failover
  <2>2. call[c].profile + 1 \in 1..Len(Profiles)
    BY <1>1, <1>5 DEF HasNext
  <2>3. k \in CallType
    <3> DEFINE profile == call[c].profile + 1
    <3>1. on \in CallType
      <4>1. NoCall \in CallType /\ call[c].kind \in Kind /\ final \in Whys
        BY <1>1, <1>3, NoCallIsSound DEF CallType
      <4> DEFINE kind == call[c].kind
      <4>2. kind \in Kind /\ on = [NoCall EXCEPT !.at = "next", !.kind = kind, !.final = final]
        BY <4>1
      <4> HIDE DEF kind, final, on
      <4> QED BY <4>1, <4>2 DEF CallType
    <3>2. profile \in 1..Len(Profiles) /\ fate \in Seq(Whys)
      BY <1>2, <2>2
    <3>3. k = [on EXCEPT !.profile = profile, !.fate = fate]
      OBVIOUS
    <3> HIDE DEF fate, profile, on, k
    <3> QED BY <3>1, <3>2, <3>3 DEF CallType
  <2>4. /\ k.at = "next" /\ ~k.entered /\ k.posts = 0 /\ k.thread = 0 /\ k.fate = fate
        /\ k.profile = call[c].profile + 1
    BY DEF NoCall
  <2> HIDE DEF k
  <2>5. k.fate \in Seq(Failover)
    BY <1>2, <1>5, <2>4
  <2>6. Len(k.fate) = k.profile - 1
    <3> HIDE DEF fate
    <3> QED BY <1>1, <1>2, <2>4
  <2> QED BY <1>4, <2>1, <2>3, <2>4, <2>5, <2>6
<1>6. CASE why = "protocol" /\ call[c].attempt < Retries
  <2> DEFINE k == [on EXCEPT !.profile = call[c].profile, !.attempt = call[c].attempt + 1,
                             !.fate = call[c].fate]
  <2>1. call' = [call EXCEPT ![c] = k] /\ UNCHANGED paid
    BY <1>6 DEF AttemptFails, Failover
  <2>2. k \in CallType
    <3>1. call[c].attempt + 1 \in Nat /\ call[c].fate \in Seq(Whys) /\ call[c].kind \in Kind
      BY <1>1 DEF CallType
    <3> HIDE DEF final
    <3> QED BY <1>1, <1>3, <3>1, NoCallIsSound DEF NoCall, CallType
  <2>3. /\ k.at = "next" /\ ~k.entered /\ k.posts = 0 /\ k.thread = 0 /\ k.fate = call[c].fate
        /\ k.profile = call[c].profile
    BY DEF NoCall
  <2> HIDE DEF k
  <2> QED BY <1>1, <1>4, <2>1, <2>2, <2>3
<1>7. CASE ~(why \in Failover /\ HasNext(c)) /\ ~(why = "protocol" /\ call[c].attempt < Retries)
  <2>1. Conclude(c, final, fate)
    BY <1>7 DEF AttemptFails
  <2>2. final \in Failover => Warranted(fate)
    <3>1. CASE why = "silent"
      BY <1>2, <3>1 DEF Warranted
    <3>2. CASE why # "silent" /\ why \in Failover
      <4>1. Len(fate) = Len(Profiles)
        BY <1>1, <1>2, <1>7, <3>2 DEF HasNext
      <4>2. ToSet(fate) \subseteq Failover
        BY <1>2, <3>2 DEF ToSet
      <4> QED BY <4>1, <4>2 DEF Warranted
    <3> QED BY <3>1, <3>2
  <2> HIDE DEF fate, final
  <2> QED BY <1>2, <2>1, <2>2, PayLeaves, OverLeaves DEF Conclude
<1> QED BY <1>5, <1>6, <1>7

\* An answer ends the call.
LEMMA AnswersLeaves ==
    ASSUME Typed, NEW c \in Calls, call[c].at \notin {"paying", "over"}, Answers(c)
    PROVE  Leaves(c)
BY OverLeaves DEF Answers

\* These steps end the call's use of a profile ...
LEMMA CallsLeave ==
    ASSUME Typed, NEW c \in Calls,
           \/ Begin(c) \/ BeginExpert(c) \/ ExpertPosts(c) \/ Exec(c) \/ TurnEnds(c)
           \/ ServerRefuses(c) \/ Timeout(c) \/ Cancel(c)
    PROVE  Leaves(c)
<1>0. call[c] \in CallType /\ Sound(call[c]) /\ call[c].fate \in Seq(Whys)
  BY DEF Typed, CallType
<1>1. CASE Begin(c)
  <2>1. PICK kind \in Kinds[c] \ {"expert"} :
         \/ circuit = "open" /\ WithoutCodex(c, kind, failures)
         \/ circuit # "open" /\ kind = "executor" /\ WithoutCodex(c, kind, Afresh)
         \/ /\ circuit # "open" /\ Stays(Afresh) /\ UNCHANGED paid
            /\ call' = [call EXCEPT ![c].at = "next", ![c].kind = kind]
    BY <1>1 DEF Begin
  <2>2. CASE call' = [call EXCEPT ![c].at = "next", ![c].kind = kind] /\ UNCHANGED paid
    <3> DEFINE k == [call[c] EXCEPT !.at = "next", !.kind = kind]
    <3>1. call' = [call EXCEPT ![c] = k]
      BY <2>2 DEF Typed
    <3>2. kind \in Kind
      BY FrontierAssumption
    <3>3. call[c].at = "new"
      BY <1>1 DEF Begin
    <3>4. k \in CallType /\ Sound(k) /\ k.at = "next" /\ k.entered = call[c].entered
      BY <1>0, <3>2, <3>3 DEF Sound, CallType, Serving, Holding
    <3> QED BY <2>2, <3>1, <3>4 DEF Leaves, Holding, Serving
  <2>3. call[c].at \notin {"paying", "over"}
    BY <1>1 DEF Begin
  <2> QED BY <2>1, <2>2, <2>3, WithoutCodexLeaves
<1>2. CASE BeginExpert(c)
  <2>1. call[c].at = "new" /\ <<>> \in Seq(Whys) /\ Retries \in Nat
    BY <1>2, FrontierAssumption DEF BeginExpert
  <2>2. CASE Over(c) /\ UNCHANGED paid
    BY <2>1, <2>2, OverLeaves
  <2>3. CASE /\ Correlation[c] \notin paid /\ Enter(Correlation[c])
             /\ Paid(c, <<>>, 0)
    <3>1. 0 \in 0..(Retries + 1) /\ ~(0 > 0)
      BY <2>1
    <3> QED BY <2>1, <2>3, <3>1, PaidLeaves
  <2>4. CASE /\ Correlation[c] \notin paid /\ Enter(Correlation[c])
             /\ call' = [call EXCEPT ![c].at = "paying", ![c].entered = TRUE]
    <3> DEFINE k == [call[c] EXCEPT !.at = "paying", !.entered = TRUE]
    <3>1. call' = [call EXCEPT ![c] = k]
      BY <2>4 DEF Typed
    <3>2. call[c].posts = 0 /\ call[c].fate = <<>>
      BY <1>0, <2>1, OnItsWay DEF Sound
    <3>3. /\ k \in CallType /\ k.at = "paying" /\ k.entered /\ k.posts = 0 /\ k.fate = <<>>
          /\ k.profile = call[c].profile /\ k.thread = call[c].thread
      BY <1>0, <3>2 DEF CallType, Holding
    <3> HIDE DEF k
    <3>4. k.fate \in Seq(Failover) /\ Len(k.fate) = k.profile - 1 /\ k.thread = 0
      BY <1>0, <2>1, <3>2, <3>3 DEF Sound, Serving
    <3>5. Sound(k)
      BY <2>1, <3>3, <3>4 DEF Sound, Serving
    <3> QED BY <2>4, <3>1, <3>3, <3>5 DEF Leaves, Holding, Serving
  <2> QED BY <1>2, <2>2, <2>3, <2>4 DEF BeginExpert
<1>3. CASE ExpertPosts(c)
  <2> DEFINE posts == call[c].posts + 1
  <2>1. /\ UNCHANGED paid /\ call[c].at = "paying" /\ call[c].entered
        /\ call[c].posts \in 0..(Retries + 1) /\ call[c].posts <= Retries /\ call[c].fate = <<>>
    BY <1>0, <1>3 DEF ExpertPosts, Sound, CallType
  <2>2. /\ <<>> \in Seq(Whys) /\ Warranted(<<>>) /\ Retries \in Nat
        /\ posts \in 0..(Retries + 1)
    BY <2>1, FrontierAssumption DEF Warranted
  <2>3. CASE Paid(c, <<>>, posts)
    BY <2>1, <2>2, <2>3, PaidLeaves
  <2>4. CASE posts <= Retries /\ call' = [call EXCEPT ![c].posts = posts]
    <3> DEFINE k == [call[c] EXCEPT !.posts = posts]
    <3>1. call' = [call EXCEPT ![c] = k]
      BY <2>4 DEF Typed
    <3>2. k \in CallType /\ Sound(k) /\ k.at = "paying" /\ k.entered = call[c].entered
      BY <1>0, <2>1, <2>2, <2>4 DEF Sound, CallType, Serving, Holding
    <3> QED BY <2>1, <3>1, <3>2 DEF Leaves, Holding, Serving
  <2> QED BY <1>3, <2>3, <2>4 DEF ExpertPosts
<1>4. CASE Exec(c)
  BY <1>4, AnswersLeaves, AttemptLeaves DEF Exec, Whys
<1>5. CASE TurnEnds(c)
  BY <1>5, AnswersLeaves DEF TurnEnds
<1>6. CASE ServerRefuses(c) \/ Timeout(c)
  BY <1>6, AttemptLeaves DEF ServerRefuses, Timeout, Whys
<1>7. CASE Cancel(c)
  BY <1>0, <1>7, OverLeaves DEF Cancel
<1> QED BY <1>1, <1>2, <1>3, <1>4, <1>5, <1>6, <1>7

\* ... and in these the call keeps the profile it has.
LEMMA CallsStay ==
    ASSUME Typed, NEW c \in Calls, call[c].at \in Holding \cup {"next"}, UNCHANGED paid,
           NEW at \in Holding, NEW thread \in ThreadIds \cup {0}, thread # 0 <=> at \in Serving,
           NEW known \in BOOLEAN, NEW accepted \in BOOLEAN, NEW compacted \in BOOLEAN,
           call' = [call EXCEPT ![c] = [@ EXCEPT !.at = at, !.thread = thread, !.known = known,
                                                 !.accepted = accepted, !.compacted = compacted]]
    PROVE  Keeps(c)
<1> DEFINE k == [call[c] EXCEPT !.at = at, !.thread = thread, !.known = known,
                                !.accepted = accepted, !.compacted = compacted]
<1>0. call[c] \in CallType /\ Sound(call[c]) /\ call[c].at # "over"
  BY DEF Typed, Holding, Serving
<1>1. call' = [call EXCEPT ![c] = k]
  OBVIOUS
<1>2. /\ k \in CallType /\ k.at = at /\ k.profile = call[c].profile /\ k.fate = call[c].fate
      /\ k.entered = call[c].entered /\ k.posts = call[c].posts /\ k.thread = thread
  BY <1>0 DEF CallType
<1>3. Sound(k)
  BY <1>0, <1>2 DEF Sound, Holding, Serving
<1> QED BY <1>1, <1>2, <1>3 DEF Keeps

-----------------------------------------------------------------------------
(***************************************************************************)
(* What is kept.                                                           *)
(***************************************************************************)
\* Until more ids than are remembered were taken, all of them are, each by one call.
PaidOnce ==
    /\ IsFiniteSet(Entered) /\ paid \subseteq Entered
    /\ \/ Cardinality(Entered) > MaxPaid
       \/ /\ \A c \in Calls : call[c].entered => Correlation[c] \in paid
          /\ \A c, d \in Calls : c # d /\ Correlation[c] = Correlation[d] =>
                                  ~(call[c].entered /\ call[d].entered)

\* Who uses a profile has its lock.
LocksHeld == \A c \in Calls : call[c].at \in Holding => locked[Profile(c)] = c

\* A thread in use is remembered, if at all, for the session and the profile of its call,
\* as the thread of that session, and no two calls use it.
OwnThreads ==
    /\ \A c, d \in Calls : c # d /\ call[c].thread # 0 => call[c].thread # call[d].thread
    /\ \A c \in Calls, p \in ToSet(Profiles) : \A i \in DOMAIN threads[p] :
         call[c].thread = threads[p][i].id => p = Profile(c) /\ threads[p][i].session = Session[c]
    /\ \A c \in Calls : call[c].thread # 0 => \A i \in DOMAIN threads[Profile(c)] :
         threads[Profile(c)][i].session = Session[c] => threads[Profile(c)][i].id = call[c].thread

Safe == PaidOnce /\ LocksHeld /\ OwnThreads /\ IsThreadMap(threads)

\* A step of one call leaves the others where they are.
LEMMA OneMoves ==
    ASSUME Typed, NEW c \in Calls, Leaves(c) \/ Keeps(c)
    PROVE  /\ \A d \in Calls : d # c => call'[d] = call[d]
           /\ call' \in [Calls -> CallType] /\ \A d \in Calls : Sound(call'[d])
           /\ Leaves(c) => call'[c].at \notin Holding /\ call'[c].thread = 0
           /\ Keeps(c) => /\ call'[c].at \in Holding /\ call'[c].profile = call[c].profile
                          /\ call'[c].entered = call[c].entered /\ UNCHANGED paid
<1>1. PICK k \in CallType : /\ call' = [call EXCEPT ![c] = k] /\ Sound(k)
                            /\ Leaves(c) => k.at \notin Holding
                            /\ Keeps(c) => k.at \in Holding /\ k.profile = call[c].profile
  <2>1. CASE Leaves(c) /\ ~Keeps(c)
    BY <2>1 DEF Leaves
  <2>2. CASE Keeps(c) /\ ~Leaves(c)
    BY <2>2 DEF Keeps
  <2>3. CASE Keeps(c) /\ Leaves(c)
    <3>1. PICK k \in CallType : call' = [call EXCEPT ![c] = k] /\ Sound(k) /\ k.at \notin Holding
      BY <2>3 DEF Leaves
    <3>2. PICK m \in CallType : /\ call' = [call EXCEPT ![c] = m] /\ Sound(m) /\ m.at \in Holding
      BY <2>3 DEF Keeps
    <3>3. call'[c] = k /\ call'[c] = m
      BY <3>1, <3>2 DEF Typed
    <3> QED BY <3>1, <3>2, <3>3
  <2> QED BY <2>1, <2>2, <2>3
<1>2. call'[c] = k /\ \A d \in Calls : d # c => call'[d] = call[d]
  BY <1>1 DEF Typed
<1>3. call' \in [Calls -> CallType] /\ \A d \in Calls : Sound(call'[d])
  BY <1>1, <1>2 DEF Typed
<1>4. k.at \notin Holding => k.thread = 0
  BY <1>1 DEF Sound, Holding
<1>5. Keeps(c) => call'[c].entered = call[c].entered /\ UNCHANGED paid
  <2>1. ASSUME Keeps(c) PROVE call'[c].entered = call[c].entered /\ UNCHANGED paid
    <3>1. PICK m \in CallType : call' = [call EXCEPT ![c] = m] /\ m.entered = call[c].entered
      BY <2>1 DEF Keeps
    <3> QED BY <2>1, <3>1 DEF Keeps, Typed
  <2> QED BY <2>1
<1> QED BY <1>1, <1>2, <1>3, <1>4, <1>5

\* Whoever takes an id is the first with it, or ids were forgotten.
LEMMA StepPaysOnce ==
    ASSUME Typed, PaidOnce, NEW c \in Calls, Leaves(c) \/ Keeps(c)
    PROVE  PaidOnce'
<1>1. \A d \in Calls : d # c => call'[d] = call[d]
  BY OneMoves
<1>2. CASE UNCHANGED paid /\ call'[c].entered = call[c].entered
  <2>1. \A d \in Calls : call'[d].entered = call[d].entered
    BY <1>1, <1>2
  <2>2. Entered' = Entered
    BY <2>1 DEF Entered
  <2> QED BY <1>2, <2>1, <2>2 DEF PaidOnce
<1>3. CASE /\ Correlation[c] \notin paid /\ Enter(Correlation[c]) /\ call'[c].entered
  <2> DEFINE ids == paid \cup {Correlation[c]}
  <2>1. Entered' = Entered \cup {Correlation[c]}
    BY <1>1, <1>3 DEF Entered
  <2>2. /\ IsFiniteSet(Entered') /\ Cardinality(Entered') \in Nat /\ Cardinality(Entered) \in Nat
        /\ Cardinality(Entered') >= Cardinality(Entered)
    <3>1. IsFiniteSet(Entered)
      BY DEF PaidOnce
    <3>2. IsFiniteSet(Entered') /\ Cardinality(Entered') \in Nat /\ Cardinality(Entered) \in Nat
      BY <2>1, <3>1, FS_AddElement, FS_CardinalityType
    <3>3. Entered \in SUBSET Entered'
      BY <2>1
    <3>4. Cardinality(Entered) <= Cardinality(Entered')
      BY <3>2, <3>3, FS_Subset
    <3> QED BY <3>2, <3>4
  <2>3. ids \subseteq Entered' /\ paid' \subseteq ids
    BY <1>3, <2>1 DEF PaidOnce, Enter
  <2>4. Cardinality(ids) \in Nat /\ Cardinality(ids) <= Cardinality(Entered') /\ MaxPaid \in Nat
    BY <2>2, <2>3, FS_Subset, FS_CardinalityType, FrontierAssumption
  <2>5. CASE Cardinality(Entered) > MaxPaid \/ Cardinality(ids) > MaxPaid
    BY <2>2, <2>3, <2>4, <2>5 DEF PaidOnce
  <2>6. CASE ~(Cardinality(Entered) > MaxPaid) /\ ~(Cardinality(ids) > MaxPaid)
    <3>1. paid' = ids
      BY <1>3, <2>6 DEF Enter
    <3>2. \A d \in Calls : call[d].entered => Correlation[d] # Correlation[c]
      BY <1>3, <2>6 DEF PaidOnce
    <3>3. \A d \in Calls : d # c => call'[d].entered = call[d].entered
      BY <1>1
    <3> HIDE DEF ids
    <3>4. \A d \in Calls : call'[d].entered => Correlation[d] \in paid'
      BY <2>6, <3>1, <3>3 DEF PaidOnce, ids
    <3>5. \A d, e \in Calls : d # e /\ Correlation[d] = Correlation[e] =>
                              ~(call'[d].entered /\ call'[e].entered)
      BY <2>6, <3>2, <3>3 DEF PaidOnce
    <3> QED BY <2>2, <2>3, <3>4, <3>5 DEF PaidOnce
  <2> QED BY <2>5, <2>6
<1>4. ASSUME Leaves(c) PROVE \/ UNCHANGED paid /\ call'[c].entered = call[c].entered
                            \/ /\ Correlation[c] \notin paid /\ Enter(Correlation[c])
                               /\ call'[c].entered
  <2>1. PICK k \in CallType :
          /\ call' = [call EXCEPT ![c] = k]
          /\ \/ UNCHANGED paid /\ k.entered = call[c].entered
             \/ Correlation[c] \notin paid /\ Enter(Correlation[c]) /\ k.entered
    BY <1>4 DEF Leaves
  <2>2. call'[c] = k
    BY <2>1 DEF Typed
  <2> QED BY <2>1, <2>2
<1> QED BY <1>2, <1>3, <1>4, OneMoves

\* A lock is given back by its holder, or kept.
LEMMA StepKeepsLocks ==
    ASSUME Typed, LocksHeld, NEW c \in Calls,
           \/ Leaves(c) /\ (UNCHANGED locked \/ Unlock(c))
           \/ Keeps(c) /\ UNCHANGED locked /\ call[c].at \in Holding
           \/ /\ Keeps(c) /\ locked[Profile(c)] = Free
              /\ locked' = [locked EXCEPT ![Profile(c)] = c]
    PROVE  LocksHeld' /\ locked' \in [ToSet(Profiles) -> Calls \cup {Free, Cli}]
<1>1. /\ \A d \in Calls : d # c => call'[d] = call[d]
      /\ Leaves(c) => call'[c].at \notin Holding
      /\ Keeps(c) => call'[c].at \in Holding /\ call'[c].profile = call[c].profile
  BY OneMoves
<1>2. \A d \in Calls : Profile(d) \in ToSet(Profiles)
  BY ProfileIsOne
<1>3. locked' \in [ToSet(Profiles) -> Calls \cup {Free, Cli}]
  BY <1>2 DEF Typed, Unlock
<1>4. \A d \in Calls : d # c => Profile(d)' = Profile(d)
  BY <1>1 DEF Profile
<1>5. Keeps(c) => Profile(c)' = Profile(c)
  BY <1>1 DEF Profile
<1>6. Free \notin Calls
  BY FrontierAssumption DEF Free
<1>7. CASE Leaves(c) /\ (UNCHANGED locked \/ Unlock(c))
  <2>1. \A d \in Calls : d # c /\ locked[Profile(d)] = d => locked'[Profile(d)] = d
    BY <1>2, <1>7 DEF Unlock, Typed
  <2> QED BY <1>1, <1>3, <1>4, <1>7, <2>1 DEF LocksHeld
<1>8. CASE Keeps(c) /\ UNCHANGED locked /\ call[c].at \in Holding
  BY <1>1, <1>3, <1>4, <1>5, <1>8 DEF LocksHeld
<1>9. CASE /\ Keeps(c) /\ locked[Profile(c)] = Free
           /\ locked' = [locked EXCEPT ![Profile(c)] = c]
  <2>1. \A d \in Calls : d # c /\ locked[Profile(d)] = d => locked'[Profile(d)] = d
    BY <1>2, <1>6, <1>9 DEF Typed
  <2>2. locked'[Profile(c)] = c
    BY <1>2, <1>9 DEF Typed
  <2> QED BY <1>1, <1>3, <1>4, <1>5, <2>1, <2>2 DEF LocksHeld
<1> QED BY <1>7, <1>8, <1>9

\* The ids in a thread map are those of threads.
LEMMA IdsAreThreads ==
    ASSUME IsThreadMap(threads), NEW p \in ToSet(Profiles), NEW i \in DOMAIN threads[p]
    PROVE  /\ threads[p][i] \in Entry /\ threads[p][i].id \in ThreadIds
           /\ threads[p][i].id # 0
<1>1. threads[p] \in Seq(Entry)
  BY DEF IsThreadMap
<1>2. threads[p][i] \in Entry
  BY <1>1
<1> QED BY <1>2, FrontierAssumption DEF Entry

\* A call that lets go of its thread, or keeps it, does not disturb the others.
LEMMA StepKeepsThreads ==
    ASSUME Typed, OwnThreads, NEW c \in Calls, UNCHANGED threads, IsThreadMap(threads),
           Leaves(c) \/ (Keeps(c) /\ call'[c].thread \in {0, call[c].thread})
    PROVE  OwnThreads'
<1>1. /\ \A d \in Calls : d # c => call'[d] = call[d]
      /\ Leaves(c) => call'[c].thread = 0
      /\ Keeps(c) => call'[c].profile = call[c].profile
  BY OneMoves
<1>2. \A d \in Calls : /\ call'[d].thread \in {0, call[d].thread}
                       /\ call'[d].thread # 0 => Profile(d)' = Profile(d)
  BY <1>1 DEF Profile
<1> QED BY <1>2, IdsAreThreads, ProfileIsOne DEF OwnThreads

\* Steps that leave the thread map alone keep what is kept.
LEMMA PlainStep ==
    ASSUME Typed, Safe, NEW c \in Calls, UNCHANGED threads,
           \/ Leaves(c) /\ (UNCHANGED locked \/ Unlock(c))
           \/ /\ Keeps(c) /\ call'[c].thread \in {0, call[c].thread}
              /\ \/ UNCHANGED locked /\ call[c].at \in Holding
                 \/ /\ locked[Profile(c)] = Free
                    /\ locked' = [locked EXCEPT ![Profile(c)] = c]
    PROVE  Typed' /\ Safe'
<1>1. Typed'
  BY OneMoves, StepKeepsLocks DEF Typed, Safe
<1>2. PaidOnce' /\ LocksHeld' /\ OwnThreads'
  BY StepPaysOnce, StepKeepsLocks, StepKeepsThreads DEF Safe
<1> QED BY <1>1, <1>2 DEF Safe, IsThreadMap

\* The steps that end a call's use of a profile, but for a turn that is remembered.
LEMMA EndsAreSafe ==
    ASSUME Typed, Safe, NEW c \in Calls,
           \/ Begin(c) \/ BeginExpert(c) \/ ExpertPosts(c) \/ Exec(c)
           \/ ServerRefuses(c) \/ Timeout(c) \/ Cancel(c)
    PROVE  Typed' /\ Safe'
<1>1. UNCHANGED threads
  BY DEF Begin, BeginExpert, ExpertPosts, Exec, ServerRefuses, Timeout, Cancel, server
<1>2. UNCHANGED locked \/ Unlock(c)
  BY DEF Begin, BeginExpert, ExpertPosts, Exec, ServerRefuses, Timeout, Cancel
<1> QED BY <1>1, <1>2, CallsLeave, PlainStep

\* The lock of a profile is taken, or the attempt fails at once.
LEMMA LockIsSafe == ASSUME Typed, Safe, NEW c \in Calls, Lock(c) PROVE Typed' /\ Safe'
<1>0. call[c].at = "next" /\ UNCHANGED threads
  BY DEF Lock, server
<1>1. CASE AttemptFails(c, "busy") /\ UNCHANGED locked
  BY <1>0, <1>1, AttemptLeaves, PlainStep DEF Whys
<1>2. CASE /\ locked[Profile(c)] = Free /\ locked' = [locked EXCEPT ![Profile(c)] = c]
           /\ To(c, IF AppServer THEN "opening" ELSE "exec") /\ UNCHANGED paid
  <2> DEFINE at == IF AppServer THEN "opening" ELSE "exec"
             k == [call[c] EXCEPT !.at = at]
  <2>1. call' = [call EXCEPT ![c] = k]
    BY <1>2 DEF To, Typed
  <2>2. /\ k \in CallType /\ Sound(k) /\ k.at \in Holding /\ k.profile = call[c].profile
        /\ k.thread = 0
    <3>1. call[c] \in CallType /\ Sound(call[c])
      BY DEF Typed
    <3>2. at \in Holding \ Serving
      BY DEF Holding, Serving
    <3>3. at # "over"
      OBVIOUS
    <3> HIDE DEF at
    <3>4. /\ k.at = at /\ k.entered = call[c].entered /\ k.posts = call[c].posts /\ k.fate = call[c].fate
          /\ k.profile = call[c].profile /\ k.thread = call[c].thread
      BY <3>1 DEF CallType
    <3>5. k \in CallType
      BY <3>1, <3>2 DEF CallType
    <3>6. call[c].thread = 0
      BY <1>0, <3>1 DEF Sound, Serving
    <3>7. ~call[c].entered /\ call[c].posts = 0 /\ call[c].fate \in Seq(Failover) /\ Len(call[c].fate) = call[c].profile - 1
      BY <1>0, <3>1, OnItsWay DEF Sound
    <3> QED BY <3>2, <3>3, <3>4, <3>5, <3>6, <3>7 DEF Sound, Holding, Serving
  <2> HIDE DEF k
  <2>3. Keeps(c)
    <3>1. k.entered = FALSE /\ call[c].entered = FALSE
      BY <1>0, <2>2, OnItsWay DEF Typed, Holding, Serving
    <3> QED BY <1>2, <2>1, <2>2, <3>1 DEF Keeps
  <2>4. call'[c].thread = 0
    BY <2>1, <2>2 DEF Typed
  <2> QED BY <1>0, <1>2, <2>3, <2>4, PlainStep
<1> QED BY <1>1, <1>2 DEF Lock

\* What a call does with the profile that it holds, once it has a thread.
LEMMA ServingIsSafe ==
    ASSUME Typed, Safe, NEW c \in Calls, Compact(c) \/ TurnIsKnown(c) \/ ServerUnavailable(c)
    PROVE  Typed' /\ Safe'
<1>0. /\ UNCHANGED <<locked, paid, threads>> /\ call[c].at \in Holding /\ call[c] \in CallType
      /\ Sound(call[c])
  <2>1. UNCHANGED <<locked, paid, threads>> /\ call[c].at \in Serving \cup {"opening"}
    BY DEF Compact, TurnIsKnown, ServerUnavailable, server, Serving
  <2> QED BY <2>1 DEF Holding, Typed
<1>1. ASSUME NEW k, call' = [call EXCEPT ![c] = k], k \in CallType, Sound(k), k.at \in Holding,
             k.profile = call[c].profile, k.thread \in {0, call[c].thread}
      PROVE  Typed' /\ Safe'
  <2>1. Keeps(c)
    <3>1. k.entered = FALSE /\ call[c].entered = FALSE
      BY <1>0, <1>1, OnItsWay DEF Holding, Serving
    <3> QED BY <1>0, <1>1, <3>1 DEF Keeps
  <2>2. call'[c].thread \in {0, call[c].thread}
    BY <1>1 DEF Typed
  <2> QED BY <1>0, <2>1, <2>2, PlainStep
<1>2. CASE ServerUnavailable(c)
  <2> DEFINE k == [call[c] EXCEPT !.at = "exec", !.thread = 0, !.known = FALSE,
                                  !.accepted = FALSE, !.compacted = FALSE]
  <2>1. call' = [call EXCEPT ![c] = k]
    BY <1>2 DEF ServerUnavailable
  <2>2. /\ k \in CallType /\ Sound(k) /\ k.at \in Holding /\ k.profile = call[c].profile
        /\ k.thread = 0
    BY <1>0 DEF Sound, CallType, Holding, Serving
  <2> HIDE DEF k
  <2> QED BY <1>1, <2>1, <2>2
<1>3. CASE TurnIsKnown(c)
  <2> DEFINE k == [call[c] EXCEPT !.at = "running", !.known = TRUE]
  <2>1. call' = [call EXCEPT ![c] = k] /\ call[c].at = "asked"
    BY <1>3 DEF TurnIsKnown, Typed
  <2>2. /\ k \in CallType /\ Sound(k) /\ k.at \in Holding /\ k.profile = call[c].profile
        /\ k.thread = call[c].thread
    BY <1>0, <2>1 DEF Sound, CallType, Holding, Serving
  <2> HIDE DEF k
  <2> QED BY <1>1, <2>1, <2>2
<1>4. CASE Compact(c)
  <2>0. call[c].at = "compacting"
    BY <1>4 DEF Compact
  <2>1. CASE StartTurn(c, call[c].thread, TRUE)
    <3> DEFINE k == [call[c] EXCEPT !.at = "asked", !.thread = call[c].thread, !.known = FALSE,
                                    !.compacted = TRUE]
    <3>1. call' = [call EXCEPT ![c] = k]
      BY <2>1 DEF StartTurn
    <3>2. /\ k \in CallType /\ Sound(k) /\ k.at \in Holding /\ k.profile = call[c].profile
          /\ k.thread = call[c].thread
      BY <1>0, <2>0 DEF Sound, CallType, Holding, Serving
    <3> HIDE DEF k
    <3> QED BY <1>1, <3>1, <3>2
  <2>2. ASSUME NEW known \in BOOLEAN, NEW accepted \in BOOLEAN, NEW compacted \in BOOLEAN,
               call' = [call EXCEPT ![c] = [call[c] EXCEPT !.known = known, !.accepted = accepted,
                                                           !.compacted = compacted]]
        PROVE  Typed' /\ Safe'
    <3> DEFINE k == [call[c] EXCEPT !.known = known, !.accepted = accepted,
                                    !.compacted = compacted]
    <3>1. /\ k \in CallType /\ Sound(k) /\ k.at \in Holding /\ k.profile = call[c].profile
          /\ k.thread = call[c].thread
      BY <1>0, <2>0 DEF Sound, CallType, Holding, Serving
    <3> QED BY <1>1, <2>2, <3>1
  <2>3. CASE \/ call' = [call EXCEPT ![c].known = TRUE]
             \/ call' = [call EXCEPT ![c].accepted = TRUE]
             \/ call' = [call EXCEPT ![c].compacted = TRUE, ![c].known = FALSE]
    <3>1. call[c].known \in BOOLEAN /\ call[c].accepted \in BOOLEAN /\ call[c].compacted \in BOOLEAN
      BY <1>0 DEF CallType
    <3>2. CASE call' = [call EXCEPT ![c].known = TRUE]
      <4>1. call' = [call EXCEPT ![c] = [call[c] EXCEPT !.known = TRUE,
                        !.accepted = call[c].accepted, !.compacted = call[c].compacted]]
        BY <1>0, <3>2 DEF Typed, CallType
      <4> QED BY <2>2, <3>1, <4>1
    <3>3. CASE call' = [call EXCEPT ![c].accepted = TRUE]
      <4>1. call' = [call EXCEPT ![c] = [call[c] EXCEPT !.known = call[c].known,
                        !.accepted = TRUE, !.compacted = call[c].compacted]]
        BY <1>0, <3>3 DEF Typed, CallType
      <4> QED BY <2>2, <3>1, <4>1
    <3>4. CASE call' = [call EXCEPT ![c].compacted = TRUE, ![c].known = FALSE]
      <4>1. call' = [call EXCEPT ![c] = [call[c] EXCEPT !.known = FALSE,
                        !.accepted = call[c].accepted, !.compacted = TRUE]]
        BY <1>0, <3>4 DEF Typed, CallType
      <4> QED BY <2>2, <3>1, <4>1
    <3> QED BY <2>3, <3>2, <3>3, <3>4
  <2> QED BY <1>4, <2>1, <2>3 DEF Compact
<1> QED BY <1>2, <1>3, <1>4

\* A call that gets a thread of its own, or that of its session, keeps threads apart.
LEMMA OpenedThreads ==
    ASSUME Typed, Safe, NEW c \in Calls, UNCHANGED threads, Keeps(c), call[c].at = "opening",
           call'[c].thread # 0,
           \A d \in Calls : d # c => call[d].thread # call'[c].thread,
           \A q \in ToSet(Profiles) : \A i \in DOMAIN threads[q] :
               threads[q][i].id = call'[c].thread =>
                   q = Profile(c) /\ threads[q][i].session = Session[c],
           \A i \in DOMAIN threads[Profile(c)] :
               threads[Profile(c)][i].session = Session[c] =>
                   threads[Profile(c)][i].id = call'[c].thread
    PROVE  OwnThreads'
<1>1. /\ \A d \in Calls : d # c => call'[d] = call[d]
      /\ call'[c].profile = call[c].profile
  BY OneMoves
<1>2. \A d \in Calls : Profile(d)' = Profile(d)
  BY <1>1 DEF Profile
<1>3. OwnThreads
  BY DEF Safe
<1>4. \A d, e \in Calls : d # e /\ call'[d].thread # 0 => call'[d].thread # call'[e].thread
  BY <1>1, <1>3 DEF OwnThreads
<1>5. \A d \in Calls, q \in ToSet(Profiles) : \A i \in DOMAIN threads[q] :
         call'[d].thread = threads[q][i].id =>
             q = Profile(d) /\ threads[q][i].session = Session[d]
  BY <1>1, <1>3 DEF OwnThreads
<1>6. \A d \in Calls : call'[d].thread # 0 => \A i \in DOMAIN threads[Profile(d)] :
         threads[Profile(d)][i].session = Session[d] =>
             threads[Profile(d)][i].id = call'[d].thread
  BY <1>1, <1>3 DEF OwnThreads
<1> QED BY <1>2, <1>4, <1>5, <1>6 DEF OwnThreads

\* A thread that is resumed is that of the session, and one that is started is new.
LEMMA OpenIsSafe == ASSUME Typed, Safe, NEW c \in Calls, Open(c) PROVE Typed' /\ Safe'
<1> DEFINE p == Profile(c)
           t == IF Entries(c) = {} THEN NewId
                ELSE threads[p][CHOOSE i \in Entries(c) : TRUE].id
<1>0. /\ call[c].at = "opening" /\ UNCHANGED <<locked, paid, threads>> /\ p \in ToSet(Profiles)
      /\ Entries(c) # {} \/ ThreadIds \ Used # {}
      /\ call[c] \in CallType /\ Sound(call[c]) /\ locked[p] = c
  BY ProfileIsOne DEF Open, Typed, Safe, LocksHeld, Holding
<1>1. /\ t \in ThreadIds /\ t # 0
      /\ \A d \in Calls : d # c => call[d].thread # t
      /\ \A q \in ToSet(Profiles) : \A i \in DOMAIN threads[q] :
           threads[q][i].id = t => q = p /\ threads[q][i].session = Session[c]
      /\ \A i \in DOMAIN threads[p] : threads[p][i].session = Session[c] => threads[p][i].id = t
  <2>1. CASE Entries(c) = {}
    <3>1. \E i \in ThreadIds : i \notin Used
      BY <1>0, <2>1
    <3>2. t \in ThreadIds /\ t \notin Used
      BY <2>1, <3>1 DEF NewId
    <3>3. \A d \in Calls : call[d].thread \in Used
      BY DEF Used
    <3>4. \A q \in ToSet(Profiles) : \A i \in DOMAIN threads[q] : threads[q][i].id \in Used
      <4>1. DOMAIN threads = ToSet(Profiles)
        BY DEF Safe, IsThreadMap
      <4> SUFFICES ASSUME NEW q \in ToSet(Profiles), NEW i \in DOMAIN threads[q]
                   PROVE  threads[q][i].id \in Used
        OBVIOUS
      <4>2. threads[q][i].id \in {threads[q][j].id : j \in DOMAIN threads[q]}
        OBVIOUS
      <4> QED BY <4>1, <4>2 DEF Used
    <3>5. \A i \in DOMAIN threads[p] : threads[p][i].session # Session[c]
      BY <2>1 DEF Entries
    <3> HIDE DEF t
    <3> QED BY <3>2, <3>3, <3>4, <3>5, FrontierAssumption
  <2>2. CASE Entries(c) # {}
    <3>1. PICK i \in Entries(c) : t = threads[p][i].id
      BY <2>2
    <3>2. i \in DOMAIN threads[p] /\ threads[p][i].session = Session[c]
      BY DEF Entries
    <3>3. t \in ThreadIds /\ t # 0
      BY <1>0, <3>1, <3>2, IdsAreThreads DEF Safe
    <3>4. \A q \in ToSet(Profiles) : \A j \in DOMAIN threads[q] :
            <<p, i>> # <<q, j>> =>
              threads[p][i].id # threads[q][j].id
                /\ (p = q => threads[p][i].session # threads[q][j].session)
      BY <1>0, <3>2 DEF Safe, IsThreadMap
    <3>5. ASSUME NEW d \in Calls, d # c, call[d].thread = t PROVE FALSE
      <4>1. p = Profile(d)
        BY <1>0, <3>1, <3>2, <3>5 DEF Safe, OwnThreads
      <4>2. call[d].at \in Holding
        BY <3>3, <3>5 DEF Typed, Sound, Holding
      <4> QED BY <1>0, <3>5, <4>1, <4>2 DEF Safe, LocksHeld
    <3>6. \A q \in ToSet(Profiles) : \A j \in DOMAIN threads[q] :
            threads[q][j].id = t => q = p /\ threads[q][j].session = Session[c]
      BY <3>1, <3>2, <3>4
    <3>7. \A j \in DOMAIN threads[p] : threads[p][j].session = Session[c] => threads[p][j].id = t
      <4>1. \A j \in DOMAIN threads[p] : j # i => threads[p][i].session # threads[p][j].session
        BY <1>0, <3>4
      <4> HIDE DEF p
      <4> QED BY <3>1, <3>2, <4>1
    <3> HIDE DEF t
    <3> QED BY <3>3, <3>5, <3>6, <3>7
  <2> QED BY <2>1, <2>2
<1>2. PICK at \in {"asked", "compacting"} : \E known \in BOOLEAN, compacted \in BOOLEAN :
         call' = [call EXCEPT ![c] = [call[c] EXCEPT !.at = at, !.thread = t, !.known = known,
                                                     !.compacted = compacted]]
  <2>1. call[c].known \in BOOLEAN /\ call[c].compacted \in BOOLEAN
    BY <1>0 DEF CallType
  <2>2. CASE StartTurn(c, t, FALSE)
    BY <2>2 DEF StartTurn
  <2>3. CASE call' = [call EXCEPT ![c].at = "compacting", ![c].thread = t]
    <3>1. call' = [call EXCEPT ![c] = [call[c] EXCEPT !.at = "compacting", !.thread = t,
                        !.known = call[c].known, !.compacted = call[c].compacted]]
      <4> HIDE DEF t
      <4> QED BY <1>0, <2>3 DEF Typed, CallType
    <3> QED BY <2>1, <3>1
  <2> QED BY <2>2, <2>3 DEF Open
<1> HIDE DEF t
<1>3. PICK known \in BOOLEAN, compacted \in BOOLEAN :
         call' = [call EXCEPT ![c] = [call[c] EXCEPT !.at = at, !.thread = t, !.known = known,
                                                     !.compacted = compacted]]
  BY <1>2
<1> DEFINE k == [call[c] EXCEPT !.at = at, !.thread = t, !.known = known, !.compacted = compacted]
<1>4. /\ k \in CallType /\ Sound(k) /\ k.at \in Holding /\ k.profile = call[c].profile
      /\ k.thread = t
  BY <1>0, <1>1 DEF Sound, CallType, Holding, Serving
<1>5. call' = [call EXCEPT ![c] = k]
  BY <1>3
<1> HIDE DEF k
<1>6. Keeps(c) /\ call'[c].thread = t
  <2>1. k.entered = FALSE /\ call[c].entered = FALSE
    BY <1>0, <1>4, OnItsWay DEF Typed, Holding, Serving
  <2> QED BY <1>0, <1>4, <1>5, <2>1 DEF Keeps, Typed
<1>7. Typed'
  BY <1>0, <1>6, OneMoves DEF Typed
<1>8. PaidOnce' /\ LocksHeld'
  BY <1>0, <1>6, StepPaysOnce, StepKeepsLocks DEF Safe, Holding
<1>9. OwnThreads'
  BY <1>0, <1>1, <1>6, OpenedThreads
<1> QED BY <1>0, <1>7, <1>8, <1>9 DEF Safe, IsThreadMap

\* One profile's entries make way for others of the call's thread and of what was there.
LEMMA ChangedMap ==
    ASSUME Typed, Safe, NEW c \in Calls, NEW new \in Seq(Entry),
           threads' = [threads EXCEPT ![Profile(c)] = new], Len(new) <= MaxThreads,
           \A i, j \in DOMAIN new : i # j => new[i].id # new[j].id /\ new[i].session # new[j].session,
           \A i \in DOMAIN new : \/ new[i].id = call[c].thread
                                 \/ \E j \in DOMAIN threads[Profile(c)] :
                                       new[i].id = threads[Profile(c)][j].id
    PROVE  IsThreadMap(threads')
<1> DEFINE p == Profile(c)
<1>0. p \in ToSet(Profiles) /\ threads \in [ToSet(Profiles) -> Seq(Entry)]
  BY ProfileIsOne DEF Safe, IsThreadMap
<1>1. /\ threads'[p] = new /\ \A q \in ToSet(Profiles) : q # p => threads'[q] = threads[q]
      /\ threads' \in [ToSet(Profiles) -> Seq(Entry)]
  BY <1>0
<1>2. \A q \in ToSet(Profiles) : Len(threads'[q]) <= MaxThreads
  BY <1>1 DEF Safe, IsThreadMap
<1>3. \A q \in ToSet(Profiles) : q # p => \A i \in DOMAIN new, j \in DOMAIN threads[q] :
          new[i].id # threads[q][j].id
  <2>1. \A q \in ToSet(Profiles) : q # p => \A i \in DOMAIN threads[p], j \in DOMAIN threads[q] :
            threads[p][i].id # threads[q][j].id
    BY <1>0 DEF Safe, IsThreadMap
  <2>2. \A q \in ToSet(Profiles) : q # p => \A j \in DOMAIN threads[q] :
            threads[q][j].id # call[c].thread
    BY DEF Safe, OwnThreads
  <2> QED BY <2>1, <2>2
<1>4. ASSUME NEW q \in ToSet(Profiles), NEW r \in ToSet(Profiles), NEW i \in DOMAIN threads'[q],
             NEW j \in DOMAIN threads'[r], <<q, i>> # <<r, j>>
      PROVE  /\ threads'[q][i].id # threads'[r][j].id
             /\ q = r => threads'[q][i].session # threads'[r][j].session
  <2> HIDE DEF p
  <2>1. CASE q = p /\ r = p
    BY <1>1, <1>4, <2>1
  <2>2. CASE q = p /\ r # p
    BY <1>1, <1>3, <2>2
  <2>3. CASE q # p /\ r = p
    BY <1>1, <1>3, <2>3
  <2>4. CASE q # p /\ r # p
    BY <1>1, <1>4, <2>4 DEF Safe, IsThreadMap
  <2> QED BY <2>1, <2>2, <2>3, <2>4
<1> QED BY <1>1, <1>2, <1>4 DEF IsThreadMap

\* A turn that ends is remembered in its session's entry or in a new one, for which the
\* oldest of a full map goes.
LEMMA RememberIsMap ==
    ASSUME Typed, Safe, NEW c \in Calls, call[c].at = "running", Remember(c)
    PROVE  /\ IsThreadMap(threads')
           /\ \A q \in ToSet(Profiles) : q # Profile(c) => threads'[q] = threads[q]
           /\ \A i \in DOMAIN threads'[Profile(c)] :
                \/ threads'[Profile(c)][i].id = call[c].thread
                \/ \E j \in DOMAIN threads[Profile(c)] :
                      threads'[Profile(c)][i].id = threads[Profile(c)][j].id
<1> DEFINE p == Profile(c)
           old == threads[p]
           turns == IF call[c].compacted THEN 1 ELSE Turns(c) + 1
           entry == [session |-> Session[c], id |-> call[c].thread, turns |-> turns]
<1>0. /\ p \in ToSet(Profiles) /\ old \in Seq(Entry) /\ Len(old) <= MaxThreads
      /\ MaxThreads \in Nat \ {0}
      /\ call[c].thread \in ThreadIds /\ call[c].thread # 0 /\ Session[c] \in Sessions
      /\ threads \in [ToSet(Profiles) -> Seq(Entry)]
  BY ProfileIsOne, FrontierAssumption DEF Safe, IsThreadMap, Typed, Sound, CallType, Serving
<1>1. entry \in Entry
  <2>1. turns \in Nat
    <3>1. Turns(c) \in Nat
      <4>1. CASE Entries(c) = {}
        BY <4>1 DEF Turns
      <4>2. CASE Entries(c) # {}
        <5>1. PICK i \in Entries(c) : Turns(c) = old[i].turns
          BY <4>2 DEF Turns
        <5>2. i \in DOMAIN old
          BY DEF Entries
        <5>3. old[i] \in Entry
          BY <1>0, <5>2
        <5> QED BY <5>1, <5>3 DEF Entry
      <4> QED BY <4>1, <4>2
    <3> QED BY <3>1
  <2> HIDE DEF turns
  <2> QED BY <1>0, <2>1 DEF Entry
<1>2. \A i, j \in DOMAIN old : i # j => old[i].id # old[j].id /\ old[i].session # old[j].session
  BY <1>0 DEF Safe, IsThreadMap
<1>4. \A q \in ToSet(Profiles) : \A j \in DOMAIN threads[q] :
          threads[q][j].id = call[c].thread => q = p /\ threads[q][j].session = Session[c]
  BY DEF Safe, OwnThreads
<1>5. \A j \in DOMAIN old : old[j].session = Session[c] => old[j].id = call[c].thread
  BY <1>0 DEF Safe, OwnThreads
<1>7. CASE Entries(c) # {}
  <2> DEFINE new == [i \in DOMAIN old |-> IF i \in Entries(c) THEN entry ELSE old[i]]
  <2>1. threads' = [threads EXCEPT ![p] = new]
    BY <1>0, <1>7 DEF Remember
  <2>2. new \in Seq(Entry) /\ Len(new) = Len(old) /\ DOMAIN new = DOMAIN old
    <3>1. DOMAIN old = 1..Len(old) /\ Len(old) \in Nat /\ \A i \in DOMAIN old : old[i] \in Entry
      BY <1>0
    <3>2. new \in [1..Len(old) -> Entry]
      BY <1>1, <3>1
    <3> HIDE DEF new
    <3> QED BY <3>1, <3>2, IsASeq, LenProperties
  <2>3. \A i \in DOMAIN old : new[i].id = old[i].id /\ new[i].session = old[i].session
    BY <1>5 DEF Entries
  <2> HIDE DEF new
  <2>4. \A i, j \in DOMAIN new : i # j => /\ new[i].id # new[j].id
                                          /\ new[i].session # new[j].session
    BY <1>2, <2>2, <2>3
  <2>5. \A i \in DOMAIN new : \E j \in DOMAIN old : new[i].id = old[j].id
    BY <2>2, <2>3
  <2>6. Len(new) <= MaxThreads
    BY <1>0, <2>2
  <2>7. IsThreadMap(threads')
    BY <2>1, <2>2, <2>4, <2>5, <2>6, ChangedMap
  <2>8. threads'[p] = new /\ \A q \in ToSet(Profiles) : q # p => threads'[q] = threads[q]
    BY <1>0, <2>1
  <2> QED BY <2>5, <2>7, <2>8
<1>8. CASE Entries(c) = {}
  <2> DEFINE base == IF Len(old) >= MaxThreads THEN Tail(old) ELSE old
             new == Append(base, entry)
  <2>1. threads' = [threads EXCEPT ![p] = new]
    BY <1>0, <1>8 DEF Remember
  <2>2. PICK shift \in {0, 1} : /\ base \in Seq(Entry) /\ Len(base) + shift = Len(old)
                                /\ Len(base) < MaxThreads
                                /\ \A i \in 1..Len(base) : base[i] = old[i + shift]
    <3>1. Len(old) \in Nat
      BY <1>0
    <3>2. CASE Len(old) >= MaxThreads
      <4>1. old # <<>> /\ base = Tail(old)
        BY <1>0, <3>2
      <4>2. /\ Tail(old) \in Seq(Entry) /\ Len(Tail(old)) = Len(old) - 1
            /\ \A i \in 1..Len(Tail(old)) : Tail(old)[i] = old[i + 1]
        BY <1>0, <4>1, HeadTailProperties
      <4> HIDE DEF base, old
      <4>3. Len(base) + 1 = Len(old) /\ Len(base) < MaxThreads
        BY <1>0, <3>1, <3>2, <4>1, <4>2
      <4> QED BY <4>1, <4>2, <4>3
    <3>3. CASE Len(old) < MaxThreads
      <4>1. base = old
        BY <1>0, <3>1, <3>3
      <4>2. \A i \in 1..Len(old) : old[i] = old[i + 0] /\ Len(old) + 0 = Len(old)
        BY <3>1
      <4>3. Len(old) + 0 = Len(old)
        BY <3>1
      <4> HIDE DEF base, old
      <4> QED BY <1>0, <3>3, <4>1, <4>2, <4>3
    <3> QED BY <1>0, <3>1, <3>2, <3>3
  <2> HIDE DEF base
  <2>3. /\ new \in Seq(Entry) /\ Len(new) = Len(base) + 1 /\ new[Len(base) + 1] = entry
        /\ \A i \in 1..Len(base) : new[i] = base[i]
    BY <1>1, <2>2, AppendProperties
  <2>4. Len(new) <= MaxThreads /\ DOMAIN new = 1..(Len(base) + 1)
    BY <1>0, <2>2, <2>3
  <2> HIDE DEF new
  <2>5. \A i \in 1..Len(base) : i + shift \in DOMAIN old /\ new[i] = old[i + shift]
    BY <1>0, <2>2, <2>3
  <2>6. \A j \in DOMAIN old : old[j].id # call[c].thread /\ old[j].session # Session[c]
    BY <1>0, <1>4, <1>8 DEF Entries
  <2>7. \A i, j \in DOMAIN new : i # j => /\ new[i].id # new[j].id /\ new[i].session # new[j].session
    <3> SUFFICES ASSUME NEW i \in DOMAIN new, NEW j \in DOMAIN new, i # j
                 PROVE  new[i].id # new[j].id /\ new[i].session # new[j].session
      OBVIOUS
    <3>0. Len(base) \in Nat
      BY <2>2
    <3>1. CASE i <= Len(base) /\ j <= Len(base)
      <4>1. i \in 1..Len(base) /\ j \in 1..Len(base) /\ i + shift # j + shift
        BY <2>4, <3>0, <3>1
      <4> QED BY <1>2, <2>5, <4>1
    <3>2. CASE i = Len(base) + 1 /\ j <= Len(base)
      <4>1. j \in 1..Len(base)
        BY <2>4, <3>0, <3>2
      <4> QED BY <2>3, <2>5, <2>6, <3>2, <4>1
    <3>3. CASE j = Len(base) + 1 /\ i <= Len(base)
      <4>1. i \in 1..Len(base)
        BY <2>4, <3>0, <3>3
      <4> QED BY <2>3, <2>5, <2>6, <3>3, <4>1
    <3> QED BY <2>4, <3>0, <3>1, <3>2, <3>3
  <2>8. \A i \in DOMAIN new : \/ new[i].id = call[c].thread
                              \/ \E j \in DOMAIN old : new[i].id = old[j].id
    <3> SUFFICES ASSUME NEW i \in DOMAIN new, i # Len(base) + 1
                 PROVE  \E j \in DOMAIN old : new[i].id = old[j].id
      <4>1. new[Len(base) + 1].id = call[c].thread
        BY <2>3
      <4> QED BY <4>1
    <3>1. i \in 1..Len(base)
      <4>1. Len(base) \in Nat
        BY <2>2
      <4> QED BY <2>4, <4>1
    <3>2. i + shift \in DOMAIN old /\ new[i] = old[i + shift]
      BY <2>5, <3>1
    <3> QED BY <3>2
  <2>9. IsThreadMap(threads')
    BY <2>1, <2>3, <2>4, <2>7, <2>8, ChangedMap
  <2>10. threads'[p] = new /\ \A q \in ToSet(Profiles) : q # p => threads'[q] = threads[q]
    BY <1>0, <2>1
  <2> QED BY <2>8, <2>9, <2>10
<1> QED BY <1>7, <1>8

\* A turn that ends is safe to remember: nobody else has the profile or the thread.
LEMMA TurnEndIsSafe == ASSUME Typed, Safe, NEW c \in Calls, TurnEnds(c) PROVE Typed' /\ Safe'
<1>0. /\ call[c].at = "running" /\ Remember(c) /\ Unlock(c) /\ Leaves(c)
  BY CallsLeave DEF TurnEnds
<1>1. /\ \A d \in Calls : d # c => call'[d] = call[d]
      /\ call'[c].thread = 0
  BY <1>0, OneMoves
<1>2. Typed' /\ PaidOnce' /\ LocksHeld'
  BY <1>0, OneMoves, StepPaysOnce, StepKeepsLocks DEF Typed, Safe
<1>3. /\ IsThreadMap(threads')
      /\ \A q \in ToSet(Profiles) : q # Profile(c) => threads'[q] = threads[q]
      /\ \A i \in DOMAIN threads'[Profile(c)] :
           \/ threads'[Profile(c)][i].id = call[c].thread
           \/ \E j \in DOMAIN threads[Profile(c)] :
                 threads'[Profile(c)][i].id = threads[Profile(c)][j].id
  BY <1>0, RememberIsMap
<1>4. call[c].thread # 0 /\ call[c].at \in Holding /\ Profile(c) \in ToSet(Profiles)
  BY <1>0, ProfileIsOne DEF Typed, Sound, Serving, Holding
<1>5. ASSUME NEW d \in Calls, d # c, call[d].thread # 0
      PROVE  /\ Profile(d) # Profile(c) /\ Profile(d)' = Profile(d)
             /\ \A i \in DOMAIN threads'[Profile(c)] :
                  threads'[Profile(c)][i].id # call[d].thread
  <2>1. call[d].at \in Holding
    BY <1>5 DEF Typed, Sound, Holding
  <2>2. Profile(d) # Profile(c)
    BY <1>4, <1>5, <2>1 DEF Safe, LocksHeld
  <2>3. Profile(d)' = Profile(d)
    BY <1>1, <1>5 DEF Profile
  <2>4. call[d].thread # call[c].thread
    BY <1>5 DEF Safe, OwnThreads
  <2>5. \A j \in DOMAIN threads[Profile(c)] : threads[Profile(c)][j].id # call[d].thread
    BY <1>4, <2>2 DEF Safe, OwnThreads
  <2> QED BY <1>3, <2>2, <2>3, <2>4, <2>5
<1>6. OwnThreads'
  <2>1. \A d, e \in Calls : d # e /\ call'[d].thread # 0 => call'[d].thread # call'[e].thread
    BY <1>1 DEF Safe, OwnThreads
  <2>2. \A p \in ToSet(Profiles) : \A i \in DOMAIN threads'[p] : threads'[p][i].id # 0
    <3> SUFFICES ASSUME NEW p \in ToSet(Profiles), NEW i \in DOMAIN threads'[p]
                 PROVE  threads'[p][i].id # 0
      OBVIOUS
    <3>1. threads'[p] \in Seq(Entry)
      BY <1>3 DEF IsThreadMap
    <3>2. threads'[p][i] \in Entry
      BY <3>1
    <3> QED BY <3>2, FrontierAssumption DEF Entry
  <2>3. ASSUME NEW d \in Calls, NEW p \in ToSet(Profiles), NEW i \in DOMAIN threads'[p],
               call'[d].thread = threads'[p][i].id
        PROVE  p = Profile(d)' /\ threads'[p][i].session = Session[d]
    <3>1. d # c /\ call[d].thread # 0 /\ call'[d] = call[d]
      BY <1>1, <2>2, <2>3
    <3>2. p # Profile(c)
      BY <1>5, <2>3, <3>1
    <3> QED BY <1>3, <1>5, <2>3, <3>1, <3>2 DEF Safe, OwnThreads
  <2>4. ASSUME NEW d \in Calls, call'[d].thread # 0, NEW i \in DOMAIN threads'[Profile(d)'],
               threads'[Profile(d)'][i].session = Session[d]
        PROVE  threads'[Profile(d)'][i].id = call'[d].thread
    <3>1. d # c /\ call[d].thread # 0 /\ call'[d] = call[d]
      BY <1>1, <2>4
    <3>2. Profile(d)' = Profile(d) /\ Profile(d) # Profile(c) /\ Profile(d) \in ToSet(Profiles)
      BY <1>5, <3>1, ProfileIsOne
    <3>3. threads'[Profile(d)] = threads[Profile(d)]
      BY <1>3, <3>2
    <3> QED BY <2>4, <3>1, <3>2, <3>3 DEF Safe, OwnThreads
  <2> QED BY <2>1, <2>3, <2>4 DEF OwnThreads
<1> QED BY <1>2, <1>3, <1>6 DEF Safe, IsThreadMap

\* What happens around the calls leaves theirs alone.
LEMMA OthersAreSafe ==
    ASSUME Typed, Safe, Cool \/ OtherProcess \/ LeftTurnEnds \/ UNCHANGED vars
    PROVE  Typed' /\ Safe'
<1>1. UNCHANGED <<call, paid, threads>>
  BY DEF Cool, OtherProcess, LeftTurnEnds, vars, server
<1>2. /\ locked' \in [ToSet(Profiles) -> Calls \cup {Free, Cli}]
      /\ \A c \in Calls, p \in ToSet(Profiles) : locked[p] = c => locked'[p] = c
  <2>1. CASE UNCHANGED locked
    BY <2>1 DEF Typed
  <2>2. CASE OtherProcess
    <3>1. Free \notin Calls /\ Cli \notin Calls
      BY FrontierAssumption DEF Free, Cli
    <3> QED BY <2>2, <3>1 DEF OtherProcess, Typed
  <2> QED BY <2>1, <2>2 DEF Cool, LeftTurnEnds, vars
<1>3. \A c \in Calls : Profile(c)' = Profile(c)
  BY <1>1 DEF Profile
<1>4. LocksHeld'
  BY <1>1, <1>2, <1>3, ProfileIsOne DEF Safe, LocksHeld
<1>5. Typed' /\ PaidOnce'
  BY <1>1, <1>2 DEF Typed, Safe, PaidOnce, Entered
<1>6. OwnThreads'
  BY <1>1, <1>3 DEF Safe, OwnThreads
<1> QED BY <1>1, <1>4, <1>5, <1>6 DEF Safe, IsThreadMap

-----------------------------------------------------------------------------
(***************************************************************************)
(* The results.                                                            *)
(***************************************************************************)
\* The inductive invariant.
IInv == Typed /\ Safe

\* It holds at first ...
LEMMA InitInvariant == Init => IInv
<1> SUFFICES ASSUME Init PROVE IInv
  OBVIOUS
<1>1. \A c \in Calls : call[c] = NoCall
  BY DEF Init
<1>2. call \in [Calls -> CallType] /\ \A c \in Calls : Sound(call[c])
  BY <1>1, NoCallIsSound DEF Init
<1>3. locked \in [ToSet(Profiles) -> Calls \cup {Free, Cli}]
  BY DEF Init
<1>4. IsThreadMap(threads)
  BY FrontierAssumption DEF Init
<1>5. NoCall.at = "new" /\ ~NoCall.entered /\ NoCall.thread = 0
  BY DEF NoCall
<1>6. PaidOnce /\ LocksHeld
  <2>1. Entered = {}
    BY <1>1, <1>5 DEF Entered
  <2>2. IsFiniteSet(Entered)
    BY <2>1, FS_EmptySet
  <2> QED BY <1>1, <1>5, <2>1, <2>2 DEF Init, PaidOnce, LocksHeld, Holding, Serving
<1>7. OwnThreads
  BY <1>1, <1>4, <1>5, IdsAreThreads DEF OwnThreads
<1> QED BY <1>2, <1>3, <1>4, <1>6, <1>7 DEF IInv, Typed, Safe

\* ... and every step keeps it.
LEMMA StepInvariant == IInv /\ [Next]_vars => IInv'
<1> SUFFICES ASSUME IInv, [Next]_vars PROVE IInv'
  OBVIOUS
<1> USE DEF IInv
<1>1. ASSUME NEW c \in Calls, Step(c) \/ Cancel(c) PROVE IInv'
  BY <1>1, EndsAreSafe, LockIsSafe, OpenIsSafe, ServingIsSafe, TurnEndIsSafe DEF Step
<1>2. CASE Cool \/ OtherProcess \/ LeftTurnEnds \/ Rest \/ UNCHANGED vars
  BY <1>2, OthersAreSafe DEF Rest
<1> QED BY <1>1, <1>2 DEF Next

\* The inductive invariant holds in every behaviour.
THEOREM Invariance == Spec => []IInv
BY InitInvariant, StepInvariant, PTL DEF Spec

\* However many calls, sessions and profiles there are, and whatever thread map an earlier
\* run left: a thread serves one session on one profile and one call at a time, through
\* evictions, interrupts and retries (frontier.py, _app_server_key and profile_lock).
THEOREM ThreadsStaySeparate == Spec => []ThreadsAreSeparate
<1>1. IInv => ThreadsAreSeparate
  <2> SUFFICES ASSUME IInv PROVE ThreadsAreSeparate
    OBVIOUS
  <2>1. DOMAIN threads = ToSet(Profiles)
    BY DEF IInv, Safe, IsThreadMap
  <2>2. \A p \in ToSet(Profiles) : \A i, j \in DOMAIN threads[p] :
           i # j => threads[p][i].session # threads[p][j].session
    BY DEF IInv, Safe, IsThreadMap
  <2> QED BY <2>1, <2>2 DEF IInv, Safe, IsThreadMap, OwnThreads, ThreadsAreSeparate
<1> QED BY <1>1, Invariance, PTL

\* With any profiles, any number of retries and any number of remembered ids: one call of
\* a correlation id sends billable requests, no more than it may repeat, until more ids
\* than are remembered were taken; and a call that has asked Codex sends them only when
\* all profiles failed in a way another identity may heal or the last one fell silent
\* (frontier.py, _run and _openrouter).
THEOREM MoneyIsTheLastResort == Spec => []PaidIsLastResort
<1>1. IInv => PaidIsLastResort
  <2> SUFFICES ASSUME IInv PROVE PaidIsLastResort
    OBVIOUS
  <2>1. \A c \in Calls : /\ call[c].posts \in 0..(Retries + 1)
                         /\ call[c].posts > 0 => call[c].entered /\ Warranted(call[c].fate)
    BY DEF IInv, Typed, Sound, CallType
  <2> QED BY <2>1 DEF IInv, Safe, PaidOnce, PaidIsLastResort, Warranted
<1> QED BY <1>1, Invariance, PTL

=============================================================================
