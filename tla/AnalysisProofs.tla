--------------------------- MODULE AnalysisProofs ---------------------------
(***************************************************************************)
(* What an analysis of a source guarantees for any specification, scene,   *)
(* video, provider and limits.                                             *)
(***************************************************************************)
EXTENDS AnalysisRun, TLAPS, FiniteSetTheorems

-----------------------------------------------------------------------------
(* A set of numbers that holds zero and every successor holds them all,    *)
(* because a smallest one it misses would have no predecessor.             *)
LEMMA LeastNat ==
  ASSUME NEW X, X \subseteq Nat, X # {}
  PROVE  \E x \in X : \A y \in X : x <= y
<1>1. IsWellFoundedOn(OpToRel(<, Nat), Nat)
  BY NatLessThanWellFounded
<1>2. PICK x \in X : \A y \in X : ~(<<y, x>> \in OpToRel(<, Nat))
  BY <1>1, WFMin
<1>3. \A y \in X : ~(y < x)
  BY <1>2 DEF OpToRel
<1>4. QED
  BY <1>3

LEMMA Induct ==
  ASSUME NEW X, X \subseteq Nat, 0 \in X, \A n \in X : n + 1 \in X
  PROVE  X = Nat
<1> SUFFICES ASSUME Nat \ X # {} PROVE FALSE
  OBVIOUS
<1>1. PICK x \in Nat \ X : \A y \in Nat \ X : x <= y
  BY LeastNat
<1>2. x - 1 \in X
  BY <1>1
<1>3. QED
  BY <1>1, <1>2

-----------------------------------------------------------------------------
(* One more is the next multiple.                                          *)
LEMMA NextMultiple ==
  ASSUME NEW d \in Nat \ {0}, NEW s \in Nat, s % d = 0
  PROVE  (s + d) % d = 0
<1> DEFINE p == s \div d
           q == (s + d) \div d
           r == (s + d) % d
           k == q - p - 1
<1>1. p \in Int /\ q \in Int /\ r \in Int /\ s = d * p /\ s + d = d * q + r /\ 0 <= r /\ r < d
  OBVIOUS
<1> HIDE DEF p, q, r
<1>2. k \in Int /\ d * k = -r
  BY <1>1
<1> HIDE DEF k
<1>3. ~(k >= 1)
  <2> SUFFICES ASSUME k >= 1 PROVE FALSE
    OBVIOUS
  <2>1. d * k >= d
    BY <1>2
  <2>2. QED
    BY <1>1, <1>2, <2>1
<1>4. ~(k <= -1)
  <2> SUFFICES ASSUME k <= -1 PROVE FALSE
    OBVIOUS
  <2>1. d * k <= -d
    BY <1>2
  <2>2. QED
    BY <1>1, <1>2, <2>1
<1>5. k = 0
  BY <1>2, <1>3, <1>4
<1>6. r = 0
  BY <1>1, <1>2, <1>5
<1>7. QED
  BY <1>6 DEF r

-----------------------------------------------------------------------------
(* FlattenSeq, whose recursive function exists, one element at a time, and *)
(* is the only one.                                                        *)
Flattens(g, ss) ==
    \A i \in 1..Len(ss) : g[i] = IF i = 1 THEN ss[i] ELSE g[i - 1] \o ss[i]

LEMMA FlattenExists ==
  ASSUME NEW E, NEW ss \in Seq(Seq(E))
  PROVE  \E g \in [1..Len(ss) -> Seq(E)] : Flattens(g, ss)
<1> DEFINE Part(n) == {g \in [1..n -> Seq(E)] :
                          \A i \in 1..n : g[i] = IF i = 1 THEN ss[i] ELSE g[i - 1] \o ss[i]}
           Reached == {n \in Nat : n <= Len(ss) => Part(n) # {}}
<1>1. 0 \in Reached
  <2>1. [i \in 1..0 |-> <<>>] \in Part(0)
    OBVIOUS
  <2>2. QED
    BY <2>1
<1>2. ASSUME NEW n \in Reached PROVE n + 1 \in Reached
  <2>0. n \in Nat
    OBVIOUS
  <2> SUFFICES ASSUME n + 1 <= Len(ss) PROVE Part(n + 1) # {}
    <3> HIDE DEF Part
    <3>1. QED
      BY <2>0
  <2>1. PICK g \in Part(n) : TRUE
    BY <2>0
  <2>2. g \in [1..n -> Seq(E)] /\ \A i \in 1..n : g[i] = IF i = 1 THEN ss[i] ELSE g[i - 1] \o ss[i]
    BY <2>1
  <2>3. ss[n + 1] \in Seq(E)
    BY <2>0
  <2> DEFINE last == IF n = 0 THEN ss[n + 1] ELSE g[n] \o ss[n + 1]
             h == [i \in 1..(n + 1) |-> IF i = n + 1 THEN last ELSE g[i]]
  <2>4. last \in Seq(E)
    <3>1. CASE n = 0
      BY <2>3, <3>1
    <3>2. CASE n # 0
      <4>1. g[n] \in Seq(E)
        BY <2>0, <2>2, <3>2
      <4>2. QED
        BY <4>1, <2>3, <3>2
    <3>3. QED
      BY <3>1, <3>2
  <2>5. h \in [1..(n + 1) -> Seq(E)]
    <3> HIDE DEF last
    <3>1. QED
      BY <2>0, <2>2, <2>4
  <2>6. ASSUME NEW i \in 1..(n + 1)
        PROVE  h[i] = IF i = 1 THEN ss[i] ELSE h[i - 1] \o ss[i]
    <3>1. CASE i = n + 1
      BY <3>1, <2>0
    <3>2. CASE i # n + 1
      <4>1. i \in 1..n /\ (i # 1 => i - 1 \in 1..n)
        BY <3>2, <2>0
      <4> HIDE DEF last
      <4>2. h[i] = g[i] /\ (i # 1 => h[i - 1] = g[i - 1])
        BY <4>1, <2>0
      <4>3. QED
        BY <4>1, <4>2, <2>2
    <3>3. QED
      BY <3>1, <3>2
  <2>7. h \in Part(n + 1)
    BY <2>5, <2>6
  <2>8. QED
    BY <2>7
<1>3. Reached = Nat
  <2> HIDE DEF Reached
  <2>1. Reached \subseteq Nat
    BY DEF Reached
  <2>2. QED
    BY <1>1, <1>2, <2>1, Induct
<1>4. Part(Len(ss)) # {}
  <2> HIDE DEF Part
  <2>1. Len(ss) \in Reached
    BY <1>3
  <2>2. QED
    BY <2>1
<1>5. QED
  BY <1>4 DEF Flattens

Agree(ss, tt, n) == \A i \in 1..n : ss[i] = tt[i]

LEMMA FlattenUnique ==
  ASSUME NEW ss, NEW tt, NEW g, NEW h, NEW n \in Nat, Len(ss) \in Nat, Len(tt) \in Nat,
         n <= Len(ss), n <= Len(tt), Agree(ss, tt, n),
         Flattens(g, ss), Flattens(h, tt)
  PROVE  Agree(g, h, n)
<1> USE DEF Agree
<1> DEFINE Reached == {m \in Nat : m \in 1..n => g[m] = h[m]}
<1>1. 0 \in Reached
  OBVIOUS
<1>2. ASSUME NEW m \in Reached PROVE m + 1 \in Reached
  <2> SUFFICES ASSUME m + 1 \in 1..n PROVE g[m + 1] = h[m + 1]
    OBVIOUS
  <2>1. m + 1 \in 1..Len(ss) /\ m + 1 \in 1..Len(tt) /\ ss[m + 1] = tt[m + 1]
    OBVIOUS
  <2>2. /\ g[m + 1] = IF m + 1 = 1 THEN ss[m + 1] ELSE g[m + 1 - 1] \o ss[m + 1]
        /\ h[m + 1] = IF m + 1 = 1 THEN tt[m + 1] ELSE h[m + 1 - 1] \o tt[m + 1]
    BY <2>1 DEF Flattens
  <2>3. m + 1 - 1 = m /\ (m + 1 # 1 => g[m] = h[m])
    OBVIOUS
  <2>4. QED
    BY <2>1, <2>2, <2>3
<1>3. Reached = Nat
  <2> HIDE DEF Reached
  <2>1. Reached \subseteq Nat
    BY DEF Reached
  <2>2. QED
    BY <1>1, <1>2, <2>1, Induct
<1>4. QED
  BY <1>3

LEMMA FlattenSeqIs ==
  ASSUME NEW E, NEW ss \in Seq(Seq(E)), ss # <<>>
  PROVE  \E g \in [1..Len(ss) -> Seq(E)] : Flattens(g, ss) /\ S!FlattenSeq(ss) = g[Len(ss)]
<1> DEFINE Rec(g) == [i \in 1..Len(ss) |-> IF i = 1 THEN ss[i] ELSE g[i - 1] \o ss[i]]
           f == CHOOSE g : g = Rec(g)
<1>0. Len(ss) # 0
  OBVIOUS
<1>1. S!FlattenSeq(ss) = f[Len(ss)]
  BY <1>0 DEF S!FlattenSeq
<1>2. PICK g \in [1..Len(ss) -> Seq(E)] : Flattens(g, ss)
  BY FlattenExists
<1>3. g = Rec(g)
  BY <1>2 DEF Flattens
<1>4. f = Rec(f)
  <2> HIDE DEF Rec
  <2>1. QED
    BY <1>3
<1>5. Flattens(f, ss)
  <2> HIDE DEF f
  <2>1. QED
    BY <1>4 DEF Flattens
<1>6. Agree(f, g, Len(ss))
  <2> HIDE DEF f
  <2>1. Len(ss) \in Nat /\ Len(ss) <= Len(ss) /\ Agree(ss, ss, Len(ss))
    BY DEF Agree
  <2>2. QED
    BY <1>2, <1>5, <2>1, FlattenUnique, Zenon
<1>7. QED
  <2> HIDE DEF f
  <2>1. Len(ss) \in 1..Len(ss)
    BY <1>0
  <2>2. QED
    BY <1>1, <1>2, <1>6, <2>1 DEF Agree

LEMMA FlattenType ==
  ASSUME NEW E, NEW ss \in Seq(Seq(E))
  PROVE  S!FlattenSeq(ss) \in Seq(E)
<1>1. CASE ss = <<>>
  BY <1>1 DEF S!FlattenSeq
<1>2. CASE ss # <<>>
  <2>1. PICK g \in [1..Len(ss) -> Seq(E)] : Flattens(g, ss) /\ S!FlattenSeq(ss) = g[Len(ss)]
    BY <1>2, FlattenSeqIs
  <2>2. Len(ss) \in 1..Len(ss)
    BY <1>2
  <2>3. QED
    BY <2>1, <2>2
<1>3. QED
  BY <1>1, <1>2

LEMMA AppendIs ==
  ASSUME NEW D, NEW ss \in Seq(D), NEW s \in D
  PROVE  /\ Append(ss, s) \in Seq(D) /\ Append(ss, s) # <<>>
         /\ Len(Append(ss, s)) = Len(ss) + 1 /\ Len(ss) \in Nat
         /\ \A i \in 1..Len(ss) : Append(ss, s)[i] = ss[i]
         /\ Append(ss, s)[Len(ss) + 1] = s
OBVIOUS

LEMMA FlattenAppend ==
  ASSUME NEW E, NEW ss \in Seq(Seq(E)), NEW s \in Seq(E)
  PROVE  S!FlattenSeq(Append(ss, s)) = S!FlattenSeq(ss) \o s
<1> DEFINE tt == Append(ss, s)
           n == Len(ss)
<1>0. /\ tt \in Seq(Seq(E)) /\ tt # <<>> /\ Len(tt) = n + 1 /\ n \in Nat
      /\ \A i \in 1..n : ss[i] = tt[i]
      /\ tt[n + 1] = s
  BY AppendIs
<1> HIDE DEF tt, n
<1>1. PICK h \in [1..Len(tt) -> Seq(E)] : Flattens(h, tt) /\ S!FlattenSeq(tt) = h[Len(tt)]
  BY <1>0, FlattenSeqIs
<1>2. PICK k \in 1..Len(tt) : k = Len(tt)
  BY <1>0
<1>3. k \in Nat /\ n \in Nat /\ k = n + 1 /\ k - 1 = n /\ tt[k] = s
  BY <1>0, <1>2
<1>4. h[k] = IF k = 1 THEN s ELSE h[k - 1] \o s
  <2>1. h[k] = IF k = 1 THEN tt[k] ELSE h[k - 1] \o tt[k]
    BY <1>1 DEF Flattens
  <2>2. QED
    BY <1>3, <2>1
<1>5. CASE ss = <<>>
  <2>1. n = 0 /\ S!FlattenSeq(ss) = <<>>
    BY <1>5 DEF S!FlattenSeq, n
  <2>2. S!FlattenSeq(tt) = s
    BY <1>1, <1>2, <1>3, <1>4, <2>1
  <2>3. QED
    BY <2>1, <2>2 DEF tt
<1>6. CASE ss # <<>>
  <2>1. PICK g \in [1..Len(ss) -> Seq(E)] : Flattens(g, ss) /\ S!FlattenSeq(ss) = g[Len(ss)]
    BY <1>6, FlattenSeqIs
  <2>2. Agree(g, h, n)
    <3>1. n <= Len(ss) /\ n <= Len(tt) /\ Len(tt) \in Nat /\ Len(ss) \in Nat
      BY <1>0 DEF n
    <3>2. n \in Nat /\ Agree(ss, tt, n) /\ Flattens(g, ss) /\ Flattens(h, tt)
      BY <1>0, <1>1, <2>1 DEF Agree
    <3>3. QED
      BY <3>1, <3>2, FlattenUnique, Zenon
  <2>3. n \in 1..n /\ k # 1 /\ n = Len(ss)
    <3>1. n # 0
      BY <1>6 DEF n
    <3>2. QED
      BY <1>3, <3>1 DEF n
  <2>4. S!FlattenSeq(tt) = g[n] \o s
    <3>1. S!FlattenSeq(tt) = h[k] /\ h[k - 1] = g[n]
      BY <1>1, <1>2, <1>3, <2>2, <2>3 DEF Agree
    <3>2. QED
      BY <1>4, <2>3, <3>1
  <2>5. QED
    BY <2>1, <2>3, <2>4, Zenon DEF tt
<1>7. QED
  BY <1>5, <1>6

-----------------------------------------------------------------------------
(* The semantic engine, whose steps are the only ones of its runs.         *)

SemanticTypes ==
    /\ spec \in Specs /\ video \in Videos
    /\ start \in Nat /\ requests \in Nat /\ attempt \in Nat
    /\ coverage \in Seq([from : Int, to : Int])
    /\ usage \in [calls : Int, failed : Int, retried : Int]

(* The recorded usage is that of the requests so far, but for those of the *)
(* window under way; of every window that is done one did not fail.        *)
Recorded(failures) ==
    usage.calls = requests /\ usage.failed = failures /\ usage.retried = failures

Accounted ==
    /\ pc \in {"begin", "open"} => requests = 0 /\ coverage = <<>> /\ Recorded(0)
    /\ pc \in {"window", "finish"} => Recorded(requests - Len(coverage))
    /\ pc \in {"attempt", "waiting"} =>
          /\ usage.calls + attempt = requests
          /\ usage.failed = usage.calls - Len(coverage) /\ usage.retried = usage.failed
          /\ pc = "waiting" => attempt > 0
    /\ pc \in {"accepted", "build", "built", "publishing", "covered"} =>
          Recorded(requests - Len(coverage) - 1)

Budgeted ==
    /\ requests <= S!MaxCalls
    /\ phase = "completed" => pc = "done" /\ Recorded(requests - Len(coverage))
    /\ Accounted

InWindow == pc \in {"window", "attempt", "waiting", "accepted", "build", "built",
                    "publishing", "covered"}
Answered == pc \in {"accepted", "build", "built", "publishing", "covered"}

(* An answer is accepted for a window only when it is valid.               *)
Sound(answer, s) ==
    /\ answer \in WindowAnswers(spec.ids)
    /\ S!Valid(answer, S!WindowEnd(s) - s)
    /\ S!IsInjective(spec.ids)

Assessed ==
    /\ InWindow \/ pc = "finish" => S!ConfigurationOK /\ S!SourceOK
    /\ \A s \in DOMAIN accepted : s \in Nat /\ Sound(accepted[s], s)
    /\ Answered => start \in DOMAIN accepted

(* The windows follow one another from the start of the source.            *)
Covered ==
    /\ \A i \in 1..(Len(coverage) - 1) : coverage[i].to = coverage[i + 1].from
    /\ \A i \in 1..Len(coverage) : coverage[i].from \in DOMAIN accepted
    /\ coverage # <<>> => coverage[1].from = 0
    /\ pc \in {"begin", "open"} => coverage = <<>> /\ start = 0
    /\ InWindow =>
          /\ start \in S!WindowStarts
          /\ IF coverage = <<>> THEN start = 0 ELSE coverage[Len(coverage)].to = start
          /\ \A i \in 1..Len(coverage) : coverage[i].from < start
    /\ pc = "finish" \/ phase = "completed" =>
          coverage # <<>> /\ coverage[Len(coverage)].to = video.duration

(* What a covered window contributes to the published events.              *)
Contribution == [i \in 1..Len(coverage) |->
                    S!Findings(accepted[coverage[i].from], coverage[i].from)]

Ordered ==
    /\ pc \in {"begin", "open", "window", "attempt", "waiting", "finish"} \/ phase = "completed" =>
          published = S!FlattenSeq(Contribution)
    /\ Answered =>
          published \o queue = S!FlattenSeq(Contribution) \o S!Findings(accepted[start], start)
    /\ pc = "covered" => queue = <<>>

(* An event of a window that was assessed, inside it.                      *)
Event == [rule : STRING, window : Nat, from : Int, to : Int,
          decision : {"inconclusive", "candidate"}]

Inside(s) ==
    {e \in Event : /\ e.rule \in S!ToSet(spec.ids) /\ e.window = s
                   /\ s <= e.from /\ e.from < e.to /\ e.to <= S!WindowEnd(s)}

Proper == UNION {Inside(s) : s \in DOMAIN accepted}

Whole ==
    /\ published \in Seq(Proper) /\ queue \in Seq(Proper)
    /\ pc \in {"build", "built", "publishing"} => queue # <<>>

SemanticInv ==
    engine = "semantic" =>
        SemanticTypes /\ Budgeted /\ Assessed /\ Covered /\ Whole /\ Ordered

LEMMA Calls ==
  ASSUME SemanticTypes
  PROVE  /\ spec.calls \in Nat /\ spec.window \in Nat \ {0} /\ spec.stride \in Nat \ {0}
         /\ video.duration \in Int
         /\ S!MaxCalls \in Nat
         /\ S!MaxCalls <= HardCalls /\ S!MaxCalls <= spec.calls /\ S!MaxCalls <= GuardCalls
BY AnalysisAssumption DEF SemanticTypes, S!MaxCalls, S!Low

LEMMA WindowEndType ==
  ASSUME SemanticTypes, NEW s \in Int
  PROVE  S!WindowEnd(s) \in Int
BY Calls DEF S!WindowEnd, S!Low

(* What a window's requests add to the usage.                              *)
LEMMA RecordedIs ==
  ASSUME SemanticTypes, NEW k \in Nat, NEW good \in BOOLEAN
  PROVE  /\ S!Recorded(k, good) \in [calls : Int, failed : Int, retried : Int]
         /\ S!Recorded(k, good).calls = usage.calls + k
         /\ S!Recorded(k, good).failed = usage.failed + (IF good THEN k - 1 ELSE k)
         /\ S!Recorded(k, good).retried = usage.retried + (IF k > 0 THEN k - 1 ELSE 0)
BY DEF SemanticTypes, S!Recorded

(* What a step may do to each of them.                                     *)
LEMMA SemanticSteps ==
  ASSUME [S!Next]_(S!vars)
  PROVE  /\ spec' = spec /\ video' = video
         /\ requests' = requests \/ requests' = requests + 1
         /\ attempt' = attempt \/ attempt' = attempt + 1 \/ attempt' = 0
         /\ usage' = usage \/ \E good \in BOOLEAN : usage' = S!Recorded(attempt, good)
         /\ start' = start \/ start' = start + spec.stride
         /\ \/ coverage' = coverage
            \/ coverage' = Append(coverage, [from |-> start, to |-> S!WindowEnd(start)])
<1> USE DEF S!Next, S!vars, S!run, S!Program, S!Provider, S!Begin, S!Open, S!Clip, S!Attempt, S!Accept,
            S!Build, S!Publish, S!Upsert, S!Cover, S!Finish, S!Halt, S!Fatal, S!Answer, S!Refused,
            S!TaskCancelled, S!CancelRun, S!DeadlineIs, S!FencedOut
<1>1. spec' = spec /\ video' = video
  OBVIOUS
<1>2. requests' = requests \/ requests' = requests + 1
  OBVIOUS
<1>3. attempt' = attempt \/ attempt' = attempt + 1 \/ attempt' = 0
  OBVIOUS
<1>4. usage' = usage \/ \E good \in BOOLEAN : usage' = S!Recorded(attempt, good)
  OBVIOUS
<1>5. start' = start \/ start' = start + spec.stride
  OBVIOUS
<1>6. \/ coverage' = coverage
      \/ coverage' = Append(coverage, [from |-> start, to |-> S!WindowEnd(start)])
  OBVIOUS
<1>7. QED
  BY <1>1, <1>2, <1>3, <1>4, <1>5, <1>6

LEMMA SemanticTypesStep == SemanticTypes /\ [S!Next]_(S!vars) => SemanticTypes'
<1> SUFFICES ASSUME SemanticTypes, [S!Next]_(S!vars) PROVE SemanticTypes'
  OBVIOUS
<1>1. usage' \in [calls : Int, failed : Int, retried : Int]
  <2>1. usage \in [calls : Int, failed : Int, retried : Int] /\ attempt \in Nat
    BY DEF SemanticTypes
  <2>2. QED
    BY <2>1, RecordedIs, SemanticSteps
<1>2. coverage' \in Seq([from : Int, to : Int])
  <2> DEFINE last == [from |-> start, to |-> S!WindowEnd(start)]
  <2>1. start \in Int
    BY DEF SemanticTypes
  <2>2. last \in [from : Int, to : Int]
    BY <2>1, WindowEndType
  <2>3. coverage \in Seq([from : Int, to : Int])
    BY DEF SemanticTypes
  <2>4. coverage' = coverage \/ coverage' = Append(coverage, last)
    BY SemanticSteps
  <2> DEFINE D == [from : Int, to : Int]
  <2>5. last \in D /\ coverage \in Seq(D)
    BY <2>2, <2>3
  <2> HIDE DEF last, D
  <2>6. coverage' \in Seq(D)
    BY <2>4, <2>5
  <2>7. QED
    BY <2>6 DEF D
<1>3. QED
  <2>1. start' \in Nat
    BY Calls, SemanticSteps DEF SemanticTypes
  <2>2. requests' \in Nat /\ attempt' \in Nat
    BY SemanticSteps DEF SemanticTypes
  <2>3. QED
    BY <1>1, <1>2, <2>1, <2>2, SemanticSteps DEF SemanticTypes

(* Every request is recorded in the end, and the one that answered a       *)
(* window is the only one of its requests that did not fail.               *)
LEMMA BudgetStep == SemanticTypes /\ Budgeted /\ [S!Next]_(S!vars) => Budgeted'
<1> SUFFICES ASSUME SemanticTypes, Budgeted, [S!Next]_(S!vars) PROVE Budgeted'
  OBVIOUS
<1>1. /\ requests \in Nat /\ attempt \in Nat /\ Len(coverage) \in Nat
      /\ usage.calls \in Int /\ usage.failed \in Int /\ usage.retried \in Int
      /\ S!MaxCalls \in Nat /\ S!MaxCalls' = S!MaxCalls
  BY Calls, SemanticSteps DEF SemanticTypes, S!MaxCalls
<1> DEFINE Quiet == UNCHANGED <<requests, attempt, coverage, usage>>
           Ended == phase' # "completed" /\ pc' = "done" /\ requests' = requests
<1>2. CASE Ended
  BY <1>1, <1>2 DEF Budgeted, Accounted
<1>3. CASE /\ Quiet /\ phase' = phase /\ pc # "done"
           /\ \/ pc' = pc
              \/ pc = "begin" /\ pc' = "open"
              \/ pc = "open" /\ pc' = "window"
              \/ /\ pc \in {"accepted", "build", "built", "publishing"}
                 /\ pc' \in {"build", "built", "publishing", "covered"}
              \/ pc = "waiting" /\ pc' = "attempt"
  BY <1>1, <1>3 DEF Budgeted, Accounted, Recorded
<1>4. CASE Quiet /\ phase' = phase /\ pc' = pc
  BY <1>1, <1>4 DEF Budgeted, Accounted, Recorded
<1>5. CASE S!Clip
  BY <1>1, <1>2, <1>5 DEF S!Clip, S!End, Budgeted, Accounted, Recorded
<1>6. CASE S!Attempt
  <2>1. CASE S!MayRequest
    <3>1. requests + 1 <= S!MaxCalls
      BY <1>1, <2>1 DEF S!MayRequest
    <3>2. /\ requests' = requests + 1 /\ attempt' = attempt + 1 /\ pc' = "waiting" /\ phase' = phase
          /\ usage' = usage /\ coverage' = coverage /\ pc = "attempt"
      BY <1>6, <2>1 DEF S!Attempt
    <3>3. QED
      BY <1>1, <3>1, <3>2 DEF Budgeted, Accounted
  <2>2. CASE ~S!MayRequest
    BY <1>2, <1>6, <2>2 DEF S!Attempt, S!End
  <2>3. QED
    BY <2>1, <2>2
<1>7. CASE S!Answer
  <2>1. CASE phase' = phase /\ pc' = "accepted"
    <3>1. /\ usage'.calls = usage.calls + attempt
          /\ usage'.failed = usage.failed + attempt - 1
          /\ usage'.retried = usage.retried + attempt - 1
      <4>1. attempt > 0 /\ usage' = S!Recorded(attempt, TRUE)
        BY <1>7 DEF S!Answer, Budgeted, Accounted
      <4>2. QED
        BY <1>1, <4>1, RecordedIs
    <3>2. pc = "waiting" /\ requests' = requests /\ coverage' = coverage
      BY <1>7 DEF S!Answer
    <3>3. Recorded(requests - Len(coverage) - 1)'
      BY <1>1, <3>1, <3>2 DEF Budgeted, Accounted, Recorded
    <3>4. QED
      BY <1>1, <2>1, <3>2, <3>3 DEF Budgeted, Accounted
  <2>2. CASE ~(phase' = phase /\ pc' = "accepted")
    BY <1>2, <1>7, <2>2 DEF S!Answer, S!End
  <2>3. QED
    BY <2>1, <2>2
<1>8. CASE S!Cover
  BY <1>1, <1>2, <1>8 DEF S!Cover, S!End, Budgeted, Accounted, Recorded, SemanticTypes
<1>9. CASE S!Finish
  BY <1>1, <1>9 DEF S!Finish, S!End, Budgeted, Accounted, Recorded
<1>10. CASE S!Halt \/ S!Fatal \/ S!TaskCancelled \/ \E status \in Statuses : S!Refused(status)
  BY <1>2, <1>3, <1>10 DEF S!Halt, S!Fatal, S!TaskCancelled, S!Refused, S!End
<1>11. CASE S!Begin \/ S!Open \/ S!Accept \/ S!Build \/ S!Publish \/ S!Upsert
  <2>1. CASE S!Begin
    BY <1>2, <1>3, <2>1 DEF S!Begin, S!End
  <2>2. CASE S!Open
    BY <1>2, <1>3, <2>2 DEF S!Open, S!End
  <2>3. CASE S!Accept \/ S!Publish
    BY <1>3, <2>3 DEF S!Accept, S!Publish
  <2>4. CASE S!Build
    BY <1>2, <1>3, <2>4 DEF S!Build, S!End
  <2>5. CASE S!Upsert
    BY <1>2, <1>3, <2>5 DEF S!Upsert, S!End
  <2>6. QED
    BY <1>11, <2>1, <2>2, <2>3, <2>4, <2>5
<1>12. CASE S!CancelRun \/ S!DeadlineIs \/ S!FencedOut \/ UNCHANGED S!vars
  BY <1>4, <1>12 DEF S!CancelRun, S!DeadlineIs, S!FencedOut, S!vars, S!run
<1>13. QED
  BY <1>5, <1>6, <1>7, <1>8, <1>9, <1>10, <1>11, <1>12 DEF S!Next, S!Program, S!Provider

(* The engine is chosen once, and only its own steps change its run.       *)
LEMMA SemanticStepOnly ==
  ASSUME [Next]_vars
  PROVE  engine' = engine /\ (engine = "semantic" => [S!Next]_(S!vars))
<1>1. CASE Next
  BY <1>1 DEF Next, TrackedStep, SemanticStep, ReasoningStep, ProposalStep
<1>2. CASE UNCHANGED vars
  BY <1>2 DEF vars, semantic, S!vars, S!run, S!env
<1>3. QED
  BY <1>1, <1>2

BudgetInv == engine = "semantic" => SemanticTypes /\ Budgeted

LEMMA BudgetInvCorrect == Spec => []BudgetInv
<1>1. Init => BudgetInv
  <2> SUFFICES ASSUME S!Init PROVE SemanticTypes /\ Budgeted
    BY DEF Init, BudgetInv
  <2>1. SemanticTypes
    BY DEF S!Init, SemanticTypes
  <2>2. QED
    BY <2>1, Calls DEF S!Init, Budgeted, Accounted, Recorded
<1>2. BudgetInv /\ [Next]_vars => BudgetInv'
  BY SemanticStepOnly, SemanticTypesStep, BudgetStep DEF BudgetInv
<1>3. QED
  BY <1>1, <1>2, PTL DEF Spec

(* However its requests are answered, refused or retried, the semantic     *)
(* engine makes no more of them than its own limit, the specification and  *)
(* the run allow, and what a completed run reports as used is what it used *)
(* (before_attempt, record_call).                                          *)
THEOREM RequestsAreBudgeted == Spec => []RequestsStayInBudget
<1>1. BudgetInv => RequestsStayInBudget
  <2> SUFFICES ASSUME SemanticTypes, Budgeted PROVE S!RequestsStayInBudget
    BY DEF BudgetInv, RequestsStayInBudget
  <2>1. requests <= HardCalls /\ requests <= spec.calls /\ requests <= GuardCalls
    BY Calls, AnalysisAssumption DEF SemanticTypes, Budgeted
  <2>2. QED
    BY <2>1 DEF S!RequestsStayInBudget, Budgeted, Recorded
<1>2. QED
  BY <1>1, BudgetInvCorrect, PTL

-----------------------------------------------------------------------------
(* The events of a valid answer, and of no other.                          *)
LEMMA SeqIs ==
  ASSUME NEW D, NEW n \in Nat, NEW f \in [1..n -> D]
  PROVE  f \in Seq(D)
OBVIOUS

LEMMA SeqGrows ==
  ASSUME NEW C, NEW D, C \subseteq D, NEW s \in Seq(C)
  PROVE  s \in Seq(D)
<1>1. s \in [1..Len(s) -> D] /\ Len(s) \in Nat
  OBVIOUS
<1>2. QED
  BY <1>1

LEMMA ElementIn ==
  ASSUME NEW D, NEW s \in Seq(D), NEW i \in DOMAIN s
  PROVE  s[i] \in D
OBVIOUS

Finding == [from : Int, to : Int]
Assessment == [id : STRING, decision : STRING, events : Seq(Finding)]

LEMMA AnswerType ==
  ASSUME SemanticTypes, NEW answer \in WindowAnswers(spec.ids)
  PROVE  answer \in Seq(Assessment)
BY AnalysisAssumption DEF SemanticTypes, Assessment, Finding

LEMMA FindingsInside ==
  ASSUME SemanticTypes, NEW s \in Nat, NEW answer \in WindowAnswers(spec.ids),
         S!Valid(answer, S!WindowEnd(s) - s)
  PROVE  S!Findings(answer, s) \in Seq(Inside(s))
<1> DEFINE row(i, j) == [rule |-> answer[i].id, window |-> s,
             from |-> s + answer[i].events[j].from, to |-> s + answer[i].events[j].to,
             decision |-> IF answer[i].decision = "uncertain" THEN "inconclusive" ELSE "candidate"]
           rows(i) == [j \in DOMAIN answer[i].events |-> row(i, j)]
           all == [i \in DOMAIN answer |-> rows(i)]
           D == Inside(s)
<1>1. answer \in Seq(Assessment) /\ S!WindowEnd(s) \in Int
  BY AnswerType, WindowEndType
<1>2. ASSUME NEW i \in DOMAIN answer, NEW j \in DOMAIN answer[i].events
      PROVE  row(i, j) \in D
  <2>1. /\ answer[i].id \in STRING /\ answer[i].events \in Seq(Finding)
        /\ answer[i].events[j].from \in Int /\ answer[i].events[j].to \in Int
    <3>1. answer[i] \in Assessment
      BY <1>1, ElementIn
    <3>2. answer[i].id \in STRING /\ answer[i].events \in Seq(Finding)
      BY <3>1 DEF Assessment
    <3>3. answer[i].events[j] \in Finding
      BY <3>2, ElementIn
    <3>4. QED
      BY <3>2, <3>3 DEF Finding
  <2>2. answer[i] \in S!ToSet(answer) /\ answer[i].events[j] \in S!ToSet(answer[i].events)
    BY DEF S!ToSet
  <2>3. /\ answer[i].events[j].from >= 0
        /\ answer[i].events[j].from < answer[i].events[j].to
        /\ answer[i].events[j].to <= S!WindowEnd(s) - s
    BY <2>2 DEF S!Valid, S!WellFormed
  <2>4. answer[i].id \in S!ToSet(spec.ids)
    BY <2>2 DEF S!Valid
  <2>5. row(i, j) \in Event
    BY <2>1 DEF Event
  <2>6. /\ row(i, j).rule = answer[i].id /\ row(i, j).window = s
        /\ row(i, j).from = s + answer[i].events[j].from
        /\ row(i, j).to = s + answer[i].events[j].to
    OBVIOUS
  <2>7. s <= row(i, j).from /\ row(i, j).from < row(i, j).to /\ row(i, j).to <= S!WindowEnd(s)
    <3> DEFINE a == answer[i].events[j].from
               b == answer[i].events[j].to
               end == S!WindowEnd(s)
    <3>1. a \in Int /\ b \in Int /\ end \in Int /\ a >= 0 /\ a < b /\ b <= end - s
      BY <1>1, <2>1, <2>3
    <3>2. row(i, j).from = s + a /\ row(i, j).to = s + b
      BY <2>6
    <3> HIDE DEF a, b, end, row
    <3>3. QED
      BY <3>1, <3>2 DEF end
  <2> HIDE DEF row
  <2>8. QED
    BY <2>4, <2>5, <2>6, <2>7 DEF Inside
<1>3. ASSUME NEW i \in DOMAIN answer PROVE rows(i) \in Seq(D)
  <2>1. Len(answer[i].events) \in Nat /\ DOMAIN answer[i].events = 1..Len(answer[i].events)
    BY <1>1
  <2> HIDE DEF row, D
  <2>2. rows(i) \in [1..Len(answer[i].events) -> D]
    BY <1>2, <2>1
  <2> HIDE DEF rows
  <2>3. QED
    BY <2>1, <2>2, SeqIs
<1>4. all \in Seq(Seq(D))
  <2>1. Len(answer) \in Nat /\ DOMAIN answer = 1..Len(answer)
    BY <1>1
  <2> HIDE DEF rows, D
  <2>2. all \in [1..Len(answer) -> Seq(D)]
    BY <1>3, <2>1
  <2> HIDE DEF all
  <2>3. QED
    BY <2>1, <2>2, SeqIs
<1>5. S!Findings(answer, s) = S!FlattenSeq(all)
  BY DEF S!Findings
<1>6. QED
  <2> HIDE DEF all, D
  <2>1. S!FlattenSeq(all) \in Seq(D)
    BY <1>4, FlattenType
  <2>2. QED
    BY <1>5, <2>1 DEF D

(* As many answers as conditions, and each condition's among them: each    *)
(* condition's once.                                                       *)
LEMMA EachOnce ==
  ASSUME SemanticTypes, S!IsInjective(spec.ids), NEW answer \in WindowAnswers(spec.ids), NEW length,
         S!Valid(answer, length), NEW id \in S!ToSet(spec.ids)
  PROVE  S!Cardinality({i \in DOMAIN answer : answer[i].id = id}) = 1
<1> DEFINE n == Len(answer)
           ids == S!ToSet(spec.ids)
           f == [i \in 1..n |-> answer[i].id]
           C == {i \in DOMAIN answer : answer[i].id = id}
<1>1. answer \in Seq(Assessment) /\ spec.ids \in Seq(STRING)
  BY AnswerType, AnalysisAssumption DEF SemanticTypes
<1>2. n \in Nat /\ DOMAIN answer = 1..n /\ DOMAIN spec.ids = 1..n
  BY <1>1 DEF S!Valid
<1>3. IsFiniteSet(1..n) /\ Cardinality(1..n) = n
  <2> HIDE DEF n
  <2>1. 1 \in Int /\ n \in Int /\ (IF 1 > n THEN 0 ELSE n - 1 + 1) = n
    BY <1>2
  <2>2. QED
    BY <2>1, FS_Interval
<1>4. Cardinality(ids) = n
  <2>1. spec.ids \in Injection(1..n, ids)
    <3>1. spec.ids \in [1..n -> ids]
      BY <1>1, <1>2 DEF S!ToSet
    <3>2. IsInjective(spec.ids)
      BY DEF IsInjective, S!IsInjective
    <3> HIDE DEF ids, n
    <3>3. QED
      BY <3>1, <3>2 DEF Injection
  <2>2. spec.ids \in Surjection(1..n, ids)
    BY <1>1, <1>2 DEF Surjection, S!ToSet
  <2>3. Cardinality(ids) = Cardinality(1..n)
    BY <1>3, <2>1, <2>2, FS_Surjection
  <2>4. QED
    BY <1>3, <2>3
<1>5. f \in Surjection(1..n, ids)
  <2>1. {a.id : a \in S!ToSet(answer)} = ids
    BY DEF S!Valid
  <2>2. \A i \in 1..n : answer[i].id \in ids
    BY <1>2, <2>1 DEF S!ToSet
  <2>3. \A t \in ids : \E i \in 1..n : answer[i].id = t
    BY <1>2, <2>1 DEF S!ToSet
  <2>4. QED
    BY <2>2, <2>3 DEF Surjection
<1>6. f \in Injection(1..n, ids)
  <2> HIDE DEF f, ids, n
  <2>1. QED
    BY <1>3, <1>4, <1>5, FS_Surjection
<1>7. PICK k \in 1..n : answer[k].id = id
  BY <1>5 DEF Surjection
<1>8. C = {k}
  BY <1>2, <1>6, <1>7 DEF Injection, IsInjective
<1>9. Cardinality(C) = 1
  <2> HIDE DEF C
  <2>1. QED
    BY <1>8, FS_Singleton
<1>10. S!Cardinality(C) = Cardinality(C)
  BY DEF S!Cardinality, Cardinality
<1>11. QED
  BY <1>9, <1>10

(* The specification and the video stay, so what they say of an answer     *)
(* does.                                                                   *)
LEMMA SoundStays ==
  ASSUME spec' = spec, video' = video
  PROVE  /\ \A answer, s : Sound(answer, s)' = Sound(answer, s)
         /\ \A s : Inside(s)' = Inside(s)
         /\ \A s : S!WindowEnd(s)' = S!WindowEnd(s)
         /\ S!ConfigurationOK' = S!ConfigurationOK /\ S!SourceOK' = S!SourceOK
<1>1. \A s : S!WindowEnd(s)' = S!WindowEnd(s)
  BY DEF S!WindowEnd
<1>2. \A answer, s : Sound(answer, s)' = Sound(answer, s)
  BY DEF Sound, S!Valid, S!WindowEnd
<1>3. \A s : Inside(s)' = Inside(s)
  BY DEF Inside, S!WindowEnd
<1>4. S!ConfigurationOK' = S!ConfigurationOK /\ S!SourceOK' = S!SourceOK
  BY DEF S!ConfigurationOK, S!SourceOK
<1>5. QED
  BY <1>1, <1>2, <1>3, <1>4

LEMMA AssessStep == SemanticTypes /\ Assessed /\ [S!Next]_(S!vars) => Assessed'
<1> SUFFICES ASSUME SemanticTypes, Assessed, [S!Next]_(S!vars) PROVE Assessed'
  OBVIOUS
<1>1. spec' = spec /\ video' = video
  BY SemanticSteps
<1>2. CASE accepted' = accepted /\ start' = start /\ pc' = "done"
  BY <1>1, <1>2, SoundStays DEF Assessed, InWindow, Answered
<1>3. CASE /\ accepted' = accepted /\ start' = start
           /\ Answered' => Answered
           /\ InWindow' \/ pc' = "finish" => InWindow \/ pc = "finish"
  BY <1>1, <1>3, SoundStays DEF Assessed
<1>4. CASE S!Answer
  <2>1. ASSUME NEW answer \in WindowAnswers(spec.ids), S!Valid(answer, S!WindowEnd(start) - start),
               accepted' = [s \in DOMAIN accepted \cup {start} |->
                                IF s = start THEN answer ELSE accepted[s]],
               pc' = "accepted"
        PROVE  Assessed'
    <3>1. pc = "waiting" /\ start' = start
      BY <1>4 DEF S!Answer
    <3>2. S!ConfigurationOK /\ S!SourceOK /\ start \in Nat
      BY <3>1 DEF Assessed, InWindow, SemanticTypes
    <3>3. Sound(answer, start)
      BY <2>1, <3>2 DEF Sound, S!ConfigurationOK
    <3>4. DOMAIN accepted' = DOMAIN accepted \cup {start}
      BY <2>1
    <3>5. ASSUME NEW s \in DOMAIN accepted' PROVE s \in Nat /\ Sound(accepted'[s], s)
      BY <2>1, <3>2, <3>3, <3>4, <3>5 DEF Assessed
    <3>6. ASSUME NEW s \in DOMAIN accepted' PROVE Sound(accepted[s], s)'
      BY <1>1, <3>5, SoundStays
    <3>7. QED
      BY <1>1, <2>1, <3>1, <3>2, <3>4, <3>5, <3>6, SoundStays DEF Assessed
  <2>2. CASE accepted' = accepted /\ pc' = "done"
    BY <1>2, <1>4, <2>2 DEF S!Answer
  <2>3. QED
    BY <1>4, <2>1, <2>2 DEF S!Answer, S!End
<1>5. CASE S!Open
  <2>1. CASE pc' = "window" /\ S!ConfigurationOK /\ S!SourceOK
    BY <1>1, <1>5, <2>1, SoundStays DEF S!Open, Assessed, InWindow, Answered
  <2>2. CASE pc' = "done"
    BY <1>2, <1>5, <2>2 DEF S!Open
  <2>3. QED
    BY <1>5, <2>1, <2>2 DEF S!Open, S!End
<1>6. CASE S!Cover
  BY <1>1, <1>6, SoundStays DEF S!Cover, S!End, Assessed, InWindow, Answered
<1>7. CASE S!Begin \/ S!Clip \/ S!Attempt \/ S!Accept \/ S!Build \/ S!Publish \/ S!Upsert
  <2> USE DEF InWindow, Answered
  <2>1. CASE S!Begin
    BY <1>2, <1>3, <2>1 DEF S!Begin, S!End
  <2>2. CASE S!Clip
    BY <1>2, <1>3, <2>2 DEF S!Clip, S!End
  <2>3. CASE S!Attempt
    BY <1>2, <1>3, <2>3 DEF S!Attempt, S!End
  <2>4. CASE S!Accept \/ S!Publish
    BY <1>3, <2>4 DEF S!Accept, S!Publish
  <2>5. CASE S!Build
    BY <1>2, <1>3, <2>5 DEF S!Build, S!End
  <2>6. CASE S!Upsert
    BY <1>2, <1>3, <2>6 DEF S!Upsert, S!End
  <2>7. QED
    BY <1>7, <2>1, <2>2, <2>3, <2>4, <2>5, <2>6
<1>8. CASE S!Halt \/ S!Finish \/ S!Fatal \/ S!TaskCancelled \/ \E status \in Statuses : S!Refused(status)
  BY <1>2, <1>3, <1>8
  DEF S!Halt, S!Finish, S!Fatal, S!TaskCancelled, S!Refused, S!End, InWindow, Answered
<1>9. CASE S!CancelRun \/ S!DeadlineIs \/ S!FencedOut \/ UNCHANGED S!vars
  BY <1>3, <1>9 DEF S!CancelRun, S!DeadlineIs, S!FencedOut, S!vars, S!run, InWindow, Answered
<1>10. QED
  BY <1>4, <1>5, <1>6, <1>7, <1>8, <1>9 DEF S!Next, S!Program, S!Provider

LEMMA QueueSteps ==
  ASSUME NEW D, NEW q \in Seq(D), q # <<>>
  PROVE  /\ Head(q) \in D /\ Tail(q) \in Seq(D)
         /\ Len(q) \in Nat /\ (Len(q) # 1 => Tail(q) # <<>>) /\ (Len(q) = 1 => Tail(q) = <<>>)
<1>1. Head(q) \in D /\ Tail(q) \in Seq(D) /\ Len(q) \in Nat /\ Len(Tail(q)) = Len(q) - 1
  OBVIOUS
<1>2. \A t \in Seq(D) : t = <<>> <=> Len(t) = 0
  OBVIOUS
<1>3. QED
  <2> DEFINE t == Tail(q)
  <2>1. t = <<>> <=> Len(t) = 0
    BY <1>1, <1>2
  <2> HIDE DEF t
  <2>2. t = <<>> <=> Len(q) = 1
    BY <1>1, <2>1 DEF t
  <2>3. QED
    BY <1>1, <2>2 DEF t

(* What is published or waits to be is of answers that were accepted.      *)
LEMMA WholeStep == SemanticTypes /\ Assessed /\ Whole /\ [S!Next]_(S!vars) => Whole'
<1> SUFFICES ASSUME SemanticTypes, Assessed, Whole, [S!Next]_(S!vars) PROVE Whole'
  OBVIOUS
<1> DEFINE Now == Proper
           Then == Proper'
<1>1. spec' = spec /\ video' = video /\ published \in Seq(Now) /\ queue \in Seq(Now)
  BY SemanticSteps DEF Whole
<1>2. ASSUME DOMAIN accepted \subseteq DOMAIN accepted' PROVE Now \subseteq Then
  BY <1>1, <1>2, SoundStays DEF Proper
<1>3. CASE /\ accepted' = accepted /\ published' = published /\ queue' = queue
           /\ pc' \in {"build", "built", "publishing"} => queue # <<>>
  <2>1. Now \subseteq Then
    BY <1>2, <1>3
  <2> HIDE DEF Now, Then
  <2>2. published' \in Seq(Then) /\ queue' \in Seq(Then)
    BY <1>1, <1>3, <2>1, SeqGrows
  <2>3. QED
    BY <1>3, <2>2 DEF Whole, Then
<1>4. CASE S!Answer
  <2>1. ASSUME NEW answer \in WindowAnswers(spec.ids), S!Valid(answer, S!WindowEnd(start) - start),
               accepted' = [s \in DOMAIN accepted \cup {start} |->
                                IF s = start THEN answer ELSE accepted[s]],
               queue' = S!Findings(answer, start), pc' = "accepted"
        PROVE  Whole'
    <3>1. DOMAIN accepted' = DOMAIN accepted \cup {start} /\ start \in Nat /\ published' = published
      BY <1>4, <2>1 DEF S!Answer, SemanticTypes
    <3>2. Now \subseteq Then
      BY <1>2, <3>1
    <3>3. Inside(start) \subseteq Then
      BY <1>1, <3>1, SoundStays DEF Proper
    <3>4. S!Findings(answer, start) \in Seq(Inside(start))
      BY <2>1, <3>1, FindingsInside
    <3> DEFINE In == Inside(start)
    <3> HIDE DEF Now, Then, In
    <3>5. published' \in Seq(Then)
      BY <1>1, <3>1, <3>2, SeqGrows
    <3>6. In \subseteq Then /\ queue' \in Seq(In)
      BY <2>1, <3>3, <3>4 DEF In
    <3>7. queue' \in Seq(Then)
      BY <3>6, SeqGrows
    <3>8. QED
      BY <2>1, <3>5, <3>7 DEF Whole, Then
  <2>2. CASE accepted' = accepted /\ queue' = queue /\ pc' = "done"
    BY <1>3, <1>4, <2>2 DEF S!Answer
  <2>3. QED
    BY <1>4, <2>1, <2>2 DEF S!Answer, S!End
<1>5. CASE S!Upsert
  <2>1. queue # <<>> /\ accepted' = accepted
    BY <1>5 DEF S!Upsert, Whole
  <2>2. Now \subseteq Then
    BY <1>2, <2>1
  <2>3. CASE writer
    <3>1. /\ published' = Append(published, Head(queue)) /\ queue' = Tail(queue)
          /\ pc' = IF Len(queue) = 1 THEN "covered" ELSE "build"
      BY <1>5, <2>3 DEF S!Upsert
    <3> HIDE DEF Now, Then
    <3>2. Head(queue) \in Now /\ Tail(queue) \in Seq(Now) /\ (Len(queue) # 1 => Tail(queue) # <<>>)
      BY <1>1, <2>1, QueueSteps
    <3>3. Append(published, Head(queue)) \in Seq(Now)
      BY <1>1, <3>2, AppendIs
    <3>4. published' \in Seq(Then) /\ queue' \in Seq(Then)
      BY <2>2, <3>1, <3>2, <3>3, SeqGrows
    <3>5. QED
      BY <3>1, <3>2, <3>4 DEF Whole, Then
  <2>4. CASE ~writer
    BY <1>3, <1>5, <2>1, <2>4 DEF S!Upsert, S!End
  <2>5. QED
    BY <2>3, <2>4
<1>6. CASE S!Begin \/ S!Open \/ S!Clip \/ S!Attempt \/ S!Accept \/ S!Build \/ S!Publish \/ S!Cover
  <2>1. CASE S!Begin \/ S!Open
    BY <1>3, <2>1 DEF S!Begin, S!Open, S!End
  <2>2. CASE S!Clip \/ S!Attempt
    BY <1>3, <2>2 DEF S!Clip, S!Attempt, S!End
  <2>3. CASE S!Accept
    BY <1>3, <2>3 DEF S!Accept
  <2>4. CASE S!Build \/ S!Publish
    BY <1>3, <2>4 DEF S!Build, S!Publish, S!End, Whole
  <2>5. CASE S!Cover
    BY <1>3, <2>5 DEF S!Cover, S!End
  <2>6. QED
    BY <1>6, <2>1, <2>2, <2>3, <2>4, <2>5
<1>7. CASE S!Halt \/ S!Finish \/ S!Fatal \/ S!TaskCancelled \/ \E status \in Statuses : S!Refused(status)
  BY <1>3, <1>7 DEF S!Halt, S!Finish, S!Fatal, S!TaskCancelled, S!Refused, S!End
<1>8. CASE S!CancelRun \/ S!DeadlineIs \/ S!FencedOut \/ UNCHANGED S!vars
  BY <1>3, <1>8 DEF S!CancelRun, S!DeadlineIs, S!FencedOut, S!vars, S!run, Whole
<1>9. QED
  BY <1>4, <1>5, <1>6, <1>7, <1>8 DEF S!Next, S!Program, S!Provider

WholeInv == engine = "semantic" => SemanticTypes /\ Assessed /\ Whole

LEMMA WholeInvCorrect == Spec => []WholeInv
<1>1. Init => WholeInv
  <2> SUFFICES ASSUME S!Init PROVE SemanticTypes /\ Assessed /\ Whole
    BY DEF Init, WholeInv
  <2>1. QED
    BY DEF S!Init, SemanticTypes, Assessed, InWindow, Answered, Whole
<1>2. WholeInv /\ [Next]_vars => WholeInv'
  BY SemanticStepOnly, SemanticTypesStep, AssessStep, WholeStep DEF WholeInv
<1>3. QED
  BY <1>1, <1>2, PTL DEF Spec

(* Whatever the provider answers, a published event names a condition of   *)
(* the specification, lies inside its window, and is of an answer that     *)
(* covers every condition once (_validate).                                *)
THEOREM EventsAreOfWholeAnswers == Spec => []EventsComeFromWholeAnswers
<1>1. WholeInv => EventsComeFromWholeAnswers
  <2> SUFFICES ASSUME SemanticTypes, Assessed, Whole, NEW e \in S!ToSet(published)
               PROVE  /\ e.rule \in S!ToSet(spec.ids)
                      /\ e.window <= e.from /\ e.from < e.to /\ e.to <= S!WindowEnd(e.window)
                      /\ \A id \in S!ToSet(spec.ids) :
                          S!Cardinality({i \in DOMAIN accepted[e.window] :
                                            accepted[e.window][i].id = id}) = 1
    BY DEF WholeInv, EventsComeFromWholeAnswers, S!EventsComeFromWholeAnswers
  <2>1. e \in Proper
    <3> DEFINE D == Proper
    <3>1. published \in Seq(D)
      BY DEF Whole
    <3> HIDE DEF D
    <3>2. e \in D
      BY <3>1 DEF S!ToSet
    <3>3. QED
      BY <3>2 DEF D
  <2>2. PICK s \in DOMAIN accepted : e \in Inside(s)
    BY <2>1 DEF Proper
  <2>3. /\ e.rule \in S!ToSet(spec.ids) /\ e.window = s
        /\ s <= e.from /\ e.from < e.to /\ e.to <= S!WindowEnd(s)
    BY <2>2 DEF Inside
  <2>4. Sound(accepted[s], s)
    BY DEF Assessed
  <2>5. \A id \in S!ToSet(spec.ids) :
          S!Cardinality({i \in DOMAIN accepted[s] : accepted[s][i].id = id}) = 1
    BY <2>4, EachOnce DEF Sound
  <2>6. QED
    BY <2>3, <2>5
<1>2. QED
  BY <1>1, WholeInvCorrect, PTL

-----------------------------------------------------------------------------
(* The windows of a run follow one another to the end of the video.        *)
LEMMA AppendNext ==
  ASSUME NEW s \in Nat, SemanticTypes, Covered, s = start, pc = "covered", Assessed,
         coverage' = Append(coverage, [from |-> s, to |-> S!WindowEnd(s)])
  PROVE  /\ coverage' # <<>> /\ Len(coverage') = Len(coverage) + 1 /\ Len(coverage) \in Nat
         /\ coverage'[Len(coverage')].to = S!WindowEnd(s)
         /\ coverage'[1].from = 0
         /\ \A i \in 1..(Len(coverage') - 1) : coverage'[i].to = coverage'[i + 1].from
         /\ \A i \in 1..Len(coverage') : coverage'[i].from \in DOMAIN accepted
         /\ \A i \in 1..Len(coverage') : coverage'[i].from <= s
<1> DEFINE D == [from : Int, to : Int]
           n == Len(coverage)
           last == [from |-> s, to |-> S!WindowEnd(s)]
<1>1. last \in D /\ coverage \in Seq(D)
  BY WindowEndType DEF SemanticTypes
<1>2. /\ IF coverage = <<>> THEN s = 0 ELSE coverage[n].to = s
      /\ \A i \in 1..n : coverage[i].from < s
      /\ \A i \in 1..(n - 1) : coverage[i].to = coverage[i + 1].from
      /\ \A i \in 1..n : coverage[i].from \in DOMAIN accepted
      /\ coverage # <<>> => coverage[1].from = 0
      /\ s \in DOMAIN accepted
  BY DEF Covered, Assessed, InWindow, Answered
<1>3. /\ coverage' # <<>> /\ Len(coverage') = n + 1 /\ n \in Nat
      /\ \A i \in 1..n : coverage'[i] = coverage[i]
      /\ coverage'[n + 1] = last
  <2> HIDE DEF last, D, n
  <2>1. coverage' = Append(coverage, last)
    BY DEF last
  <2>2. QED
    BY <1>1, <2>1, AppendIs DEF n
<1>4. last.from = s /\ last.to = S!WindowEnd(s)
  OBVIOUS
<1>5. n # 0 <=> coverage # <<>>
  <2> HIDE DEF D
  <2>1. QED
    BY <1>1
<1> HIDE DEF last, n, D
<1>6. \A i \in 1..Len(coverage') : i \in 1..n \/ i = n + 1
  BY <1>3
<1>7. coverage'[1].from = 0
  <2>1. CASE n = 0
    BY <1>2, <1>3, <1>4, <1>5, <2>1
  <2>2. CASE n # 0
    <3>1. 1 \in 1..n
      BY <1>3, <2>2
    <3>2. QED
      BY <1>2, <1>3, <1>5, <2>2, <3>1
  <2>3. QED
    BY <2>1, <2>2
<1>8. ASSUME NEW i \in 1..(Len(coverage') - 1)
      PROVE  coverage'[i].to = coverage'[i + 1].from
  <2>1. i \in 1..n
    BY <1>3
  <2>2. CASE i = n
    BY <1>2, <1>3, <1>4, <1>5, <2>1, <2>2
  <2>3. CASE i # n
    <3>1. i \in 1..(n - 1) /\ i + 1 \in 1..n
      BY <1>3, <2>1, <2>3
    <3>2. QED
      BY <1>2, <1>3, <2>1, <3>1
  <2>4. QED
    BY <2>2, <2>3
<1>9. ASSUME NEW i \in 1..Len(coverage')
      PROVE  coverage'[i].from \in DOMAIN accepted /\ coverage'[i].from <= s
  <2>1. CASE i \in 1..n
    <3>1. i \in DOMAIN coverage
      BY <1>1, <2>1 DEF n
    <3>2. coverage[i] \in D
      BY <1>1, <3>1, ElementIn
    <3>3. coverage[i].from \in Int
      BY <3>2 DEF D
    <3>4. QED
      BY <1>2, <1>3, <2>1, <3>3
  <2>2. CASE i = n + 1
    BY <1>2, <1>3, <1>4, <2>2
  <2>3. QED
    BY <1>6, <2>1, <2>2
<1>10. QED
  BY <1>3, <1>4, <1>7, <1>8, <1>9 DEF n

(* When the next start is none of a window, this one ends with the video.  *)
LEMMA NextWindow ==
  ASSUME SemanticTypes, start \in S!WindowStarts, S!ConfigurationOK
  PROVE  IF start + spec.stride \in S!WindowStarts
         THEN S!WindowEnd(start) = start + spec.stride
         ELSE S!WindowEnd(start) = video.duration
<1>1. /\ start \in Nat /\ spec.stride \in Nat \ {0} /\ video.duration \in Int
      /\ spec.window = spec.stride /\ start % spec.stride = 0
  BY Calls DEF SemanticTypes, S!ConfigurationOK, S!WindowStarts
<1>2. (start + spec.stride) % spec.stride = 0
  BY <1>1, NextMultiple
<1>3. start + spec.stride \in S!WindowStarts <=> start + spec.stride <= video.duration - 1
  BY <1>1, <1>2 DEF S!WindowStarts
<1>4. QED
  BY <1>1, <1>3 DEF S!WindowEnd, S!Low

LEMMA CoverStep ==
  SemanticTypes /\ Budgeted /\ Assessed /\ Covered /\ [S!Next]_(S!vars) => Covered'
<1> SUFFICES ASSUME SemanticTypes, Budgeted, Assessed, Covered, [S!Next]_(S!vars) PROVE Covered'
  OBVIOUS
<1>1. /\ spec' = spec /\ video' = video /\ S!WindowStarts' = S!WindowStarts
      /\ phase = "completed" => pc = "done"
  BY SemanticSteps DEF S!WindowStarts, Budgeted
<1>2. CASE /\ coverage' = coverage /\ start' = start /\ DOMAIN accepted \subseteq DOMAIN accepted'
           /\ phase' = "completed" => phase = "completed" \/ pc = "finish"
           /\ InWindow' => InWindow
           /\ pc' = "finish" => pc = "finish"
           /\ pc' \in {"begin", "open"} => pc \in {"begin", "open"}
  <2>1. S!WindowStarts' = S!WindowStarts /\ video' = video
    BY <1>1
  <2> HIDE DEF InWindow
  <2>2. QED
    BY <1>2, <2>1 DEF Covered
<1>3. CASE S!Open
  <2>1. CASE pc' = "window" /\ S!ConfigurationOK /\ S!SourceOK /\ phase' = phase
    <3>1. coverage' = <<>> /\ start' = 0 /\ phase # "completed" /\ pc' = "window"
      BY <1>1, <1>3, <2>1 DEF S!Open, Covered
    <3>2. 0 \in S!WindowStarts
      <4>1. spec.stride \in Nat \ {0} /\ video.duration \in Int /\ 0 < video.duration
        BY <2>1, Calls DEF S!SourceOK
      <4>2. 0 % spec.stride = 0
        BY <4>1
      <4>3. QED
        BY <4>1, <4>2 DEF S!WindowStarts
    <3>3. Len(coverage') = 0
      BY <3>1
    <3>4. QED
      BY <1>1, <2>1, <3>1, <3>2, <3>3 DEF Covered, InWindow
  <2>2. CASE pc' = "done" /\ phase' = "failed"
    BY <1>2, <1>3, <2>2 DEF S!Open, InWindow
  <2>3. QED
    BY <1>3, <2>1, <2>2 DEF S!Open, S!End
<1>4. CASE S!Cover
  <2> DEFINE s == start
  <2>1. /\ pc = "covered" /\ s \in Nat /\ accepted' = accepted
        /\ coverage' = Append(coverage, [from |-> s, to |-> S!WindowEnd(s)])
    BY <1>4 DEF S!Cover, SemanticTypes
  <2>2. /\ coverage' # <<>> /\ Len(coverage') = Len(coverage) + 1 /\ Len(coverage) \in Nat
        /\ coverage'[Len(coverage')].to = S!WindowEnd(s)
        /\ coverage'[1].from = 0
        /\ \A i \in 1..(Len(coverage') - 1) : coverage'[i].to = coverage'[i + 1].from
        /\ \A i \in 1..Len(coverage') : coverage'[i].from \in DOMAIN accepted
        /\ \A i \in 1..Len(coverage') : coverage'[i].from <= s
    BY <2>1, AppendNext
  <2>3. s \in S!WindowStarts /\ S!ConfigurationOK /\ spec.stride \in Nat \ {0}
    BY <2>1, Calls DEF Covered, Assessed, InWindow
  <2>4. CASE writer /\ s + spec.stride \in S!WindowStarts
    <3>1. start' = s + spec.stride /\ pc' = "window" /\ phase' = phase /\ phase # "completed"
      BY <1>1, <1>4, <2>1, <2>4 DEF S!Cover
    <3>2. S!WindowEnd(s) = s + spec.stride
      BY <2>3, <2>4, NextWindow
    <3>3. ASSUME NEW i \in 1..Len(coverage') PROVE coverage'[i].from < start'
      <4>1. coverage'[i].from <= s /\ coverage'[i].from \in Nat
        BY <2>2 DEF Assessed
      <4>2. QED
        BY <2>1, <2>3, <3>1, <4>1
    <3>4. QED
      BY <1>1, <2>1, <2>2, <2>4, <3>1, <3>2, <3>3 DEF Covered, InWindow
  <2>5. CASE writer /\ s + spec.stride \notin S!WindowStarts
    <3>1. pc' = "finish" /\ phase' = phase
      BY <1>4, <2>5 DEF S!Cover
    <3>2. S!WindowEnd(s) = video.duration
      BY <2>3, <2>5, NextWindow
    <3>3. QED
      BY <1>1, <2>1, <2>2, <3>1, <3>2 DEF Covered, InWindow
  <2>6. CASE ~writer
    <3>1. pc' = "done" /\ phase' = "failed"
      BY <1>4, <2>6 DEF S!Cover, S!End
    <3>2. QED
      BY <1>1, <2>1, <2>2, <3>1 DEF Covered, InWindow
  <2>7. QED
    BY <2>4, <2>5, <2>6
<1>5. CASE S!Answer
  <2>1. DOMAIN accepted \subseteq DOMAIN accepted'
    BY <1>5 DEF S!Answer
  <2>2. /\ pc = "waiting" /\ coverage' = coverage /\ start' = start
        /\ \/ pc' = "accepted" /\ phase' = phase
           \/ pc' = "done" /\ phase' = "failed"
    BY <1>5 DEF S!Answer, S!End
  <2>3. QED
    BY <1>2, <2>1, <2>2 DEF InWindow
<1>6. CASE S!Begin \/ S!Clip \/ S!Attempt \/ S!Accept \/ S!Build \/ S!Publish \/ S!Upsert
  <2> USE DEF InWindow
  <2>1. CASE S!Begin
    BY <1>2, <2>1 DEF S!Begin, S!End
  <2>2. CASE S!Clip
    BY <1>2, <2>2 DEF S!Clip, S!End
  <2>3. CASE S!Attempt
    BY <1>2, <2>3 DEF S!Attempt, S!End
  <2>4. CASE S!Accept \/ S!Publish
    BY <1>2, <2>4 DEF S!Accept, S!Publish
  <2>5. CASE S!Build
    BY <1>2, <2>5 DEF S!Build, S!End
  <2>6. CASE S!Upsert
    BY <1>2, <2>6 DEF S!Upsert, S!End
  <2>7. QED
    BY <1>6, <2>1, <2>2, <2>3, <2>4, <2>5, <2>6
<1>7. CASE S!Halt \/ S!Finish \/ S!Fatal \/ S!TaskCancelled \/ \E status \in Statuses : S!Refused(status)
  BY <1>2, <1>7 DEF S!Halt, S!Finish, S!Fatal, S!TaskCancelled, S!Refused, S!End, InWindow
<1>8. CASE S!CancelRun \/ S!DeadlineIs \/ S!FencedOut \/ UNCHANGED S!vars
  BY <1>2, <1>8 DEF S!CancelRun, S!DeadlineIs, S!FencedOut, S!vars, S!run, InWindow
<1>9. QED
  BY <1>3, <1>4, <1>5, <1>6, <1>7, <1>8 DEF S!Next, S!Program, S!Provider

LEMMA UpsertKeeps ==
  ASSUME NEW D, NEW p \in Seq(D), NEW q \in Seq(D), q # <<>>
  PROVE  Append(p, Head(q)) \o Tail(q) = p \o q
OBVIOUS

LEMMA ContributionType ==
  ASSUME SemanticTypes, Assessed, Covered
  PROVE  Contribution \in Seq(Seq(Event))
<1> DEFINE n == Len(coverage)
           D == Seq(Event)
<1>1. n \in Nat
  BY DEF SemanticTypes
<1>2. ASSUME NEW i \in 1..n
      PROVE  S!Findings(accepted[coverage[i].from], coverage[i].from) \in D
  <2> DEFINE s == coverage[i].from
             In == Inside(s)
  <2>1. s \in DOMAIN accepted
    BY DEF Covered
  <2>2. s \in Nat /\ Sound(accepted[s], s)
    BY <2>1 DEF Assessed
  <2>3. S!Findings(accepted[s], s) \in Seq(In)
    BY <2>2, FindingsInside DEF Sound
  <2>4. In \subseteq Event
    BY DEF Inside
  <2> HIDE DEF In, s
  <2>5. S!Findings(accepted[s], s) \in Seq(Event)
    BY <2>3, <2>4, SeqGrows
  <2>6. QED
    BY <2>5 DEF s
<1> HIDE DEF D, n
<1>3. Contribution \in [1..n -> D]
  BY <1>2 DEF Contribution, n
<1>4. Contribution \in Seq(D)
  BY <1>1, <1>3, SeqIs
<1>5. QED
  BY <1>4 DEF D

(* The findings of the windows are published one by one, in their order.   *)
LEMMA OrderStep ==
  SemanticTypes /\ Budgeted /\ Assessed /\ Covered /\ Whole /\ Ordered /\ [S!Next]_(S!vars) => Ordered'
<1> SUFFICES ASSUME SemanticTypes, Budgeted, Assessed, Covered, Whole, Ordered, [S!Next]_(S!vars)
             PROVE  Ordered'
  OBVIOUS
<1> DEFINE Before == pc \in {"begin", "open", "window", "attempt", "waiting", "finish"}
           F == S!FlattenSeq(Contribution)
<1>1. phase = "completed" => pc = "done"
  BY DEF Budgeted
<1>2. CASE /\ coverage' = coverage /\ accepted' = accepted /\ published' = published
           /\ queue' = queue /\ start' = start
           /\ phase' = "completed" => phase = "completed" \/ Before
           /\ Before' => Before
           /\ Answered' => Answered
           /\ pc' = "covered" => queue = <<>>
  <2>1. Contribution' = Contribution
    BY <1>2 DEF Contribution
  <2> HIDE DEF Before, Answered
  <2>2. QED
    BY <1>2, <2>1 DEF Ordered, Before
<1>3. CASE S!Answer
  <2>1. ASSUME NEW answer \in WindowAnswers(spec.ids), S!Valid(answer, S!WindowEnd(start) - start),
               accepted' = [s \in DOMAIN accepted \cup {start} |->
                                IF s = start THEN answer ELSE accepted[s]],
               queue' = S!Findings(answer, start), pc' = "accepted", phase' = phase
        PROVE  Ordered'
    <3>1. /\ pc = "waiting" /\ start' = start /\ coverage' = coverage /\ published' = published
          /\ start \in Nat
      BY <1>3 DEF S!Answer, SemanticTypes
    <3>2. published = F /\ phase' # "completed"
      BY <1>1, <2>1, <3>1 DEF Ordered
    <3>3. \A i \in 1..Len(coverage) : accepted'[coverage[i].from] = accepted[coverage[i].from]
      <4> SUFFICES ASSUME NEW i \in 1..Len(coverage)
                   PROVE  accepted'[coverage[i].from] = accepted[coverage[i].from]
        OBVIOUS
      <4>1. coverage[i].from < start /\ coverage[i].from \in DOMAIN accepted /\ coverage[i].from \in Nat
        BY <3>1 DEF Covered, InWindow, Assessed
      <4>2. QED
        BY <2>1, <3>1, <4>1
    <3>4. Contribution' = Contribution
      BY <3>1, <3>3 DEF Contribution
    <3>5. accepted'[start] = answer
      BY <2>1
    <3> HIDE DEF F
    <3>6. published' \o queue' = F \o S!Findings(accepted'[start], start)
      BY <2>1, <3>1, <3>2, <3>5
    <3>7. QED
      BY <2>1, <3>1, <3>2, <3>4, <3>6 DEF Ordered, Answered, F
  <2>2. CASE accepted' = accepted /\ queue' = queue /\ pc' = "done" /\ phase' # "completed"
    BY <1>2, <1>3, <2>2 DEF S!Answer, Answered
  <2>3. QED
    BY <1>3, <2>1, <2>2 DEF S!Answer, S!End
<1>4. CASE S!Upsert
  <2>1. /\ pc = "publishing" /\ coverage' = coverage /\ accepted' = accepted /\ start' = start
        /\ queue # <<>>
    BY <1>4 DEF S!Upsert, Whole
  <2>2. CASE writer
    <3>1. /\ published' = Append(published, Head(queue)) /\ queue' = Tail(queue) /\ phase' = phase
          /\ pc' = IF Len(queue) = 1 THEN "covered" ELSE "build"
      BY <1>4, <2>2 DEF S!Upsert
    <3> DEFINE D == Proper
    <3>2. published \in Seq(D) /\ queue \in Seq(D)
      BY DEF Whole
    <3> HIDE DEF D
    <3>3. published' \o queue' = published \o queue
      BY <2>1, <3>1, <3>2, UpsertKeeps
    <3>4. Len(queue) = 1 => queue' = <<>>
      BY <2>1, <3>1, <3>2, QueueSteps
    <3>5. Contribution' = Contribution
      BY <2>1 DEF Contribution
    <3>6. published \o queue = F \o S!Findings(accepted[start], start)
      BY <2>1 DEF Ordered, Answered
    <3> HIDE DEF F
    <3>7. published' \o queue' = F' \o S!Findings(accepted'[start'], start')
      BY <2>1, <3>3, <3>5, <3>6 DEF F
    <3>8. pc' \in {"covered", "build"} /\ phase' # "completed" /\ (pc' = "covered" => queue' = <<>>)
      BY <1>1, <2>1, <3>1, <3>4
    <3>9. QED
      BY <3>7, <3>8 DEF Ordered, F
  <2>3. CASE ~writer
    BY <1>2, <1>4, <2>1, <2>3 DEF S!Upsert, S!End, Answered
  <2>4. QED
    BY <2>2, <2>3
<1>5. CASE S!Cover
  <2>1. /\ pc = "covered" /\ accepted' = accepted /\ published' = published /\ queue' = queue
        /\ coverage' = Append(coverage, [from |-> start, to |-> S!WindowEnd(start)])
        /\ pc' \in {"window", "finish", "done"} /\ phase' # "completed"
    BY <1>1, <1>5 DEF S!Cover, S!End
  <2> DEFINE last == S!Findings(accepted[start], start)
             D == Event
             C == Contribution
  <2>2. published \o queue = F \o last /\ queue = <<>> /\ start \in DOMAIN accepted
    BY <2>1 DEF Ordered, Answered, Assessed
  <2>3. published = F \o last
    <3> DEFINE Out == Proper
    <3>1. published \in Seq(Out)
      BY DEF Whole
    <3> HIDE DEF Out
    <3>2. published \o <<>> = published
      BY <3>1
    <3> HIDE DEF F, last
    <3>3. QED
      BY <2>2, <3>2
  <2>4. C \in Seq(Seq(D)) /\ last \in Seq(D)
    <3> DEFINE In == Inside(start)
    <3>1. start \in Nat /\ Sound(accepted[start], start)
      BY <2>2 DEF Assessed
    <3>2. last \in Seq(In)
      BY <3>1, FindingsInside DEF Sound
    <3>3. In \subseteq D
      BY DEF Inside
    <3> HIDE DEF In, D, last
    <3>4. last \in Seq(D)
      BY <3>2, <3>3, SeqGrows
    <3>5. QED
      BY <3>4, ContributionType DEF D
  <2>5. Contribution' = Append(C, last)
    <3> DEFINE n == Len(coverage)
               row == [from |-> start, to |-> S!WindowEnd(start)]
               E == [from : Int, to : Int]
    <3>1. start \in Nat /\ S!WindowEnd(start) \in Int
      BY WindowEndType DEF SemanticTypes
    <3>2. coverage \in Seq(E) /\ row \in E /\ coverage' = Append(coverage, row) /\ row.from = start
      BY <2>1, <3>1 DEF SemanticTypes
    <3> HIDE DEF E, row, D, last, C
    <3>3. /\ Len(coverage') = n + 1 /\ n \in Nat
          /\ \A i \in 1..n : coverage'[i] = coverage[i]
          /\ coverage'[n + 1] = row
      BY <3>2, AppendIs
    <3>4. Len(C) = n /\ \A i \in 1..n : C[i] = S!Findings(accepted[coverage[i].from], coverage[i].from)
      BY <3>3 DEF C, Contribution
    <3>5. /\ Append(C, last) \in Seq(Seq(D)) /\ Len(Append(C, last)) = n + 1
          /\ \A i \in 1..n : Append(C, last)[i] = C[i]
          /\ Append(C, last)[n + 1] = last
      <4> DEFINE Rows == Seq(D)
      <4>1. C \in Seq(Rows) /\ last \in Rows
        BY <2>4
      <4> HIDE DEF Rows, n
      <4>2. /\ Append(C, last) \in Seq(Rows) /\ Len(Append(C, last)) = Len(C) + 1
            /\ \A i \in 1..Len(C) : Append(C, last)[i] = C[i]
            /\ Append(C, last)[Len(C) + 1] = last
        BY <4>1, AppendIs
      <4>3. Len(C) = n
        BY <3>4
      <4>4. QED
        BY <4>2, <4>3 DEF Rows
    <3>6. Contribution' = [i \in 1..(n + 1) |->
                              S!Findings(accepted[coverage'[i].from], coverage'[i].from)]
      BY <2>1, <3>3 DEF Contribution
    <3>7. ASSUME NEW i \in 1..(n + 1)
          PROVE  S!Findings(accepted[coverage'[i].from], coverage'[i].from) = Append(C, last)[i]
      <4>1. CASE i \in 1..n
        BY <3>3, <3>4, <3>5, <4>1
      <4>2. CASE i = n + 1
        BY <3>2, <3>3, <3>5, <4>2 DEF last
      <4>3. i \in 1..n \/ i = n + 1
        BY <3>3
      <4>4. QED
        BY <4>1, <4>2, <4>3
    <3>8. Append(C, last) = [i \in 1..(n + 1) |-> Append(C, last)[i]]
      <4> DEFINE Rows == Seq(D)
                 rows == Append(C, last)
      <4>1. rows \in Seq(Rows) /\ Len(rows) = n + 1
        BY <3>5
      <4> HIDE DEF Rows, rows, n
      <4>2. rows = [i \in 1..Len(rows) |-> rows[i]]
        BY <4>1
      <4>3. QED
        BY <4>1, <4>2 DEF rows
    <3>9. QED
      BY <3>6, <3>7, <3>8
  <2>6. S!FlattenSeq(Append(C, last)) = S!FlattenSeq(C) \o last
    <3> HIDE DEF C, last, D
    <3>1. QED
      BY <2>4, FlattenAppend
  <2>7. published' = F'
    BY <2>1, <2>3, <2>5, <2>6
  <2>8. QED
    BY <2>1, <2>7 DEF Ordered, Answered
<1>6. CASE S!Begin \/ S!Open \/ S!Clip \/ S!Attempt \/ S!Accept \/ S!Build \/ S!Publish
  <2> USE DEF Answered
  <2>1. CASE S!Begin
    BY <1>2, <2>1 DEF S!Begin, S!End
  <2>2. CASE S!Open
    BY <1>2, <2>2 DEF S!Open, S!End
  <2>3. CASE S!Clip
    BY <1>2, <2>3 DEF S!Clip, S!End
  <2>4. CASE S!Attempt
    BY <1>2, <2>4 DEF S!Attempt, S!End
  <2>5. CASE S!Accept
    BY <1>2, <2>5 DEF S!Accept
  <2>6. CASE S!Build
    BY <1>2, <2>6 DEF S!Build, S!End
  <2>7. CASE S!Publish
    BY <1>2, <2>7 DEF S!Publish
  <2>8. QED
    BY <1>6, <2>1, <2>2, <2>3, <2>4, <2>5, <2>6, <2>7
<1>7. CASE S!Halt \/ S!Finish \/ S!Fatal \/ S!TaskCancelled \/ \E status \in Statuses : S!Refused(status)
  BY <1>2, <1>7 DEF S!Halt, S!Finish, S!Fatal, S!TaskCancelled, S!Refused, S!End, Answered
<1>8. CASE S!CancelRun \/ S!DeadlineIs \/ S!FencedOut \/ UNCHANGED S!vars
  BY <1>2, <1>8 DEF S!CancelRun, S!DeadlineIs, S!FencedOut, S!vars, S!run, Answered, Ordered
<1>9. QED
  BY <1>3, <1>4, <1>5, <1>6, <1>7, <1>8 DEF S!Next, S!Program, S!Provider

LEMMA SemanticInvCorrect == Spec => []SemanticInv
<1>1. Init => SemanticInv
  <2> SUFFICES ASSUME S!Init PROVE SemanticTypes /\ Budgeted /\ Assessed /\ Covered /\ Whole /\ Ordered
    BY DEF Init, SemanticInv
  <2>1. SemanticTypes
    BY DEF S!Init, SemanticTypes
  <2>2. Budgeted
    BY <2>1, Calls DEF S!Init, Budgeted, Accounted, Recorded
  <2>3. Assessed /\ Covered /\ Whole
    BY DEF S!Init, Assessed, Covered, InWindow, Answered, Whole
  <2>4. Ordered
    <3>1. Contribution = <<>> /\ S!FlattenSeq(<<>>) = <<>>
      BY DEF S!Init, Contribution, S!FlattenSeq
    <3>2. QED
      BY <3>1 DEF S!Init, Ordered, Answered
  <2>5. QED
    BY <2>1, <2>2, <2>3, <2>4
<1>2. SemanticInv /\ [Next]_vars => SemanticInv'
  BY SemanticStepOnly, SemanticTypesStep, BudgetStep, AssessStep, CoverStep, WholeStep, OrderStep
  DEF SemanticInv
<1>3. QED
  BY <1>1, <1>2, PTL DEF Spec

(* A completed run has assessed every condition in windows that cover the  *)
(* video without a hole, and published exactly their findings, in order,   *)
(* so what it does not report is absent (run, _validate).                  *)
THEOREM CompletedRunsAreAssessed == Spec => []CompletedIsAssessed
<1>1. SemanticInv => CompletedIsAssessed
  <2> SUFFICES ASSUME SemanticTypes, Assessed, Covered, Ordered, phase = "completed"
               PROVE  S!CompletedIsAssessed
    BY DEF SemanticInv, CompletedIsAssessed, S!CompletedIsAssessed
  <2>1. DOMAIN coverage = 1..Len(coverage) /\ Len(coverage) \in Nat
    BY DEF SemanticTypes
  <2>2. /\ coverage # <<>> /\ coverage[1].from = 0 /\ S!Last(coverage).to = video.duration
        /\ \A i \in 1..(Len(coverage) - 1) : coverage[i].to = coverage[i + 1].from
    BY DEF Covered, S!Last
  <2>3. ASSUME NEW c \in S!ToSet(coverage), NEW id \in S!ToSet(spec.ids)
        PROVE  \E a \in S!ToSet(accepted[c.from]) : a.id = id
    <3>1. c.from \in DOMAIN accepted
      BY <2>1 DEF Covered, S!ToSet
    <3>2. {a.id : a \in S!ToSet(accepted[c.from])} = S!ToSet(spec.ids)
      BY <3>1 DEF Assessed, Sound, S!Valid
    <3>3. QED
      BY <3>2
  <2>4. published = S!FlattenSeq([i \in DOMAIN coverage |->
                        S!Findings(accepted[coverage[i].from], coverage[i].from)])
    BY <2>1 DEF Ordered, Contribution
  <2>5. QED
    BY <2>2, <2>3, <2>4 DEF S!CompletedIsAssessed
<1>2. QED
  BY <1>1, SemanticInvCorrect, PTL

-----------------------------------------------------------------------------
(* The largest and the least of a few numbers.                             *)
LEMMA MaxOfTwo ==
  ASSUME NEW a \in Int, NEW b \in Int
  PROVE  P!Max({a, b}) = (IF a >= b THEN a ELSE b) /\ P!Min({a, b}) = (IF a <= b THEN a ELSE b)
<1>1. \E x \in {a, b} : \A y \in {a, b} : x >= y
  OBVIOUS
<1>2. P!Max({a, b}) \in {a, b} /\ \A y \in {a, b} : P!Max({a, b}) >= y
  BY <1>1 DEF P!Max
<1>3. \E x \in {a, b} : \A y \in {a, b} : x <= y
  OBVIOUS
<1>4. P!Min({a, b}) \in {a, b} /\ \A y \in {a, b} : P!Min({a, b}) <= y
  BY <1>3 DEF P!Min
<1>5. QED
  BY <1>2, <1>4

LEMMA MaxOfFour ==
  ASSUME NEW a \in Int, NEW b \in Int, NEW c \in Int, NEW d \in Int
  PROVE  P!Max({a, b, c, d}) \in Int
<1>1. \E x \in {a, b, c, d} : \A y \in {a, b, c, d} : x >= y
  OBVIOUS
<1>2. P!Max({a, b, c, d}) \in {a, b, c, d}
  BY <1>1 DEF P!Max
<1>3. QED
  BY <1>2

(* What is told in parts of a whole that divides the fine unit is          *)
(* normalized without a rest.                                              *)
LEMMA DividesExactly ==
  ASSUME NEW w \in Nat \ {0}, Fine \in Nat \ {0}, Fine % w = 0
  PROVE  \E m \in Nat \ {0} : Fine = m * w /\ \A v \in Int : (v * Fine) \div w = v * m
<1> DEFINE m == Fine \div w
<1>1. m \in Int /\ Fine = m * w
  OBVIOUS
<1> HIDE DEF m
<1>2. m \in Nat \ {0}
  <2>1. ~(m <= 0)
    <3> SUFFICES ASSUME m <= 0 PROVE FALSE
      OBVIOUS
    <3>1. m * w <= 0
      BY <1>1
    <3>2. QED
      BY <1>1, <3>1
  <2>2. QED
    BY <1>1, <2>1
<1>3. ASSUME NEW v \in Int PROVE (v * Fine) \div w = v * m
  <2> DEFINE k == v * m
             q == (k * w) \div w
             r == (k * w) % w
             e == q - k
  <2>1. k \in Int /\ v * Fine = k * w
    BY <1>1
  <2> HIDE DEF k
  <2>2. q \in Int /\ r \in Int /\ k * w = w * q + r /\ 0 <= r /\ r < w
    BY <2>1
  <2> HIDE DEF q, r
  <2>3. e \in Int /\ w * e = -r
    BY <2>1, <2>2
  <2> HIDE DEF e
  <2>4. ~(e >= 1)
    <3> SUFFICES ASSUME e >= 1 PROVE FALSE
      OBVIOUS
    <3>1. w * e >= w
      BY <2>3
    <3>2. QED
      BY <2>2, <2>3, <3>1
  <2>5. ~(e <= -1)
    <3> SUFFICES ASSUME e <= -1 PROVE FALSE
      OBVIOUS
    <3>1. w * e <= -w
      BY <2>3
    <3>2. QED
      BY <2>2, <2>3, <3>1
  <2>6. e = 0
    BY <2>3, <2>4, <2>5
  <2>7. q = k
    BY <2>1, <2>2, <2>6 DEF e
  <2>8. QED
    BY <2>1, <2>7 DEF q, k
<1>4. QED
  BY <1>1, <1>2, <1>3

-----------------------------------------------------------------------------
(* One number of a drawing whose numbers are guessed as they were meant.   *)
Sized(side) == side \in Nat /\ (side > 0 => Fine % (Unit * side) = 0)

LEMMA ScaledInPlace ==
  ASSUME NEW side, Sized(side), drawing.space \in {"normalized", "pixels", "thousand"},
         drawing.space = "pixels" => side > 0
  PROVE  /\ \A v \in Int : /\ P!Scaled(v, drawing.space, side) \in Int
                           /\ P!InPlace(P!Scaled(v, drawing.space, side), v, side)
         /\ \A a, b \in Int : a <= b => P!Scaled(a, drawing.space, side)
                                           <= P!Scaled(b, drawing.space, side)
<1> DEFINE w == P!Whole(side)
<1>1. w \in Nat \ {0} /\ Fine % w = 0
  <2>1. CASE drawing.space = "normalized"
    BY <2>1, DrawingsAssumption DEF P!Whole
  <2>2. CASE drawing.space = "thousand"
    BY <2>2, DrawingsAssumption DEF P!Whole
  <2>3. CASE drawing.space = "pixels"
    <3>1. side \in Nat \ {0} /\ Unit \in Nat \ {0} /\ Fine % (Unit * side) = 0
      BY <2>3, DrawingsAssumption DEF Sized
    <3>2. w = Unit * side
      BY <2>3 DEF P!Whole
    <3> HIDE DEF w
    <3>3. Unit * side \in Nat \ {0}
      BY <3>1
    <3>4. QED
      BY <3>1, <3>2, <3>3
  <2>4. QED
    BY <2>1, <2>2, <2>3
<1>2. Fine \in Nat \ {0} /\ Unit \in Nat \ {0} /\ side \in Nat
  BY DrawingsAssumption DEF Sized
<1>3. ASSUME NEW v \in Int
      PROVE  P!Scaled(v, drawing.space, side) = P!Clipped((v * Fine) \div w)
  <2>1. CASE drawing.space = "normalized"
    BY <2>1 DEF P!Scaled, P!Whole
  <2>2. CASE drawing.space = "thousand"
    BY <2>2 DEF P!Scaled, P!Whole
  <2>3. CASE drawing.space = "pixels"
    BY <2>3 DEF P!Scaled, P!Whole
  <2>4. QED
    BY <2>1, <2>2, <2>3
<1>4. ASSUME NEW x \in Int
      PROVE  P!Clipped(x) = IF x <= 0 THEN 0 ELSE IF x <= Fine THEN x ELSE Fine
  <2> DEFINE least == P!Min({Fine, x})
  <2>0. Fine \in Int /\ 0 \in Int
    BY <1>2
  <2>1. least = IF Fine <= x THEN Fine ELSE x
    BY <2>0, MaxOfTwo, Zenon
  <2>2. P!Clipped(x) = P!Max({0, least})
    BY DEF P!Clipped
  <2> HIDE DEF least
  <2>4. least \in Int
    BY <1>2, <2>1
  <2>3. P!Max({0, least}) = IF 0 >= least THEN 0 ELSE least
    BY <2>0, <2>4, MaxOfTwo, Zenon
  <2>5. QED
    BY <1>2, <2>1, <2>2, <2>3
<1> HIDE DEF w
<1>5. PICK m \in Nat \ {0} : Fine = m * w /\ \A v \in Int : (v * Fine) \div w = v * m
  BY <1>1, <1>2, DividesExactly, Zenon
<1> DEFINE to(v) == IF v * m <= 0 THEN 0 ELSE IF v * m <= Fine THEN v * m ELSE Fine
<1>6. ASSUME NEW v \in Int
      PROVE  v * m \in Int /\ P!Scaled(v, drawing.space, side) = to(v)
  <2>1. v * m \in Int
    BY <1>5
  <2>2. P!Scaled(v, drawing.space, side) = P!Clipped(v * m)
    BY <1>3, <1>5
  <2>3. P!Clipped(v * m) = to(v)
    BY <1>4, <2>1
  <2>4. QED
    BY <2>1, <2>2, <2>3
<1>7. ASSUME NEW v \in Int
      PROVE  to(v) \in Int /\ P!InPlace(to(v), v, side)
  <2>1. to(v) \in Int
    BY <1>2, <1>6
  <2>2. CASE v < 0
    <3>1. v * m < 0
      BY <2>2, <1>5
    <3>2. to(v) = 0
      BY <3>1, <1>6
    <3>3. QED
      BY <2>1, <2>2, <3>2, <1>1 DEF P!InPlace, w
  <2>3. CASE v > w
    <3>1. v * m > w * m /\ w * m = Fine /\ v * m \in Int /\ ~(v < 0)
      BY <2>3, <1>1, <1>5
    <3>2. to(v) = Fine
      BY <3>1, <1>2
    <3>3. QED
      BY <2>1, <2>3, <3>1, <3>2, <1>1 DEF P!InPlace, w
  <2>4. CASE 0 <= v /\ v <= w
    <3>1. 0 <= v * m /\ v * m <= w * m /\ w * m = Fine /\ v * m \in Int
      BY <2>4, <1>1, <1>5
    <3>2. to(v) = v * m
      BY <3>1, <1>2
    <3>3. to(v) * w = v * Fine
      BY <3>2, <1>1, <1>5
    <3>4. ~(v < 0) /\ ~(v > w)
      BY <2>4, <1>1
    <3> HIDE DEF to
    <3>5. P!InPlace(to(v), v, side)
      BY <3>3, <3>4, Zenon DEF P!InPlace, w
    <3>6. QED
      BY <2>1, <3>5
  <2>5. QED
    BY <2>1, <2>2, <2>3, <2>4, <1>1
<1>8. ASSUME NEW a \in Int, NEW b \in Int, a <= b
      PROVE  to(a) <= to(b)
  <2>1. a * m <= b * m /\ a * m \in Int /\ b * m \in Int
    BY <1>5, <1>8
  <2>2. QED
    BY <2>1, <1>2
<1> HIDE DEF to
<1>9. QED
  BY <1>6, <1>7, <1>8

(* The two edges of a box that has an extent.                              *)
LEMMA OrderedInPlace ==
  ASSUME NEW side, Sized(side),
         drawing.space \in {"normalized", "pixels", "thousand"},
         drawing.space = "pixels" => side > 0,
         NEW a \in Int, NEW b \in Int, NEW edges,
         edges = P!Ordered(P!Scaled(a, drawing.space, side), P!Scaled(b, drawing.space, side)),
         edges[1] < edges[2]
  PROVE  P!EdgesInPlace(edges[1], edges[2], a, b, side)
<1> DEFINE s == P!Scaled(a, drawing.space, side)
           t == P!Scaled(b, drawing.space, side)
           l == P!Min({a, b})
           h == P!Max({a, b})
<1>1. /\ s \in Int /\ t \in Int /\ P!InPlace(s, a, side) /\ P!InPlace(t, b, side)
      /\ (a <= b => s <= t) /\ (b <= a => t <= s)
  <2>1. /\ \A v \in Int : /\ P!Scaled(v, drawing.space, side) \in Int
                          /\ P!InPlace(P!Scaled(v, drawing.space, side), v, side)
        /\ \A u, v \in Int : u <= v => P!Scaled(u, drawing.space, side)
                                          <= P!Scaled(v, drawing.space, side)
    BY ScaledInPlace, Zenon
  <2>2. QED
    BY <2>1, Zenon
<1>2. Fine \in Nat \ {0}
  BY DrawingsAssumption
<1>3. edges = P!Ordered(s, t)
  OBVIOUS
<1>4. IF a <= b THEN l = a /\ h = b ELSE l = b /\ h = a
  BY MaxOfTwo
<1> HIDE DEF s, t, l, h
<1>5. CASE s = t
  <2>1. edges[1] = s /\ edges[2] = P!Min({Fine, s + 1})
    BY <1>3, <1>5 DEF P!Ordered
  <2>2. edges[2] = IF Fine <= s + 1 THEN Fine ELSE s + 1
    <3>1. Fine \in Int /\ s + 1 \in Int
      BY <1>1, <1>2
    <3>2. QED
      BY <3>1, <2>1, MaxOfTwo, Zenon
  <2>3. edges[2] = s + 1
    BY <1>1, <1>2, <2>1, <2>2
  <2>4. P!InPlace(s, l, side) /\ P!InPlace(s, h, side)
    BY <1>1, <1>4, <1>5
  <2>5. QED
    BY <2>1, <2>3, <2>4 DEF P!EdgesInPlace, l, h
<1>6. CASE s # t
  <2>1. edges[1] = P!Min({s, t}) /\ edges[2] = P!Max({s, t})
    BY <1>3, <1>6 DEF P!Ordered
  <2>2. IF s <= t THEN edges[1] = s /\ edges[2] = t ELSE edges[1] = t /\ edges[2] = s
    BY <1>1, <2>1, MaxOfTwo
  <2>3. P!InPlace(edges[1], l, side) /\ P!InPlace(edges[2], h, side)
    <3>1. CASE a <= b
      BY <1>1, <1>4, <2>2, <3>1, <1>6
    <3>2. CASE ~(a <= b)
      <4>1. b <= a
        BY <3>2
      <4>2. QED
        BY <1>1, <1>4, <2>2, <3>2, <4>1, <1>6
    <3>3. QED
      BY <3>1, <3>2
  <2>4. QED
    BY <2>3 DEF P!EdgesInPlace, l, h
<1>7. QED
  BY <1>5, <1>6

(* Unmistakable numbers are guessed as they were meant.                    *)
LEMMA GuessedAsMeant ==
  ASSUME NEW shape, P!Most(shape) \in Int, P!Unmistakable(shape),
         drawing.space \in {"normalized", "pixels", "thousand"}
  PROVE  /\ P!Space(shape) = drawing.space
         /\ drawing.space = "pixels" => drawing.width > 0 /\ drawing.height > 0
<1>1. Unit \in Nat \ {0}
  BY DrawingsAssumption
<1>2. CASE drawing.space = "normalized"
  BY <1>1, <1>2 DEF P!Space, P!Unmistakable
<1>3. CASE drawing.space = "pixels"
  BY <1>1, <1>3 DEF P!Space, P!Unmistakable
<1>4. CASE drawing.space = "thousand"
  BY <1>1, <1>4 DEF P!Space, P!Unmistakable
<1>5. QED
  BY <1>2, <1>3, <1>4

LEMMA PointNumbers ==
  ASSUME NEW p \in PointTold, P!Finite(p)
  PROVE  p.x \in Int /\ p.y \in Int /\ P!Most(p) \in Int
<1>1. DOMAIN p = {"x", "y"}
  BY DEF PointTold
<1>2. p.x \in Int /\ p.y \in Int
  BY <1>1 DEF P!Finite, PointTold, Number
<1>3. {P!Magnitude(p[k]) : k \in DOMAIN p} = {P!Magnitude(p.x), P!Magnitude(p.y)}
  BY <1>1
<1>4. P!Magnitude(p.x) \in Int /\ P!Magnitude(p.y) \in Int
  BY <1>2 DEF P!Magnitude
<1>5. P!Max({P!Magnitude(p.x), P!Magnitude(p.y)}) \in Int
  BY <1>4, MaxOfTwo
<1>6. QED
  BY <1>2, <1>3, <1>5 DEF P!Most

LEMMA BoxNumbers ==
  ASSUME NEW b \in BoxTold, P!Finite(b)
  PROVE  b.x1 \in Int /\ b.y1 \in Int /\ b.x2 \in Int /\ b.y2 \in Int /\ P!Most(b) \in Int
<1>1. DOMAIN b = {"x1", "y1", "x2", "y2"}
  BY DEF BoxTold
<1>2. b.x1 \in Int /\ b.y1 \in Int /\ b.x2 \in Int /\ b.y2 \in Int
  BY <1>1 DEF P!Finite, BoxTold, Number
<1> DEFINE m1 == P!Magnitude(b.x1)
           m2 == P!Magnitude(b.y1)
           m3 == P!Magnitude(b.x2)
           m4 == P!Magnitude(b.y2)
<1>3. {P!Magnitude(b[k]) : k \in DOMAIN b} = {m1, m2, m3, m4}
  BY <1>1
<1>4. m1 \in Int /\ m2 \in Int /\ m3 \in Int /\ m4 \in Int
  BY <1>2 DEF P!Magnitude
<1> HIDE DEF m1, m2, m3, m4
<1>5. P!Max({m1, m2, m3, m4}) \in Int
  BY <1>4, MaxOfFour
<1>6. QED
  BY <1>2, <1>3, <1>5 DEF P!Most

-----------------------------------------------------------------------------
(* What a proposed scene is: every drawing normalized by its own guess.    *)
ProposalInv ==
    engine = "scene" =>
        /\ drawing \in Drawings
        /\ pc = "done" =>
              /\ P!Normalizable
              /\ points = [i \in DOMAIN drawing.points |->
                              P!NormalPoint(drawing.points[i], P!Space(drawing.points[i]))]
              /\ boxes = [i \in DOMAIN drawing.boxes |->
                             P!NormalBox(drawing.boxes[i], P!Space(drawing.boxes[i]))]

(* None of it depends on more than the drawing.                            *)
LEMMA GuessesStand ==
  ASSUME drawing' = drawing
  PROVE  /\ P!Normalizable' = P!Normalizable
         /\ \A s : P!NormalPoint(s, P!Space(s))' = P!NormalPoint(s, P!Space(s))
         /\ \A s : P!NormalBox(s, P!Space(s))' = P!NormalBox(s, P!Space(s))
<1>1. ASSUME NEW s PROVE P!Space(s)' = P!Space(s)
  BY DEF P!Space, P!InFrame
<1>2. ASSUME NEW s PROVE P!Measurable(s)' = P!Measurable(s)
  BY <1>1 DEF P!Measurable
<1>3. ASSUME NEW s PROVE P!NormalPoint(s, P!Space(s))' = P!NormalPoint(s, P!Space(s))
  BY <1>1 DEF P!NormalPoint
<1>4. ASSUME NEW s PROVE P!NormalBox(s, P!Space(s))' = P!NormalBox(s, P!Space(s))
  BY <1>1 DEF P!NormalBox
<1>5. P!Normalizable' = P!Normalizable
  BY <1>2, <1>4 DEF P!Normalizable
<1>6. QED
  BY <1>3, <1>4, <1>5

LEMMA ProposalInvCorrect == Spec => []ProposalInv
<1>1. Init => ProposalInv
  BY DEF Init, P!Init, ProposalInv
<1>2. ProposalInv /\ [Next]_vars => ProposalInv'
  <2> SUFFICES ASSUME ProposalInv, [Next]_vars, engine' = "scene" PROVE ProposalInv'
    BY DEF ProposalInv
  <2>1. CASE ProposalStep
    <3>1. engine = "scene" /\ P!Next /\ drawing \in Drawings
      BY <2>1 DEF ProposalStep, ProposalInv
    <3>2. drawing' = drawing /\ pc = "asking"
      BY <3>1 DEF P!Next, P!Propose, P!ProviderFails
    <3>3. CASE P!Normalizable /\ P!Propose
      <4>1. /\ pc' = "done" /\ drawing' = drawing
            /\ points' = [i \in DOMAIN drawing.points |->
                             P!NormalPoint(drawing.points[i], P!Space(drawing.points[i]))]
            /\ boxes' = [i \in DOMAIN drawing.boxes |->
                            P!NormalBox(drawing.boxes[i], P!Space(drawing.boxes[i]))]
        BY <3>3 DEF P!Propose
      <4>2. QED
        BY <3>1, <3>3, <4>1, GuessesStand DEF ProposalInv
    <3>4. CASE pc' = "raised"
      BY <3>1, <3>2, <3>4 DEF ProposalInv
    <3>5. QED
      BY <3>1, <3>3, <3>4 DEF P!Next, P!Propose, P!ProviderFails
  <2>2. CASE TrackedStep \/ SemanticStep \/ ReasoningStep
    BY <2>2 DEF TrackedStep, SemanticStep, ReasoningStep
  <2>3. CASE UNCHANGED vars
    <3>1. UNCHANGED <<engine, drawing, points, boxes, pc>>
      BY <2>3 DEF vars, proposed
    <3>2. QED
      BY <3>1, GuessesStand DEF ProposalInv
  <2>4. QED
    BY <2>1, <2>2, <2>3 DEF Next
<1>3. QED
  BY <1>1, <1>2, PTL DEF Spec

(* Whatever frame, fractions, pixels and thousandths a model tells, every  *)
(* point and edge of numbers that can only mean one thing is where the     *)
(* model saw it, and every region has an extent (normalize_point,          *)
(* normalize_box).                                                         *)
THEOREM ProposedRegionsStayInPlace == Spec => []RegionsStayInPlace
<1>1. ProposalInv => RegionsStayInPlace
  <2> SUFFICES ASSUME ProposalInv, engine = "scene", pc = "done" PROVE P!RegionsStayInPlace
    BY DEF RegionsStayInPlace, P!RegionsStayInPlace
  <2>1. /\ drawing \in Drawings /\ P!Normalizable
        /\ points = [i \in DOMAIN drawing.points |->
                        P!NormalPoint(drawing.points[i], P!Space(drawing.points[i]))]
        /\ boxes = [i \in DOMAIN drawing.boxes |->
                       P!NormalBox(drawing.boxes[i], P!Space(drawing.boxes[i]))]
    BY DEF ProposalInv
  <2>2. /\ drawing.space \in {"normalized", "pixels", "thousand"}
        /\ Sized(drawing.width) /\ Sized(drawing.height)
    BY <2>1, DrawingsAssumption DEF Sized
  <2>3. ASSUME NEW i \in DOMAIN points, P!Unmistakable(drawing.points[i])
        PROVE  /\ P!InPlace(points[i].x, drawing.points[i].x, drawing.width)
               /\ P!InPlace(points[i].y, drawing.points[i].y, drawing.height)
    <3> DEFINE p == drawing.points[i]
    <3>1. i \in DOMAIN drawing.points /\ points[i] = P!NormalPoint(p, P!Space(p))
      BY <2>1
    <3>2. p \in PointTold
      <4>1. drawing.points \in Seq(PointTold)
        BY <2>1, DrawingsAssumption
      <4>2. QED
        BY <3>1, <4>1, ElementIn
    <3>3. P!Finite(p)
      BY <2>1, <3>1 DEF P!Normalizable, P!ToSet
    <3>4. P!Unmistakable(p)
      BY <2>3
    <3> HIDE DEF p
    <3>5. p.x \in Int /\ p.y \in Int /\ P!Most(p) \in Int
      BY <3>2, <3>3, PointNumbers
    <3>6. P!Space(p) = drawing.space /\ (drawing.space = "pixels" => drawing.width > 0 /\ drawing.height > 0)
      BY <2>2, <3>4, <3>5, GuessedAsMeant
    <3>7. /\ points[i].x = P!Scaled(p.x, drawing.space, drawing.width)
          /\ points[i].y = P!Scaled(p.y, drawing.space, drawing.height)
      BY <3>1, <3>6 DEF P!NormalPoint
    <3>8. /\ P!InPlace(P!Scaled(p.x, drawing.space, drawing.width), p.x, drawing.width)
          /\ P!InPlace(P!Scaled(p.y, drawing.space, drawing.height), p.y, drawing.height)
      BY <2>2, <3>5, <3>6, ScaledInPlace
    <3>9. QED
      BY <3>7, <3>8 DEF p
  <2>4. ASSUME NEW i \in DOMAIN boxes, P!Unmistakable(drawing.boxes[i])
        PROVE  LET b == boxes[i]  told == drawing.boxes[i] IN
               /\ P!EdgesInPlace(b.x1, b.x2, told.x1, told.x2, drawing.width)
               /\ P!EdgesInPlace(b.y1, b.y2, told.y1, told.y2, drawing.height)
    <3> DEFINE t == drawing.boxes[i]
               xs == P!Ordered(P!Scaled(t.x1, drawing.space, drawing.width),
                               P!Scaled(t.x2, drawing.space, drawing.width))
               ys == P!Ordered(P!Scaled(t.y1, drawing.space, drawing.height),
                               P!Scaled(t.y2, drawing.space, drawing.height))
    <3>1. i \in DOMAIN drawing.boxes /\ boxes[i] = P!NormalBox(t, P!Space(t))
      BY <2>1
    <3>2. t \in BoxTold
      <4>1. drawing.boxes \in Seq(BoxTold)
        BY <2>1, DrawingsAssumption
      <4>2. QED
        BY <3>1, <4>1, ElementIn
    <3>3. P!Finite(t) /\ P!HasExtent(boxes[i])
      BY <2>1, <3>1 DEF P!Normalizable, P!ToSet
    <3>4. P!Unmistakable(t)
      BY <2>4
    <3> HIDE DEF t
    <3>5. t.x1 \in Int /\ t.y1 \in Int /\ t.x2 \in Int /\ t.y2 \in Int /\ P!Most(t) \in Int
      BY <3>2, <3>3, BoxNumbers
    <3>6. P!Space(t) = drawing.space /\ (drawing.space = "pixels" => drawing.width > 0 /\ drawing.height > 0)
      BY <2>2, <3>4, <3>5, GuessedAsMeant
    <3>7. boxes[i] = [x1 |-> xs[1], y1 |-> ys[1], x2 |-> xs[2], y2 |-> ys[2]]
      BY <3>1, <3>6 DEF P!NormalBox
    <3>8. xs[1] < xs[2] /\ ys[1] < ys[2]
      BY <3>3, <3>7 DEF P!HasExtent
    <3>9. P!EdgesInPlace(xs[1], xs[2], t.x1, t.x2, drawing.width)
      <4>1. xs = P!Ordered(P!Scaled(t.x1, drawing.space, drawing.width),
                           P!Scaled(t.x2, drawing.space, drawing.width))
        OBVIOUS
      <4> HIDE DEF xs
      <4>2. QED
        BY <2>2, <3>5, <3>6, <3>8, <4>1, OrderedInPlace
    <3>10. P!EdgesInPlace(ys[1], ys[2], t.y1, t.y2, drawing.height)
      <4>1. ys = P!Ordered(P!Scaled(t.y1, drawing.space, drawing.height),
                           P!Scaled(t.y2, drawing.space, drawing.height))
        OBVIOUS
      <4> HIDE DEF ys
      <4>2. QED
        BY <2>2, <3>5, <3>6, <3>8, <4>1, OrderedInPlace
    <3> HIDE DEF xs, ys
    <3>11. QED
      BY <3>7, <3>9, <3>10 DEF t
  <2>5. QED
    BY <2>3, <2>4 DEF P!RegionsStayInPlace
<1>2. QED
  BY <1>1, ProposalInvCorrect, PTL

-----------------------------------------------------------------------------
(* Sets of numbers within bounds have a least and a greatest.              *)
LEMMA LeastOf ==
  ASSUME NEW X, X \subseteq Int, X # {}, NEW lo \in Int, \A x \in X : lo <= x
  PROVE  \E x \in X : \A y \in X : x <= y
<1> DEFINE Y == {x - lo : x \in X}
<1>1. Y \subseteq Nat /\ Y # {}
  <2>1. \A x \in X : x - lo \in Nat
    OBVIOUS
  <2>2. Y \subseteq Nat
    BY <2>1
  <2>3. Y # {}
    OBVIOUS
  <2>4. QED
    BY <2>2, <2>3
<1>2. PICK u \in Y : \A y \in Y : u <= y
  BY <1>1, LeastNat
<1>3. PICK x \in X : u = x - lo
  BY <1>2
<1>4. \A y \in X : x - lo <= y - lo
  BY <1>2, <1>3
<1>5. QED
  BY <1>4

LEMMA GreatestOf ==
  ASSUME NEW X, X \subseteq Int, X # {}, NEW hi \in Int, \A x \in X : x <= hi
  PROVE  R!Max(X) \in X /\ \A y \in X : y <= R!Max(X)
<1> DEFINE Y == {hi - x : x \in X}
<1>1. Y \subseteq Nat /\ Y # {}
  <2>1. \A x \in X : hi - x \in Nat
    OBVIOUS
  <2>2. Y \subseteq Nat
    BY <2>1
  <2>3. Y # {}
    OBVIOUS
  <2>4. QED
    BY <2>2, <2>3
<1>2. PICK u \in Y : \A y \in Y : u <= y
  BY <1>1, LeastNat
<1>3. PICK x \in X : u = hi - x
  BY <1>2
<1>4. \A y \in X : hi - x <= hi - y
  BY <1>2, <1>3
<1>5. \A y \in X : x >= y
  BY <1>4
<1>6. QED
  BY <1>5 DEF R!Max

(* merge_time_ranges: every range is joined to the last beginning at or    *)
(* before its start.                                                       *)
Span == [from : Int, to : Int]

Between(rs, lo, hi) ==
    rs \subseteq Span /\ \A r \in rs : lo <= r.from /\ r.from < r.to /\ r.to <= hi

LEMMA JoinedToOne ==
  ASSUME NEW lo \in Int, NEW hi \in Int, NEW rs, Between(rs, lo, hi), NEW gap \in Nat, NEW q \in rs
  PROVE  \E h \in rs : R!Begins(h, rs, gap) /\ q \in R!Joined(h, rs, gap)
<1>0. \A r \in rs : r.from \in Int /\ r.to \in Int /\ lo <= r.from /\ r.from < r.to /\ r.to <= hi
  BY DEF Between, Span
<1> DEFINE heads == {h \in rs : R!Begins(h, rs, gap) /\ h.from <= q.from}
           starts == {h.from : h \in heads}
<1>1. heads # {}
  <2> DEFINE froms == {r.from : r \in rs}
  <2>1. froms \subseteq Int /\ froms # {} /\ \A x \in froms : lo <= x
    BY <1>0
  <2>2. PICK x \in froms : \A y \in froms : x <= y
    BY <2>1, LeastOf
  <2>3. PICK h \in rs : x = h.from
    BY <2>2
  <2>4. \A r \in rs : h.from <= r.from
    BY <2>2, <2>3
  <2>5. \A r \in rs : ~(r.from < h.from)
    BY <1>0, <2>4
  <2>6. R!Begins(h, rs, gap)
    BY <2>5 DEF R!Begins
  <2>7. h.from <= q.from
    BY <2>4
  <2>8. QED
    BY <2>6, <2>7
<1>2. starts \subseteq Int /\ starts # {} /\ \A x \in starts : x <= hi
  <2>1. \A h \in heads : h.from \in Int /\ h.from <= hi
    BY <1>0
  <2>2. QED
    BY <1>1, <2>1
<1>3. R!Max(starts) \in starts /\ \A y \in starts : y <= R!Max(starts)
  <2> HIDE DEF starts
  <2>1. QED
    BY <1>2, GreatestOf
<1>4. PICK h \in heads : h.from = R!Max(starts)
  BY <1>3
<1>5. \A b \in heads : b.from <= h.from
  BY <1>3, <1>4
<1>6. QED
  BY <1>4, <1>5 DEF R!Joined

MergeOf(h, rs, gap) == [h EXCEPT !.to = R!Max({q.to : q \in R!Joined(h, rs, gap)})]

LEMMA MergedOne ==
  ASSUME NEW lo \in Int, NEW hi \in Int, NEW rs, Between(rs, lo, hi), NEW gap \in Nat,
         NEW h \in rs, R!Begins(h, rs, gap)
  PROVE  /\ MergeOf(h, rs, gap) \in Span
         /\ MergeOf(h, rs, gap).from = h.from
         /\ h.to <= MergeOf(h, rs, gap).to /\ MergeOf(h, rs, gap).to <= hi
         /\ \E q \in R!Joined(h, rs, gap) : q.to = MergeOf(h, rs, gap).to
         /\ \A q \in R!Joined(h, rs, gap) : q.to <= MergeOf(h, rs, gap).to
<1>0. \A r \in rs : r.from \in Int /\ r.to \in Int /\ lo <= r.from /\ r.from < r.to /\ r.to <= hi
  BY DEF Between, Span
<1> DEFINE ends == {q.to : q \in R!Joined(h, rs, gap)}
<1>1. R!Joined(h, rs, gap) \subseteq rs /\ h \in R!Joined(h, rs, gap)
  BY <1>0 DEF R!Joined
<1>2. ends \subseteq Int /\ ends # {} /\ \A x \in ends : x <= hi
  BY <1>0, <1>1
<1>3. R!Max(ends) \in ends /\ \A y \in ends : y <= R!Max(ends)
  <2> HIDE DEF ends
  <2>1. QED
    BY <1>2, GreatestOf
<1>4. R!Max(ends) \in Int /\ R!Max(ends) <= hi /\ h.to <= R!Max(ends)
  BY <1>1, <1>2, <1>3
<1>5. h \in Span
  BY DEF Between
<1> DEFINE last == R!Max(ends)
           e == [h EXCEPT !.to = last]
<1>6. \A q \in R!Joined(h, rs, gap) : q.to <= last
  BY <1>3
<1>7. \E q \in R!Joined(h, rs, gap) : q.to = last
  BY <1>3
<1>8. last \in Int /\ last <= hi /\ h.to <= last
  BY <1>4
<1> HIDE DEF last
<1>9. e \in Span /\ e.from = h.from /\ e.to = last
  BY <1>5, <1>8 DEF Span
<1> HIDE DEF e
<1>10. QED
  BY <1>6, <1>7, <1>8, <1>9 DEF e, last, MergeOf

LEMMA MergedIs ==
  ASSUME NEW rs, NEW gap
  PROVE  \A e : e \in R!MergeRanges(rs, gap)
            <=> \E h \in rs : R!Begins(h, rs, gap) /\ e = MergeOf(h, rs, gap)
BY DEF R!MergeRanges, MergeOf

(* What is merged starts where a range does, and ends no earlier than it.  *)
LEMMA MergedTypes ==
  ASSUME NEW lo \in Int, NEW hi \in Int, NEW rs, Between(rs, lo, hi), NEW gap \in Nat
  PROVE  /\ Between(R!MergeRanges(rs, gap), lo, hi)
         /\ \A e \in R!MergeRanges(rs, gap) : \E h \in rs : h.from = e.from /\ h.to <= e.to
<1>0. \A r \in rs : r.from \in Int /\ r.to \in Int /\ lo <= r.from /\ r.from < r.to /\ r.to <= hi
  BY DEF Between, Span
<1>1. ASSUME NEW e \in R!MergeRanges(rs, gap)
      PROVE  /\ e \in Span /\ lo <= e.from /\ e.from < e.to /\ e.to <= hi
             /\ \E h \in rs : h.from = e.from /\ h.to <= e.to
  <2>1. PICK h \in rs : R!Begins(h, rs, gap) /\ e = MergeOf(h, rs, gap)
    BY MergedIs
  <2>2. e \in Span /\ e.from = h.from /\ h.to <= e.to /\ e.to <= hi
    BY <2>1, MergedOne
  <2>3. e.to \in Int
    BY <2>2 DEF Span
  <2>4. QED
    BY <1>0, <2>2, <2>3
<1>2. QED
  BY <1>1 DEF Between

(* Nothing is lost, ...                                                    *)
LEMMA MergedCovers ==
  ASSUME NEW lo \in Int, NEW hi \in Int, NEW rs, Between(rs, lo, hi), NEW gap \in Nat
  PROVE  R!Instants(rs) \subseteq R!Instants(R!MergeRanges(rs, gap))
<1>0. \A r \in rs : r.from \in Int /\ r.to \in Int
  BY DEF Between, Span
<1> SUFFICES ASSUME NEW q \in rs, NEW t \in q.from..(q.to - 1)
             PROVE  \E e \in R!MergeRanges(rs, gap) : t \in e.from..(e.to - 1)
  BY DEF R!Instants
<1>1. PICK h \in rs : R!Begins(h, rs, gap) /\ q \in R!Joined(h, rs, gap)
  BY JoinedToOne
<1> DEFINE e == MergeOf(h, rs, gap)
<1>2. e \in R!MergeRanges(rs, gap)
  BY <1>1, MergedIs
<1>3. e \in Span /\ e.from = h.from /\ q.to <= e.to
  BY <1>1, MergedOne
<1>4. h.from <= q.from
  BY <1>1 DEF R!Joined
<1> HIDE DEF e
<1>5. t \in e.from..(e.to - 1)
  BY <1>0, <1>3, <1>4 DEF Span
<1>6. QED
  BY <1>2, <1>5

(* ... nothing is bridged without a gap, ...                               *)
LEMMA MergedIsCovered ==
  ASSUME NEW lo \in Int, NEW hi \in Int, NEW rs, Between(rs, lo, hi)
  PROVE  R!Instants(R!MergeRanges(rs, 0)) \subseteq R!Instants(rs)
<1>0. \A r \in rs : r.from \in Int /\ r.to \in Int /\ lo <= r.from /\ r.from < r.to /\ r.to <= hi
  BY DEF Between, Span
<1> SUFFICES ASSUME NEW e \in R!MergeRanges(rs, 0), NEW t \in e.from..(e.to - 1)
             PROVE  \E q \in rs : t \in q.from..(q.to - 1)
  BY DEF R!Instants
<1>1. PICK h \in rs : R!Begins(h, rs, 0) /\ e = MergeOf(h, rs, 0)
  BY MergedIs
<1>2. e \in Span /\ e.from = h.from /\ \E q \in R!Joined(h, rs, 0) : q.to = e.to
  BY <1>1, MergedOne
<1>3. PICK z \in R!Joined(h, rs, 0) : z.to = e.to
  BY <1>2
<1>4. t \in Int /\ h.from <= t /\ t < z.to /\ z \in rs /\ h.from <= z.from
  BY <1>0, <1>2, <1>3 DEF Span, R!Joined
<1> SUFFICES ASSUME \A q \in rs : ~(q.from <= t /\ t < q.to) PROVE FALSE
  <2>1. \A q \in rs : q.from <= t /\ t < q.to => t \in q.from..(q.to - 1)
    BY <1>0, <1>4
  <2>2. QED
    BY <2>1
<1> DEFINE later == {q \in R!Joined(h, rs, 0) : t < q.from}
           froms == {q.from : q \in later}
<1>5. z \in later
  BY <1>0, <1>3, <1>4
<1>6. \A q \in later : q \in rs /\ q \in R!Joined(h, rs, 0) /\ t < q.from
  BY DEF R!Joined
<1>7. froms \subseteq Int /\ froms # {} /\ \A x \in froms : lo <= x
  BY <1>0, <1>5, <1>6
<1>8. PICK x \in froms : \A y \in froms : x <= y
  BY <1>7, LeastOf
<1>9. PICK q \in later : x = q.from
  BY <1>8
<1>10. \A p \in later : q.from <= p.from
  BY <1>8, <1>9
<1> HIDE DEF later
<1>11. ASSUME NEW p \in rs, p.from < q.from PROVE p.to + 0 < q.from
  <2>1. CASE p.from <= t
    BY <1>0, <1>4, <1>6, <1>9, <2>1
  <2>2. CASE t < p.from
    <3>1. p \notin later
      BY <1>0, <1>6, <1>10, <1>11
    <3>2. p \notin R!Joined(h, rs, 0)
      BY <2>2, <3>1 DEF later
    <3>3. h.from <= p.from
      BY <1>0, <1>4, <2>2
    <3>4. PICK b \in rs : R!Begins(b, rs, 0) /\ b.from <= p.from /\ ~(b.from <= h.from)
      BY <3>2, <3>3 DEF R!Joined
    <3>5. b.from <= q.from
      BY <1>0, <1>6, <1>11, <3>4
    <3>6. QED
      BY <1>6, <3>4, <3>5 DEF R!Joined
  <2>3. QED
    BY <1>0, <1>4, <2>1, <2>2
<1>12. R!Begins(q, rs, 0)
  BY <1>11 DEF R!Begins
<1>13. q.from <= h.from
  BY <1>0, <1>6, <1>12 DEF R!Joined
<1>14. QED
  BY <1>0, <1>4, <1>6, <1>13

(* ... and what is not joined is more than the gap apart.                  *)
LEMMA MergedApart ==
  ASSUME NEW lo \in Int, NEW hi \in Int, NEW rs, Between(rs, lo, hi), NEW gap \in Nat,
         NEW e \in R!MergeRanges(rs, gap), NEW f \in R!MergeRanges(rs, gap), e # f
  PROVE  e.to + gap < f.from \/ f.to + gap < e.from
<1>0. \A r \in rs : /\ r \in Span /\ r.from \in Int /\ r.to \in Int
                    /\ lo <= r.from /\ r.from < r.to /\ r.to <= hi
  BY DEF Between, Span
<1>1. PICK h \in rs : R!Begins(h, rs, gap) /\ e = MergeOf(h, rs, gap)
  BY MergedIs
<1>2. PICK k \in rs : R!Begins(k, rs, gap) /\ f = MergeOf(k, rs, gap)
  BY MergedIs
<1>3. /\ e \in Span /\ e.from = h.from /\ f \in Span /\ f.from = k.from
      /\ \E q \in R!Joined(h, rs, gap) : q.to = e.to
      /\ \E q \in R!Joined(k, rs, gap) : q.to = f.to
  BY <1>1, <1>2, MergedOne
<1>4. ASSUME NEW b \in rs, NEW c \in rs, R!Begins(c, rs, gap), b.from < c.from,
             NEW q \in R!Joined(b, rs, gap)
      PROVE  q.to + gap < c.from
  <2>1. q \in rs /\ ~(c.from <= q.from)
    BY <1>0, <1>4 DEF R!Joined
  <2>2. q.from < c.from
    BY <1>0, <2>1
  <2>3. QED
    BY <1>4, <2>1, <2>2 DEF R!Begins
<1>5. h.from # k.from
  <2> SUFFICES ASSUME h.from = k.from PROVE FALSE
    OBVIOUS
  <2>1. R!Joined(h, rs, gap) = R!Joined(k, rs, gap)
    BY DEF R!Joined
  <2> DEFINE last == R!Max({q.to : q \in R!Joined(h, rs, gap)})
  <2>2. e = [h EXCEPT !.to = last] /\ f = [k EXCEPT !.to = last]
    BY <1>1, <1>2, <2>1 DEF MergeOf
  <2> HIDE DEF last
  <2>3. h \in Span /\ k \in Span
    BY <1>0
  <2>4. e = f
    BY <2>2, <2>3 DEF Span
  <2>5. QED
    BY <2>4
<1>6. CASE h.from < k.from
  BY <1>2, <1>3, <1>4, <1>6
<1>7. CASE k.from < h.from
  BY <1>1, <1>3, <1>4, <1>7
<1>8. QED
  BY <1>0, <1>5, <1>6, <1>7

-----------------------------------------------------------------------------
(* The windows of a plan lie in its range, and leave no hole when the      *)
(* stride is no longer than the window (_windows).                         *)
LEMMA WindowsInPlan ==
  ASSUME plan \in Plans
  PROVE  /\ Len(R!Windows) \in Nat /\ DOMAIN R!Windows = 1..Len(R!Windows)
         /\ \A i \in 1..Len(R!Windows) :
               /\ R!Windows[i] \in Span /\ plan.from <= R!Windows[i].from
               /\ R!Windows[i].from < R!Windows[i].to /\ R!Windows[i].to <= plan.to
         /\ plan.stride <= plan.window =>
               \A t \in plan.from..(plan.to - 1) : \E i \in 1..Len(R!Windows) :
                   t \in R!Windows[i].from..(R!Windows[i].to - 1)
<1> DEFINE d == plan.to - plan.from
           s == plan.stride
           n == (d + s - 1) \div s
<1>1. /\ plan.from \in Int /\ plan.to \in Int /\ d \in Nat /\ s \in Nat \ {0}
      /\ plan.window \in Nat \ {0}
  BY PlansAssumption
<1>2. /\ n \in Int /\ s * n <= d + s - 1 /\ d + s - 1 < s * n + s
  <2> DEFINE a == d + s - 1
  <2>1. a \in Int
    BY <1>1
  <2> HIDE DEF d, s, a
  <2>2. a \div s \in Int /\ s * (a \div s) <= a /\ a < s * (a \div s) + s
    BY <1>1, <2>1
  <2>3. QED
    BY <2>2 DEF a
<1> DEFINE row(i) == [from |-> plan.from + (i - 1) * s,
                       to   |-> R!Low(plan.from + (i - 1) * s + plan.window, plan.to)]
<1>3. R!Windows = [i \in 1..n |-> row(i)]
  BY DEF R!Windows
<1>d. d = plan.to - plan.from /\ s = plan.stride
  OBVIOUS
<1> HIDE DEF n, d, s
<1>4. n \in Nat
  <2> SUFFICES ASSUME n <= -1 PROVE FALSE
    BY <1>2
  <2>1. s * n <= -s
    BY <1>1, <1>2
  <2>2. QED
    BY <1>1, <1>2, <2>1
<1>5. Len(R!Windows) = n /\ DOMAIN R!Windows = 1..n
  <2> HIDE DEF row
  <2>1. QED
    BY <1>3, <1>4
<1>6. ASSUME NEW i \in 1..n
      PROVE  /\ R!Windows[i] \in Span
             /\ R!Windows[i].from = plan.from + (i - 1) * s
             /\ R!Windows[i].to = R!Low(plan.from + (i - 1) * s + plan.window, plan.to)
             /\ 0 <= (i - 1) * s /\ (i - 1) * s < d /\ (i - 1) * s \in Int
  <2>1. R!Windows[i] = row(i)
    BY <1>3
  <2>2. i \in Int /\ (i - 1) * s \in Int /\ 0 <= (i - 1) * s
    BY <1>1, <1>2
  <2>3. (i - 1) * s < d
    <3> DEFINE k == n - i
    <3>1. k \in Nat /\ i = n - k
      BY <1>4
    <3>2. s * k >= 0 /\ s * k \in Int
      BY <1>1, <3>1
    <3>3. (i - 1) * s = s * n - s * k - s
      BY <1>1, <1>4, <3>1
    <3> HIDE DEF k
    <3>4. QED
      BY <1>1, <1>2, <2>2, <3>2, <3>3
  <2>4. R!Low(plan.from + (i - 1) * s + plan.window, plan.to) \in Int
    BY <1>1, <2>2 DEF R!Low
  <2>5. QED
    BY <1>1, <2>1, <2>2, <2>3, <2>4 DEF Span
<1>7. ASSUME NEW i \in 1..n
      PROVE  /\ plan.from <= R!Windows[i].from
             /\ R!Windows[i].from < R!Windows[i].to /\ R!Windows[i].to <= plan.to
  <2> DEFINE a == (i - 1) * s
  <2>1. /\ R!Windows[i].from = plan.from + a
        /\ R!Windows[i].to = R!Low(plan.from + a + plan.window, plan.to)
        /\ 0 <= a /\ a < d /\ a \in Int
    BY <1>6
  <2> HIDE DEF a
  <2>2. QED
    BY <1>1, <1>d, <2>1 DEF R!Low
<1>8. ASSUME plan.stride <= plan.window, NEW t \in plan.from..(plan.to - 1)
      PROVE  \E i \in 1..n : t \in R!Windows[i].from..(R!Windows[i].to - 1)
  <2> DEFINE u == t - plan.from
             k == u \div s
             i == k + 1
  <2>1. u \in Nat /\ u < d /\ t \in Int
    BY <1>1, <1>d
  <2> HIDE DEF u
  <2>2. k \in Int /\ s * k <= u /\ u < s * k + s
    BY <1>1, <2>1
  <2> HIDE DEF k
  <2>3. k >= 0
    <3> SUFFICES ASSUME k <= -1 PROVE FALSE
      BY <2>2
    <3>1. s * k <= -s
      BY <1>1, <2>2
    <3>2. QED
      BY <1>1, <2>1, <2>2, <3>1
  <2>4. k < n
    <3> SUFFICES ASSUME k >= n PROVE FALSE
      BY <1>4, <2>2
    <3> DEFINE m == k - n
    <3>1. m \in Nat /\ k = n + m
      BY <1>4, <2>2
    <3>2. s * m >= 0 /\ s * m \in Int
      BY <1>1, <3>1
    <3>3. s * k = s * n + s * m
      BY <1>1, <1>4, <3>1
    <3>4. QED
      BY <1>1, <1>2, <2>1, <2>2, <3>2, <3>3
  <2>5. i \in 1..n /\ (i - 1) * s = s * k
    BY <1>1, <1>4, <2>2, <2>3, <2>4
  <2> HIDE DEF i
  <2>6. /\ R!Windows[i].from = plan.from + s * k
        /\ R!Windows[i].to = R!Low(plan.from + s * k + plan.window, plan.to)
    BY <1>6, <2>5
  <2>7. s * k \in Int
    BY <1>1, <2>2
  <2>8. t = plan.from + u /\ s <= plan.window
    BY <1>1, <1>8, <1>d, <2>1 DEF u
  <2>9. R!Windows[i].from <= t /\ t < R!Windows[i].to /\ R!Windows[i].from \in Int /\ R!Windows[i].to \in Int
    BY <1>1, <1>d, <2>1, <2>2, <2>6, <2>7, <2>8 DEF R!Low
  <2>10. t \in R!Windows[i].from..(R!Windows[i].to - 1)
    BY <2>1, <2>9
  <2>11. QED
    BY <2>5, <2>10
<1>9. QED
  BY <1>4, <1>5, <1>6, <1>7, <1>8

-----------------------------------------------------------------------------
(* What the service knows of every window it is done with.                 *)
AllWindows == {R!Windows[i] : i \in 1..Len(R!Windows)}

AnswerTold == [decision : STRING, ranges : SUBSET Span, condition : STRING, refs : SUBSET STRING]

DealtWith(i) ==
    \/ R!Windows[i] \in unknown
    \/ R!Windows[i] \in DOMAIN answers /\ answers[R!Windows[i]].decision # "uncertain"

ReasoningInv ==
    engine = "reasoning" =>
        /\ plan \in Plans /\ asked \in 0..Len(R!Windows)
        /\ DOMAIN answers \subseteq AllWindows /\ unknown \subseteq AllWindows
        /\ \A w \in DOMAIN answers : /\ answers[w].ranges \subseteq Span
                                     /\ R!Classifiable(answers[w], w) /\ R!Valid(answers[w])
        /\ \A i \in 1..asked : DealtWith(i)
        /\ pc = "done" =>
              /\ asked = Len(R!Windows)
              /\ analysis = [disposition |-> R!Disposition, episodes |-> R!Episodes,
                             unknown |-> R!MergeRanges(unknown, 0)]

LEMMA ReasoningStands ==
  /\ plan' = plan => R!Windows' = R!Windows
  /\ UNCHANGED <<answers, unknown>> => /\ R!Episodes' = R!Episodes
                                       /\ R!Disposition' = R!Disposition
<1>1. plan' = plan => R!Windows' = R!Windows
  BY DEF R!Windows
<1>2. answers' = answers => R!PresentAnswers' = R!PresentAnswers
  BY DEF R!PresentAnswers
<1>3. answers' = answers => R!Episodes' = R!Episodes
  BY <1>2 DEF R!Episodes
<1>4. UNCHANGED <<answers, unknown>> => R!Disposition' = R!Disposition
  BY <1>3 DEF R!Disposition
<1>5. QED
  BY <1>1, <1>3, <1>4

LEMMA ReasoningStepKeeps ==
  ASSUME ReasoningInv, ReasoningStep
  PROVE  ReasoningInv'
<1>0. /\ engine = "reasoning" /\ engine' = "reasoning" /\ plan \in Plans
      /\ asked \in 0..Len(R!Windows) /\ Len(R!Windows) \in Nat
      /\ DOMAIN answers \subseteq AllWindows /\ unknown \subseteq AllWindows
      /\ \A w \in DOMAIN answers : /\ answers[w].ranges \subseteq Span
                                   /\ R!Classifiable(answers[w], w) /\ R!Valid(answers[w])
      /\ \A i \in 1..asked : DealtWith(i)
  BY WindowsInPlan DEF ReasoningInv, ReasoningStep
<1>1. plan' = plan /\ pc = "asking" /\ R!Windows' = R!Windows /\ R!Next
  BY ReasoningStands DEF ReasoningStep, R!Next, R!Answered, R!Asking, R!TimedOut, R!ProviderFails, R!Exhausted, R!Finish
<1>2. AllWindows' = AllWindows
  BY <1>1 DEF AllWindows
<1>3. ASSUME pc' # "done", asked' \in 0..Len(R!Windows),
             DOMAIN answers' \subseteq AllWindows, unknown' \subseteq AllWindows,
             \A w \in DOMAIN answers' : /\ answers'[w].ranges \subseteq Span
                                        /\ R!Classifiable(answers'[w], w) /\ R!Valid(answers'[w]),
             \A i \in 1..asked' : DealtWith(i)'
      PROVE  ReasoningInv'
  BY <1>0, <1>1, <1>2, <1>3 DEF ReasoningInv
<1>4. CASE R!Asking
  <2> DEFINE v == R!Windows[asked + 1]
  <2>1. asked < Len(R!Windows) /\ asked + 1 \in 1..Len(R!Windows) /\ asked + 1 \in 0..Len(R!Windows)
    BY <1>0, <1>4 DEF R!Asking
  <2>2. v \in AllWindows
    BY <2>1 DEF AllWindows
  <2> HIDE DEF v
  <2>3. ASSUME NEW a \in AnswerTold, R!Answered(a), R!Classifiable(a, v) /\ R!Valid(a)
        PROVE  ReasoningInv'
    <3>1. /\ asked' = asked + 1 /\ pc' = "asking"
          /\ answers' = [w \in DOMAIN answers \cup {v} |-> IF w = v THEN a ELSE answers[w]]
          /\ unknown' = unknown \cup {w \in {v} : a.decision = "uncertain"}
      BY <1>1, <2>3 DEF R!Answered, v
    <3>2. a.ranges \subseteq Span
      BY DEF AnswerTold
    <3>3. /\ DOMAIN answers' = DOMAIN answers \cup {v} /\ answers'[v] = a
          /\ \A w \in DOMAIN answers : w # v => answers'[w] = answers[w]
      BY <3>1
    <3>4. \A w \in DOMAIN answers' : /\ answers'[w].ranges \subseteq Span
                                     /\ R!Classifiable(answers'[w], w) /\ R!Valid(answers'[w])
      BY <1>0, <2>3, <3>2, <3>3
    <3>5. ASSUME NEW i \in 1..(asked + 1) PROVE DealtWith(i)'
      <4> DEFINE w == R!Windows[i]
      <4>1. CASE w = v
        <5>1. CASE a.decision = "uncertain"
          BY <1>1, <3>1, <4>1, <5>1 DEF DealtWith
        <5>2. CASE a.decision # "uncertain"
          BY <1>1, <3>3, <4>1, <5>2 DEF DealtWith
        <5>3. QED
          BY <5>1, <5>2
      <4>2. CASE w # v
        <5>1. i \in 1..asked
          BY <1>0, <4>2 DEF v
        <5>2. DealtWith(i)
          BY <1>0, <5>1
        <5>3. QED
          BY <1>1, <3>1, <3>3, <4>2, <5>2 DEF DealtWith
      <4>3. QED
        BY <4>1, <4>2
    <3>6. DOMAIN answers' \subseteq AllWindows /\ unknown' \subseteq AllWindows
      BY <1>0, <2>2, <3>1, <3>3
    <3>7. QED
      BY <1>3, <2>1, <3>1, <3>4, <3>5, <3>6
  <2>4. CASE R!TimedOut
    <3>1. asked' = asked + 1 /\ pc' = "asking" /\ unknown' = unknown \cup {v} /\ answers' = answers
      BY <1>1, <2>4 DEF R!TimedOut, v
    <3>2. ASSUME NEW i \in 1..(asked + 1) PROVE DealtWith(i)'
      <4>1. CASE i = asked + 1
        BY <1>1, <3>1, <4>1 DEF DealtWith, v
      <4>2. CASE i # asked + 1
        <5>1. i \in 1..asked
          BY <1>0, <4>2
        <5>2. DealtWith(i)
          BY <1>0, <5>1
        <5>3. QED
          BY <1>1, <3>1, <5>2 DEF DealtWith
      <4>3. QED
        BY <4>1, <4>2
    <3>3. QED
      BY <1>0, <1>3, <2>1, <2>2, <3>1, <3>2
  <2>5. ASSUME pc' = "raised", UNCHANGED <<asked, answers, unknown>>
        PROVE  ReasoningInv'
    <3>1. \A i \in 1..asked : DealtWith(i)'
      BY <1>0, <1>1, <2>5 DEF DealtWith
    <3>2. QED
      BY <1>0, <1>3, <2>5, <3>1
  <2>6. ASSUME NEW a \in ConditionAnswers(v) PROVE a \in AnswerTold
    <3>1. /\ v \in Span /\ plan.from <= v.from /\ v.from < v.to /\ v.to <= plan.to
      BY <1>0, <2>1, WindowsInPlan DEF v
    <3>2. /\ plan.from \in Int /\ plan.to \in Int
          /\ \A from, to \in plan.from..plan.to :
                ConditionAnswers([from |-> from, to |-> to]) \subseteq AnswerTold
      BY <1>0, PlansAssumption DEF AnswerTold, Span
    <3>3. v.from \in plan.from..plan.to /\ v.to \in plan.from..plan.to /\ v = [from |-> v.from, to |-> v.to]
      BY <3>1, <3>2 DEF Span
    <3>4. QED
      BY <2>6, <3>2, <3>3
  <2>7. ASSUME NEW a \in ConditionAnswers(v), R!Answered(a) PROVE ReasoningInv'
    <3>1. CASE R!Classifiable(a, v) /\ R!Valid(a)
      BY <2>3, <2>6, <2>7, <3>1
    <3>2. CASE ~(R!Classifiable(a, v) /\ R!Valid(a))
      <4>1. pc' = "raised" /\ UNCHANGED <<asked, answers, unknown>>
        BY <2>7, <3>2 DEF R!Answered, v
      <4>2. QED
        BY <2>5, <4>1
    <3>3. QED
      BY <3>1, <3>2
  <2>8. CASE R!ProviderFails
    BY <2>5, <2>8 DEF R!ProviderFails
  <2>9. plan.calls \in Int /\ asked \in Int /\ asked < plan.calls
    BY <1>0, <1>4, PlansAssumption DEF R!Asking
  <2>10. ~R!Exhausted
    BY <2>9 DEF R!Exhausted
  <2>11. ~R!Finish
    BY <1>0, <2>1 DEF R!Finish
  <2>12. (\E a \in ConditionAnswers(v) : R!Answered(a)) \/ R!TimedOut \/ R!ProviderFails
    BY <1>1, <2>10, <2>11 DEF R!Next, v
  <2>13. QED
    BY <2>4, <2>7, <2>8, <2>12
<1>5. CASE R!Exhausted
  <2>1. /\ asked' = Len(R!Windows) /\ pc' = "asking" /\ answers' = answers
        /\ unknown' = unknown \cup {R!Windows[i] : i \in (asked + 1)..Len(R!Windows)}
    BY <1>1, <1>5 DEF R!Exhausted
  <2>2. unknown' \subseteq AllWindows
    <3>1. \A i \in (asked + 1)..Len(R!Windows) : i \in 1..Len(R!Windows)
      BY <1>0
    <3>2. QED
      BY <1>0, <2>1, <3>1 DEF AllWindows
  <2>3. ASSUME NEW i \in 1..Len(R!Windows) PROVE DealtWith(i)'
    <3>1. CASE i \in 1..asked
      BY <1>0, <1>1, <2>1, <3>1 DEF DealtWith
    <3>2. CASE i \notin 1..asked
      <4>1. i \in (asked + 1)..Len(R!Windows)
        BY <1>0, <3>2
      <4>2. QED
        BY <1>1, <2>1, <4>1 DEF DealtWith
    <3>3. QED
      BY <3>1, <3>2
  <2>4. Len(R!Windows) \in 0..Len(R!Windows)
    BY <1>0
  <2>5. QED
    BY <1>0, <1>3, <2>1, <2>2, <2>3, <2>4
<1>6. CASE R!Finish
  <2>1. /\ asked = Len(R!Windows) /\ pc' = "done" /\ UNCHANGED <<asked, answers, unknown>>
        /\ analysis' = [disposition |-> R!Disposition, episodes |-> R!Episodes,
                        unknown |-> R!MergeRanges(unknown, 0)]
    BY <1>6 DEF R!Finish
  <2>2. R!Disposition' = R!Disposition /\ R!Episodes' = R!Episodes
    BY <2>1, ReasoningStands
  <2>3. \A i \in 1..asked : DealtWith(i)'
    BY <1>0, <1>1, <2>1 DEF DealtWith
  <2>4. QED
    BY <1>0, <1>1, <1>2, <2>1, <2>2, <2>3 DEF ReasoningInv
<1>7. QED
  BY <1>1, <1>4, <1>5, <1>6 DEF R!Next, R!Answered, R!TimedOut, R!ProviderFails

LEMMA ReasoningInvCorrect == Spec => []ReasoningInv
<1>1. Init => ReasoningInv
  <2> SUFFICES ASSUME Init, engine = "reasoning" PROVE ReasoningInv
    BY DEF ReasoningInv
  <2>1. plan \in Plans /\ pc = "asking" /\ asked = 0 /\ answers = <<>> /\ unknown = {}
    BY DEF Init, R!Init
  <2>2. Len(R!Windows) \in Nat
    BY <2>1, WindowsInPlan
  <2>3. DOMAIN answers = {} /\ 1..asked = {}
    BY <2>1
  <2>4. QED
    BY <2>1, <2>2, <2>3 DEF ReasoningInv
<1>2. ReasoningInv /\ [Next]_vars => ReasoningInv'
  <2> SUFFICES ASSUME ReasoningInv, [Next]_vars PROVE ReasoningInv'
    OBVIOUS
  <2>1. CASE ReasoningStep
    BY <2>1, ReasoningStepKeeps
  <2>2. CASE TrackedStep \/ SemanticStep \/ ProposalStep
    BY <2>2 DEF TrackedStep, SemanticStep, ProposalStep, ReasoningInv
  <2>3. CASE UNCHANGED vars
    <3>1. UNCHANGED <<engine, plan, pc, asked, answers, unknown, analysis>>
      BY <2>3 DEF vars, reasoning
    <3>2. R!Windows' = R!Windows /\ R!Episodes' = R!Episodes /\ R!Disposition' = R!Disposition
      BY <3>1, ReasoningStands
    <3>3. AllWindows' = AllWindows /\ \A i : DealtWith(i)' = DealtWith(i)
      BY <3>1, <3>2 DEF AllWindows, DealtWith
    <3>4. QED
      BY <3>1, <3>2, <3>3 DEF ReasoningInv
  <2>4. QED
    BY <2>1, <2>2, <2>3 DEF Next
<1>3. QED
  BY <1>1, <1>2, PTL DEF Spec

-----------------------------------------------------------------------------
(* The windows the service keeps lie in the range of the plan, so what it  *)
(* merges them into covers the same moments.                               *)
LEMMA KeptInPlan ==
  ASSUME plan \in Plans, NEW ws, ws \subseteq AllWindows
  PROVE  /\ plan.from \in Int /\ plan.to \in Int
         /\ Between(ws, plan.from, plan.to)
<1>1. plan.from \in Int /\ plan.to \in Int
  BY PlansAssumption
<1>2. ASSUME NEW w \in ws PROVE w \in Span /\ plan.from <= w.from /\ w.from < w.to /\ w.to <= plan.to
  <2>1. PICK i \in 1..Len(R!Windows) : w = R!Windows[i]
    BY DEF AllWindows
  <2>2. QED
    BY <2>1, WindowsInPlan
<1>3. QED
  BY <1>1, <1>2 DEF Between

(* A finished analysis has accounted for every moment of its source: it    *)
(* was answered for or is reported as unknown, and "absent" is only said   *)
(* of moments that were all watched (analyze, _windows, merge_time_ranges).*)
THEOREM NoMomentIsPassedOver == Spec => []NothingIsPassedOver
<1>1. ReasoningInv => NothingIsPassedOver
  <2> SUFFICES ASSUME ReasoningInv, engine = "reasoning", pc = "done", plan.stride <= plan.window
               PROVE  R!NothingIsPassedOver
    BY DEF NothingIsPassedOver, R!NothingIsPassedOver
  <2> DEFINE source  == R!Instants({[from |-> plan.from, to |-> plan.to]})
             sure    == {w \in DOMAIN answers : answers[w].decision # "uncertain"}
             absent  == {w \in DOMAIN answers : answers[w].decision = "absent"}
  <2>1. /\ plan \in Plans /\ unknown \subseteq AllWindows /\ asked = Len(R!Windows)
        /\ \A i \in 1..Len(R!Windows) : DealtWith(i)
        /\ analysis.disposition = R!Disposition
        /\ analysis.unknown = R!MergeRanges(unknown, 0)
    BY DEF ReasoningInv
  <2>2. R!Instants(unknown) \subseteq R!Instants(analysis.unknown)
    BY <2>1, KeptInPlan, MergedCovers
  <2>3. ASSUME NEW t \in source
        PROVE  \E i \in 1..Len(R!Windows) : t \in R!Windows[i].from..(R!Windows[i].to - 1)
    <3>1. t \in plan.from..(plan.to - 1)
      BY DEF R!Instants
    <3>2. QED
      BY <2>1, <3>1, WindowsInPlan
  <2>4. source \subseteq R!Instants(sure) \cup R!Instants(unknown)
    <3> SUFFICES ASSUME NEW t \in source
                 PROVE  t \in R!Instants(sure) \cup R!Instants(unknown)
      OBVIOUS
    <3>1. PICK i \in 1..Len(R!Windows) : t \in R!Windows[i].from..(R!Windows[i].to - 1)
      BY <2>3
    <3>2. R!Windows[i] \in unknown \/ R!Windows[i] \in sure
      BY <2>1 DEF DealtWith
    <3> HIDE DEF source, sure
    <3>3. QED
      BY <3>1, <3>2 DEF R!Instants
  <2>5. analysis.disposition = "absent" => source \subseteq R!Instants(absent)
    <3> SUFFICES ASSUME R!Disposition = "absent" PROVE source \subseteq R!Instants(absent)
      BY <2>1
    <3>1. unknown = {} /\ \A w \in DOMAIN answers : answers[w].decision = "absent"
      BY DEF R!Disposition
    <3>2. sure = absent
      BY <3>1
    <3>3. R!Instants(unknown) = {}
      BY <3>1 DEF R!Instants
    <3> HIDE DEF source, sure, absent
    <3>4. QED
      BY <2>4, <3>2, <3>3
  <2> HIDE DEF source, sure, absent
  <2>6. source \subseteq R!Instants(sure) \cup R!Instants(analysis.unknown)
    BY <2>2, <2>4
  <2>7. QED
    BY <2>5, <2>6 DEF R!NothingIsPassedOver, source, sure, absent
<1>2. QED
  BY <1>1, ReasoningInvCorrect, PTL

-----------------------------------------------------------------------------
(* An episode is made of moments the model said it saw the condition in,   *)
(* is apart from the others and has evidence of its own (_validate, the    *)
(* merge of the sightings).                                                *)
THEOREM SightingsMakeEpisodes == Spec => []EpisodesAreSeen
<1>1. ReasoningInv => EpisodesAreSeen
  <2> SUFFICES ASSUME ReasoningInv, engine = "reasoning", pc = "done"
               PROVE  R!EpisodesAreSeen
    BY DEF EpisodesAreSeen
  <2> DEFINE sightings == UNION {answers[w].ranges : w \in R!PresentAnswers}
             merged    == R!MergeRanges(sightings, 0)
             Proof(r)  == UNION {answers[w].refs : w \in {v \in R!PresentAnswers :
                              \E q \in answers[v].ranges : R!Overlap(q, r)}}
  <2>1. /\ plan \in Plans /\ DOMAIN answers \subseteq AllWindows
        /\ \A w \in DOMAIN answers : /\ answers[w].ranges \subseteq Span
                                     /\ R!Classifiable(answers[w], w) /\ R!Valid(answers[w])
        /\ analysis.episodes = R!Episodes
    BY DEF ReasoningInv
  <2>2. /\ plan.from \in Int /\ plan.to \in Int
        /\ Between(DOMAIN answers, plan.from, plan.to)
    BY <2>1, KeptInPlan
  <2>3. Between(sightings, plan.from, plan.to)
    <3>1. ASSUME NEW w \in R!PresentAnswers, NEW r \in answers[w].ranges
          PROVE  r \in Span /\ plan.from <= r.from /\ r.from < r.to /\ r.to <= plan.to
      <4>1. /\ w \in DOMAIN answers /\ r \in Span /\ w \in Span
            /\ plan.from <= w.from /\ w.to <= plan.to
        BY <2>1, <2>2 DEF R!PresentAnswers, Between
      <4>2. ~R!Empty(r) /\ w.from <= r.from /\ r.to <= w.to
        BY <2>1, <4>1 DEF R!Classifiable
      <4>3. r.from \in Int /\ r.to \in Int /\ w.from \in Int /\ w.to \in Int
        BY <4>1 DEF Span
      <4>4. QED
        BY <2>2, <4>1, <4>2, <4>3 DEF R!Empty
    <3>2. QED
      BY <3>1 DEF Between
  <2>4. /\ Between(merged, plan.from, plan.to)
        /\ \A e \in merged : \E h \in sightings : h.from = e.from /\ h.to <= e.to
        /\ R!Instants(merged) \subseteq R!Instants(sightings)
        /\ \A e, f \in merged : e # f => e.to < f.from \/ f.to < e.from
    <3> HIDE DEF sightings
    <3>1. Between(merged, plan.from, plan.to)
          /\ \A e \in merged : \E h \in sightings : h.from = e.from /\ h.to <= e.to
      BY <2>2, <2>3, MergedTypes
    <3>2. R!Instants(merged) \subseteq R!Instants(sightings)
      BY <2>2, <2>3, MergedIsCovered
    <3>3. \A e, f \in merged : e # f => e.to + 0 < f.from \/ f.to + 0 < e.from
      BY <2>2, <2>3, MergedApart
    <3>4. \A e \in merged : e.from \in Int /\ e.to \in Int
      BY <3>1 DEF Between, Span
    <3>5. QED
      BY <3>1, <3>2, <3>3, <3>4
  <2>5. R!Episodes = {[from |-> r.from, to |-> r.to, refs |-> Proof(r)] : r \in merged}
    BY DEF R!Episodes
  <2>6. ASSUME NEW r \in merged PROVE Proof(r) # {}
    <3>1. PICK h \in sightings : h.from = r.from /\ h.to <= r.to
      BY <2>4
    <3>2. PICK w \in R!PresentAnswers : h \in answers[w].ranges
      BY DEF sightings
    <3>3. /\ r.from \in Int /\ r.to \in Int /\ r.from < r.to
          /\ h.from \in Int /\ h.to \in Int /\ h.from < h.to
      BY <2>3, <2>4 DEF Between, Span
    <3>4. R!Overlap(h, r)
      BY <3>1, <3>3 DEF R!Overlap
    <3>5. answers[w].refs # {}
      BY <2>1 DEF R!PresentAnswers, R!Valid
    <3>6. answers[w].refs \subseteq Proof(r)
      BY <3>2, <3>4
    <3>7. QED
      BY <3>5, <3>6
  <2>7. ASSUME NEW r \in merged PROVE r.from \in Int /\ r.to \in Int /\ r.from < r.to
    BY <2>4 DEF Between, Span
  <2> HIDE DEF sightings, merged, Proof
  <2>8. ASSUME NEW e \in R!Episodes
        PROVE  \E r \in merged : e = [from |-> r.from, to |-> r.to, refs |-> Proof(r)]
    BY <2>5
  <2>9. R!Instants(R!Episodes) \subseteq R!Instants(sightings)
    <3>1. ASSUME NEW e \in R!Episodes, NEW t \in e.from..(e.to - 1)
          PROVE  t \in R!Instants(merged)
      <4>1. PICK r \in merged : e = [from |-> r.from, to |-> r.to, refs |-> Proof(r)]
        BY <2>8
      <4>2. QED
        BY <3>1, <4>1 DEF R!Instants
    <3>2. R!Instants(R!Episodes) \subseteq R!Instants(merged)
      BY <3>1 DEF R!Instants
    <3>3. QED
      BY <2>4, <3>2
  <2>10. ASSUME NEW e \in R!Episodes, NEW f \in R!Episodes, e # f
         PROVE  e.to < f.from \/ f.to < e.from
    <3>1. PICK r \in merged : e = [from |-> r.from, to |-> r.to, refs |-> Proof(r)]
      BY <2>8
    <3>2. PICK q \in merged : f = [from |-> q.from, to |-> q.to, refs |-> Proof(q)]
      BY <2>8
    <3>3. r # q
      BY <2>10, <3>1, <3>2
    <3>4. r.to < q.from \/ q.to < r.from
      BY <2>4, <3>3
    <3>5. QED
      BY <3>1, <3>2, <3>4
  <2>11. ASSUME NEW e \in R!Episodes PROVE e.refs # {} /\ ~R!Empty(e)
    <3>1. PICK r \in merged : e = [from |-> r.from, to |-> r.to, refs |-> Proof(r)]
      BY <2>8
    <3>2. QED
      BY <2>6, <2>7, <3>1 DEF R!Empty
  <2>12. QED
    BY <2>1, <2>9, <2>10, <2>11 DEF R!EpisodesAreSeen, sightings
<1>2. QED
  BY <1>1, ReasoningInvCorrect, PTL

-----------------------------------------------------------------------------
(* The engine for tracked rules: its frames, in the order of their times.  *)
Objects == UNION {s.objects : s \in Scenes}

Frame == [t : Nat, obj : Objects, place : DOMAIN Places, predicted : BOOLEAN, id : Nat,
          lamps : [Rois -> DOMAIN Lamps]]

EpisodeSet == [from : Int, to : Int, predicted : BOOLEAN]

TrackState == [time : Int, side : Int, pre : Int, prePred : BOOLEAN,
               inside : {"unset", "in", "out"}, entry : Int, episodes : SUBSET EpisodeSet]

(* Every frame is stamped with its source time, and times never go back.   *)
Watched ==
    /\ scene \in Scenes /\ file \in scene.files
    /\ seen \in Seq(Frame) /\ known \in Seq(Objects)
    /\ pc = "probe" => seen = <<>>
    /\ pc \in {"frames", "completed"} => T!Acceptable
    /\ \A k \in 1..Len(seen) : seen[k].t = T!SourceMs(k)
    /\ \A k, l \in 1..Len(seen) : k <= l => seen[k].t <= seen[l].t

(* The session's numbers name objects, for as long as it lasts; so of two  *)
(* frames that are no farther apart, the same number shows the same object.*)
Named ==
    /\ \A a, b \in 1..Len(known) : known[a] = known[b] => a = b
    /\ \A k \in 1..Len(seen) :
          seen[k].id # 0 /\ seen[Len(seen)].t - seen[k].t <= TrackGap =>
              seen[k].id \in 1..Len(known) /\ known[seen[k].id] = seen[k].obj
    /\ \A k, l \in 1..Len(seen) :
          k <= l /\ seen[k].id # 0 /\ seen[l].id # 0 /\ seen[l].t - seen[k].t <= TrackGap =>
              (seen[k].id = seen[l].id <=> seen[k].obj = seen[l].obj)

(* Frame m is the last that shows the track.                               *)
LastSeen(id, m) ==
    seen[m].id = id /\ \A k \in (m + 1)..Len(seen) : seen[k].id # id

(* What a track's state says of the frames up to the last that shows it.   *)
Approached(ts, m) ==
    ts.side = FromSide =>
        \E i \in 1..m :
            /\ seen[i].t = ts.pre /\ seen[i].predicted = ts.prePred
            /\ T!SideAt(i) = FromSide /\ T!Unbroken(i, m, seen[m].obj)
            /\ \A k \in (i + 1)..m : T!Shows(k, seen[m].obj) => T!SideAt(k) = 0

Entered(ts, m) ==
    ts.inside = "in" =>
        /\ \E i \in 1..m :
            /\ seen[i].t = ts.entry /\ seen[i].id = seen[m].id
            /\ T!Unbroken(i, m, seen[m].obj)
            /\ \A k \in i..m : T!Shows(k, seen[m].obj) => T!InsideAt(k)
        /\ \A ep \in ts.episodes : ep.to <= ts.entry

(* An episode a line rule, and one a zone rule, has collected.             *)
IsCrossing(ep, id) ==
    \E i, j \in 1..Len(seen) :
        /\ seen[i].t = ep.from /\ seen[j].t = ep.to /\ seen[j].id = id
        /\ T!Crosses(i, j, seen[j].obj)
        /\ ~ep.predicted => ~seen[i].predicted /\ ~seen[j].predicted

VisitOf(ep, id, i, j) ==
    /\ seen[i].t = ep.from /\ seen[i].id = id /\ seen[j].t = ep.to /\ seen[j].id = id
    /\ i < j /\ ep.from < ep.to
    /\ T!Unbroken(i, j, seen[i].obj) /\ ~T!InsideAt(j)
    /\ \A k \in i..(j - 1) : T!Shows(k, seen[i].obj) => T!InsideAt(k)

IsVisit(ep, id) == \E i, j \in 1..Len(seen) : VisitOf(ep, id, i, j)

(* A track's time is its last frame's, and what is kept of it tells of real *)
(* frames.                                                                 *)
TrackIs(id, ts) ==
    /\ id \in Nat \ {0} /\ ts \in TrackState
    /\ \E m \in 1..Len(seen) :
          /\ LastSeen(id, m) /\ ts.time = seen[m].t
          /\ IF scene.rule = "zone" THEN Entered(ts, m) ELSE Approached(ts, m)
    /\ \A ep \in ts.episodes :
          ep.to <= ts.time /\ IF scene.rule = "zone" THEN IsVisit(ep, id) ELSE IsCrossing(ep, id)

Followed == \A id \in DOMAIN tracks : TrackIs(id, tracks[id])

(* A lamp's intervals of red.                                              *)
RedFrom(r, first, last) ==
    \A k \in first..last : T!Classified(seen[k].lamps[r]) = "red"

Colours == {"none", "red", "amber", "green"}
Interval == [state : Colours, gaps : {{}}, from : Int, to : Int]
SignalState == [candidate : Colours, candidateSince : Int, confirmed : Colours,
                confirmedSince : Int, done : SUBSET Interval]

(* A lamp confirmed red has shown red since; an interval of red, until the *)
(* frame that ended it.                                                    *)
SignalIs(r, s) ==
    /\ s \in SignalState
    /\ s.confirmed = "red" =>
          \E first \in 1..Len(seen) :
              seen[first].t = s.confirmedSince /\ RedFrom(r, first, Len(seen))
    /\ \A d \in s.done : d.state = "red" =>
          \E first, end \in 1..Len(seen) :
              seen[first].t = d.from /\ seen[end].t = d.to /\ RedFrom(r, first, end - 1)

Lit == signals \in [Rois -> SignalState] /\ \A r \in Rois : SignalIs(r, signals[r])

(* What a completed run has recorded.                                      *)
Flushed ==
    pc = "completed" =>
        events = {c \in T!Candidates(file.duration) : c.disp \in {"supported", "inconclusive"}}
        /\ \A id \in DOMAIN tracks : \A ep \in T!OpenVisit(tracks[id], file.duration) : ~T!Empty(ep)

TrackedInv == engine = "tracked" => Watched /\ Named /\ Followed /\ Lit /\ Flushed

(* Timestamps are counted from the first frame.                            *)
LEMMA SourceMsType ==
  ASSUME Watched, pc = "frames"
  PROVE  /\ Len(file.pts) \in Nat
         /\ \A k \in 1..Len(file.pts) : T!SourceMs(k) \in Int
         /\ 1 <= Len(file.pts) => T!SourceMs(1) = 0
         /\ \A k \in 2..Len(file.pts) : T!SourceMs(k) >= T!SourceMs(k - 1)
         /\ file.duration \in Int
<1> DEFINE num == file.base[1]
           den == file.base[2]
<1>1. /\ file.pts \in Seq(Int) /\ file.duration \in Int
      /\ num \in Nat \ {0} /\ den \in Nat \ {0}
  BY ScenesAssumption DEF Watched
<1>2. Len(file.pts) \in Nat /\ \A k \in 1..Len(file.pts) : file.pts[k] \in Int
  BY <1>1, ElementIn
<1> HIDE DEF num, den
<1>3. den \div 2 \in Int /\ 0 <= den \div 2 /\ den \div 2 < den /\ (den \div 2) \div den = 0
  BY <1>1
<1>4. ASSUME NEW k \in 1..Len(file.pts) PROVE T!SourceMs(k) \in Int
  <2> DEFINE ticks == file.pts[k] - file.pts[1]
             x == ticks * num * 1000 + den \div 2
  <2>1. ticks \in Int
    BY <1>2
  <2> HIDE DEF ticks
  <2>2. x \in Int
    BY <1>1, <1>3, <2>1
  <2> HIDE DEF x
  <2>3. x \div den \in Int
    BY <1>1, <2>2
  <2>4. QED
    BY <2>3 DEF T!SourceMs, x, ticks, num, den
<1>5. ASSUME 1 <= Len(file.pts) PROVE T!SourceMs(1) = 0
  <2> DEFINE ticks == file.pts[1] - file.pts[1]
  <2>1. ticks = 0
    BY <1>2, <1>5
  <2> HIDE DEF ticks
  <2>2. ticks * num * 1000 + den \div 2 = den \div 2
    BY <1>1, <1>3, <2>1
  <2>3. QED
    BY <1>3, <2>2 DEF T!SourceMs, ticks, num, den
<1>6. \A k \in 2..Len(file.pts) : T!SourceMs(k) >= T!SourceMs(k - 1)
  BY DEF Watched, T!Acceptable
<1>7. QED
  BY <1>1, <1>2, <1>4, <1>5, <1>6

(* What one turn of the loop does when it does not fail.                   *)
Kept(sight) == sight.obj # NoObject /\ T!Detected(sight.place) = "kept"

Names(sight, t) ==
    IF Kept(sight) THEN T!Numbered(T!AfterGapCheck(t), sight.obj) ELSE T!AfterGapCheck(t)

NumberOf(sight, t) ==
    IF Kept(sight) THEN CHOOSE i \in DOMAIN Names(sight, t) : Names(sight, t)[i] = sight.obj
    ELSE 0

FrameOf(sight, t, lamps) ==
    [t |-> t, obj |-> sight.obj, place |-> sight.place, predicted |-> sight.predicted,
     id |-> NumberOf(sight, t), lamps |-> lamps]

Takes(sight, lamps, t) ==
    /\ pc = "frames" /\ pc' = pc /\ t = T!SourceMs(Len(seen) + 1) /\ Len(seen) < Len(file.pts)
    /\ seen' = Append(seen, FrameOf(sight, t, lamps))
    /\ known' = Names(sight, t)
    /\ signals' = [r \in Rois |-> T!SignalStep(signals[r], T!Classified(lamps[r]), t)]
    /\ tracks' = IF Kept(sight) THEN T!Observe(NumberOf(sight, t), sight, t) ELSE tracks
    /\ Kept(sight) => ~T!ReducerRaises(NumberOf(sight, t), sight, t)
    /\ events' = events

Ends ==
    /\ UNCHANGED <<seen, known, tracks, signals>>
    /\ \/ pc' \in {"failed", "cancelled"}
       \/ pc = "probe" /\ pc' = "frames" /\ T!Acceptable
    /\ events' = events

Completes ==
    /\ UNCHANGED <<seen, known, tracks, signals>>
    /\ pc = "frames" /\ pc' = "completed"
    /\ \A id \in DOMAIN tracks : \A ep \in T!OpenVisit(tracks[id], file.duration) : ~T!Empty(ep)
    /\ events' = {c \in T!Candidates(file.duration) : c.disp \in {"supported", "inconclusive"}}

(* What a step of the run does: it takes a frame, it completes, or it ends *)
(* otherwise or begins.                                                    *)
LEMMA TrackedSteps ==
  ASSUME T!Next
  PROVE  /\ scene' = scene /\ file' = file
         /\ \/ Ends \/ Completes
            \/ \E sight \in T!Sights, lamps \in scene.lamps, t \in {T!SourceMs(Len(seen) + 1)} :
                  Takes(sight, lamps, t)
<1>1. CASE T!Probe \/ T!Cancel \/ T!DecodeFails
  BY <1>1 DEF T!Probe, T!Cancel, T!DecodeFails, Ends
<1>2. CASE T!Complete
  BY <1>2 DEF T!Complete, Ends, Completes
<1>3. ASSUME NEW sight \in T!Sights, NEW lamps \in scene.lamps, T!TakeFrame(sight, lamps)
      PROVE  /\ scene' = scene /\ file' = file
             /\ Ends \/ Takes(sight, lamps, T!SourceMs(Len(seen) + 1))
  BY <1>3 DEF T!TakeFrame, Takes, Ends, Kept, Names, NumberOf, FrameOf
<1>4. QED
  BY <1>1, <1>2, <1>3 DEF T!Next

LEMMA SightType ==
  ASSUME Watched, NEW sight \in T!Sights, NEW lamps \in scene.lamps
  PROVE  /\ sight.obj \in Objects /\ sight.place \in DOMAIN Places /\ sight.predicted \in BOOLEAN
         /\ lamps \in [Rois -> DOMAIN Lamps]
<1>1. /\ scene \in Scenes /\ scene.places \subseteq DOMAIN Places /\ scene.places # {}
      /\ scene.predicted \subseteq BOOLEAN /\ scene.lamps \subseteq [Rois -> DOMAIN Lamps]
  BY ScenesAssumption DEF Watched
<1>2. scene.objects \subseteq Objects
  BY <1>1 DEF Objects
<1>3. CASE \E o \in scene.objects \ {NoObject}, p \in scene.places, b \in scene.predicted :
              sight = [obj |-> o, place |-> p, predicted |-> b]
  BY <1>1, <1>2, <1>3
<1>4. CASE /\ NoObject \in scene.objects
           /\ sight = [obj |-> NoObject, place |-> CHOOSE p \in scene.places : TRUE,
                       predicted |-> FALSE]
  <2>1. (CHOOSE p \in scene.places : TRUE) \in scene.places
    BY <1>1
  <2>2. QED
    BY <1>1, <1>2, <1>4, <2>1
<1>5. QED
  BY <1>1, <1>3, <1>4 DEF T!Sights

LEMMA NowIs ==
  ASSUME Watched, seen # <<>>
  PROVE  T!Now = seen[Len(seen)].t /\ Len(seen) \in 1..Len(seen)
BY DEF Watched, T!Now, T!Last

(* The numbers the session knows when it has looked at a new frame.        *)
LEMMA NamesAre ==
  ASSUME Watched, Named, NEW sight \in T!Sights, sight.obj \in Objects, NEW t \in Nat,
         \A k \in 1..Len(seen) : seen[k].t <= t
  PROVE  LET names == Names(sight, t)  n == NumberOf(sight, t) IN
         /\ names \in Seq(Objects)
         /\ \A a, b \in 1..Len(names) : names[a] = names[b] => a = b
         /\ n \in Nat /\ (n # 0 <=> Kept(sight))
         /\ n # 0 => n \in 1..Len(names) /\ names[n] = sight.obj
         /\ \A k \in 1..Len(seen) :
               seen[k].id # 0 /\ t - seen[k].t <= TrackGap =>
                   seen[k].id \in 1..Len(names) /\ names[seen[k].id] = seen[k].obj
<1>1. /\ known \in Seq(Objects) /\ Len(known) \in Nat /\ DOMAIN known = 1..Len(known)
      /\ seen \in Seq(Frame) /\ Len(seen) \in Nat
      /\ \A k \in 1..Len(seen) : seen[k] \in Frame /\ seen[k].t \in Nat /\ seen[k].id \in Nat
      /\ TrackGap \in Nat
  <2>1. seen \in Seq(Frame)
    BY DEF Watched
  <2>2. \A k \in 1..Len(seen) : seen[k] \in Frame
    BY <2>1, ElementIn
  <2>3. QED
    BY <2>1, <2>2, ScenesAssumption DEF Watched, Frame
<1> DEFINE kept == T!AfterGapCheck(t)
           names == Names(sight, t)
           n == NumberOf(sight, t)
<1>2. /\ kept \in Seq(Objects) /\ Len(kept) \in Nat /\ DOMAIN kept = 1..Len(kept)
      /\ \A a, b \in 1..Len(kept) : kept[a] = kept[b] => a = b
      /\ \A k \in 1..Len(seen) : seen[k].id # 0 /\ t - seen[k].t <= TrackGap =>
             seen[k].id \in 1..Len(kept) /\ kept[seen[k].id] = seen[k].obj
  <2>1. CASE seen # <<>> /\ t - T!Now > TrackGap
    <3>1. kept = <<>>
      BY <2>1 DEF T!AfterGapCheck
    <3>2. ASSUME NEW k \in 1..Len(seen) PROVE ~(t - seen[k].t <= TrackGap)
      <4>1. T!Now = seen[Len(seen)].t /\ Len(seen) \in 1..Len(seen)
        BY <2>1, NowIs
      <4>2. seen[k].t <= seen[Len(seen)].t
        BY <1>1, <4>1 DEF Watched
      <4>3. QED
        BY <1>1, <2>1, <4>1, <4>2
    <3>3. QED
      BY <3>1, <3>2
  <2>2. CASE ~(seen # <<>> /\ t - T!Now > TrackGap)
    <3>1. kept = known
      BY <2>2 DEF T!AfterGapCheck
    <3>2. ASSUME NEW k \in 1..Len(seen), seen[k].id # 0, t - seen[k].t <= TrackGap
          PROVE  seen[k].id \in 1..Len(known) /\ known[seen[k].id] = seen[k].obj
      <4>1. Len(seen) \in 1..Len(seen) /\ seen[Len(seen)].t <= t
        BY <1>1
      <4>2. seen[Len(seen)].t - seen[k].t <= TrackGap
        BY <1>1, <3>2, <4>1
      <4>3. QED
        BY <3>2, <4>2 DEF Named
    <3>3. QED
      BY <1>1, <3>1, <3>2 DEF Named
  <2>3. QED
    BY <2>1, <2>2
<1>3. CASE ~Kept(sight)
  BY <1>2, <1>3 DEF Names, NumberOf
<1>4. CASE Kept(sight)
  <2>1. names = IF sight.obj \in T!ToSet(kept) THEN kept ELSE Append(kept, sight.obj)
    BY <1>4 DEF Names, T!Numbered
  <2> HIDE DEF kept
  <2>2. /\ names \in Seq(Objects) /\ Len(names) \in Nat /\ DOMAIN names = 1..Len(names)
        /\ \A a, b \in 1..Len(names) : names[a] = names[b] => a = b
        /\ \A a \in 1..Len(kept) : a \in 1..Len(names) /\ names[a] = kept[a]
        /\ \E i \in 1..Len(names) : names[i] = sight.obj
    <3>1. CASE sight.obj \in T!ToSet(kept)
      <4>1. \E i \in 1..Len(kept) : kept[i] = sight.obj
        BY <1>2, <3>1 DEF T!ToSet
      <4>2. QED
        BY <1>2, <2>1, <3>1, <4>1
    <3>2. CASE sight.obj \notin T!ToSet(kept)
      <4>1. \A i \in 1..Len(kept) : kept[i] # sight.obj
        BY <1>2, <3>2 DEF T!ToSet
      <4>2. /\ names = Append(kept, sight.obj) /\ Len(names) = Len(kept) + 1
            /\ names[Len(kept) + 1] = sight.obj
            /\ \A a \in 1..Len(kept) : names[a] = kept[a]
        BY <1>2, <2>1, <3>2
      <4>3. names \in Seq(Objects) /\ DOMAIN names = 1..Len(names)
        BY <1>2, <4>2
      <4>4. \A a, b \in 1..Len(names) : names[a] = names[b] => a = b
        BY <1>2, <4>1, <4>2
      <4>5. QED
        BY <1>2, <4>2, <4>3, <4>4
    <3>3. QED
      BY <3>1, <3>2
  <2>3. n = CHOOSE i \in DOMAIN names : names[i] = sight.obj
    BY <1>4 DEF NumberOf
  <2> HIDE DEF names, n
  <2>4. n \in 1..Len(names) /\ names[n] = sight.obj
    BY <2>2, <2>3
  <2>5. n \in Nat /\ n # 0
    BY <2>2, <2>4
  <2>6. QED
    BY <1>2, <1>4, <2>2, <2>4, <2>5 DEF names, n
<1>5. QED
  BY <1>3, <1>4

LEMMA FrameTaken ==
  ASSUME Watched, Named, NEW sight \in T!Sights, NEW lamps \in scene.lamps, NEW t,
         Takes(sight, lamps, t)
  PROVE  /\ t \in Nat /\ \A k \in 1..Len(seen) : seen[k].t <= t
         /\ FrameOf(sight, t, lamps) \in Frame
<1>1. /\ seen \in Seq(Frame) /\ Len(seen) \in Nat /\ \A k \in 1..Len(seen) : seen[k].t \in Nat
  <2>1. seen \in Seq(Frame)
    BY DEF Watched
  <2>2. \A k \in 1..Len(seen) : seen[k] \in Frame
    BY <2>1, ElementIn
  <2>3. QED
    BY <2>1, <2>2 DEF Frame
<1> DEFINE n == Len(seen)
<1>2. pc = "frames" /\ t = T!SourceMs(n + 1) /\ n + 1 \in 1..Len(file.pts)
  BY <1>1, SourceMsType DEF Takes
<1>3. t \in Int
  BY <1>2, SourceMsType
<1>4. ASSUME n = 0 PROVE t = 0
  BY <1>1, <1>2, <1>3, <1>4, SourceMsType
<1>5. ASSUME n # 0 PROVE t \in Nat /\ \A k \in 1..Len(seen) : seen[k].t <= t
  <2>1. t >= T!SourceMs((n + 1) - 1) /\ (n + 1) - 1 = n /\ n \in 1..Len(seen)
    BY <1>1, <1>2, <1>5, SourceMsType
  <2>2. t >= seen[n].t
    BY <2>1 DEF Watched
  <2>3. \A k \in 1..Len(seen) : seen[k].t <= seen[n].t
    BY <1>1, <2>1 DEF Watched
  <2>4. QED
    BY <1>1, <1>3, <2>1, <2>2, <2>3
<1>6. t \in Nat /\ \A k \in 1..Len(seen) : seen[k].t <= t
  BY <1>1, <1>4, <1>5
<1>7. NumberOf(sight, t) \in Nat
  BY <1>6, SightType, NamesAre
<1>8. FrameOf(sight, t, lamps) \in Frame
  BY <1>6, <1>7, SightType DEF FrameOf, Frame
<1>9. QED
  BY <1>6, <1>8

LEMMA SeenGrows ==
  ASSUME Watched, NEW f \in Frame, seen' = Append(seen, f)
  PROVE  /\ Len(seen) \in Nat /\ Len(seen') = Len(seen) + 1 /\ seen' \in Seq(Frame)
         /\ \A k \in 1..Len(seen) : seen'[k] = seen[k] /\ seen[k] \in Frame
         /\ seen'[Len(seen) + 1] = f
<1>1. seen \in Seq(Frame)
  BY DEF Watched
<1>2. \A k \in 1..Len(seen) : seen[k] \in Frame
  BY <1>1, ElementIn
<1>3. QED
  BY <1>1, <1>2

(* Times are in order, and the numbers of the session name objects, after  *)
(* every step.                                                             *)
LEMMA WatchedStep == Watched /\ Named /\ [T!Next]_(T!vars) => Watched' /\ Named'
<1> SUFFICES ASSUME Watched, Named, [T!Next]_(T!vars) PROVE Watched' /\ Named'
  OBVIOUS
<1>1. CASE UNCHANGED T!vars
  <2>1. /\ scene' = scene /\ file' = file /\ seen' = seen /\ known' = known /\ pc' = pc
    BY <1>1 DEF T!vars
  <2>2. QED
    BY <2>1 DEF Watched, Named, T!Acceptable, T!SourceMs
<1>2. CASE scene' = scene /\ file' = file /\ (Ends \/ Completes)
  <2>1. /\ seen' = seen /\ known' = known
        /\ pc' # "probe" /\ (pc' \in {"frames", "completed"} => T!Acceptable)
    BY <1>2 DEF Ends, Completes, Watched
  <2>2. QED
    BY <1>2, <2>1 DEF Watched, Named, T!Acceptable, T!SourceMs
<1>3. ASSUME scene' = scene, file' = file,
             NEW sight \in T!Sights, NEW lamps \in scene.lamps, NEW t, Takes(sight, lamps, t)
      PROVE  Watched' /\ Named'
  <2> DEFINE n == Len(seen)
             f == FrameOf(sight, t, lamps)
             names == Names(sight, t)
             i == NumberOf(sight, t)
  <2>1. t \in Nat /\ (\A k \in 1..n : seen[k].t <= t) /\ f \in Frame
    BY <1>3, FrameTaken
  <2>2. seen' = Append(seen, f) /\ known' = names /\ pc' = pc /\ pc = "frames"
        /\ t = T!SourceMs(n + 1)
    BY <1>3 DEF Takes
  <2>3. f.t = t /\ f.id = i /\ f.obj = sight.obj
    BY DEF FrameOf
  <2>4. /\ names \in Seq(Objects)
        /\ \A a, b \in 1..Len(names) : names[a] = names[b] => a = b
        /\ i \in Nat /\ (i # 0 => i \in 1..Len(names) /\ names[i] = sight.obj)
        /\ \A k \in 1..n :
               seen[k].id # 0 /\ t - seen[k].t <= TrackGap =>
                   seen[k].id \in 1..Len(names) /\ names[seen[k].id] = seen[k].obj
    BY <1>3, <2>1, SightType, NamesAre
  <2> HIDE DEF f, names, i
  <2>5. /\ n \in Nat /\ Len(seen') = n + 1 /\ seen' \in Seq(Frame)
        /\ \A k \in 1..n : seen'[k] = seen[k] /\ seen[k] \in Frame
        /\ seen'[n + 1] = f
    BY <2>1, <2>2, SeenGrows
  <2> HIDE DEF n
  <2>6. \A k \in 1..n : seen[k].t \in Nat /\ seen[k].id \in Nat
    BY <2>5 DEF Frame
  <2>7. Watched'
    <3>1. \A k \in 1..(n + 1) : seen'[k].t = T!SourceMs(k)'
      <4>1. \A k : T!SourceMs(k)' = T!SourceMs(k)
        BY <1>3 DEF T!SourceMs
      <4>2. \A k \in 1..n : seen[k].t = T!SourceMs(k)
        BY DEF Watched, n
      <4>3. QED
        BY <2>2, <2>3, <2>5, <4>1, <4>2
    <3>2. \A k, l \in 1..(n + 1) : k <= l => seen'[k].t <= seen'[l].t
      <4>1. \A k, l \in 1..n : k <= l => seen[k].t <= seen[l].t
        BY DEF Watched, n
      <4>2. QED
        BY <2>1, <2>3, <2>5, <2>6, <4>1
    <3>3. T!Acceptable'
      BY <1>3, <2>2 DEF Watched, T!Acceptable, T!SourceMs
    <3>4. QED
      BY <1>3, <2>2, <2>4, <2>5, <3>1, <3>2, <3>3 DEF Watched
  <2>8. Named'
    <3>1. \A k \in 1..(n + 1) :
             seen'[k].id # 0 /\ seen'[n + 1].t - seen'[k].t <= TrackGap =>
                 seen'[k].id \in 1..Len(names) /\ names[seen'[k].id] = seen'[k].obj
      BY <2>3, <2>4, <2>5
    <3>2. ASSUME NEW k \in 1..(n + 1), NEW l \in 1..(n + 1), k <= l,
                 seen'[k].id # 0, seen'[l].id # 0, seen'[l].t - seen'[k].t <= TrackGap
          PROVE  seen'[k].id = seen'[l].id <=> seen'[k].obj = seen'[l].obj
      <4>1. CASE l \in 1..n
        <5>1. k \in 1..n
          BY <2>5, <3>2, <4>1
        <5>2. QED
          BY <2>5, <3>2, <4>1, <5>1 DEF Named, n
      <4>2. CASE l = n + 1
        <5>1. /\ seen'[k].id \in 1..Len(names) /\ names[seen'[k].id] = seen'[k].obj
              /\ seen'[l].id \in 1..Len(names) /\ names[seen'[l].id] = seen'[l].obj
          <6>1. seen'[n + 1].t - seen'[n + 1].t <= TrackGap
            BY <2>1, <2>3, <2>5, ScenesAssumption
          <6>2. QED
            BY <3>1, <3>2, <4>2, <6>1
        <5>2. QED
          BY <2>4, <5>1
      <4>3. QED
        BY <2>5, <4>1, <4>2
    <3>3. QED
      <4>1. \A a, b \in 1..Len(known') : known'[a] = known'[b] => a = b
        BY <2>2, <2>4
      <4>2. \A k \in 1..Len(seen') :
               seen'[k].id # 0 /\ seen'[Len(seen')].t - seen'[k].t <= TrackGap =>
                   seen'[k].id \in 1..Len(known') /\ known'[seen'[k].id] = seen'[k].obj
        BY <2>2, <2>5, <3>1
      <4>3. \A k, l \in 1..Len(seen') :
               k <= l /\ seen'[k].id # 0 /\ seen'[l].id # 0 /\ seen'[l].t - seen'[k].t <= TrackGap =>
                   (seen'[k].id = seen'[l].id <=> seen'[k].obj = seen'[l].obj)
        BY <2>5, <3>2
      <4>4. QED
        BY <4>1, <4>2, <4>3 DEF Named
  <2>9. QED
    BY <2>7, <2>8
<1>4. QED
  BY <1>1, <1>2, <1>3, TrackedSteps
-----------------------------------------------------------------------------
(* What was filmed is not changed by a new frame, ...                      *)
LEMMA PastStays ==
  ASSUME Watched, NEW f \in Frame, seen' = Append(seen, f),
         NEW i \in 1..Len(seen), NEW j \in 1..Len(seen), NEW obj
  PROVE  /\ T!Shows(i, obj)' <=> T!Shows(i, obj)
         /\ T!SideAt(i)' = T!SideAt(i) /\ (T!InsideAt(i)' <=> T!InsideAt(i))
         /\ T!Unbroken(i, j, obj)' <=> T!Unbroken(i, j, obj)
         /\ T!Crosses(i, j, obj)' <=> T!Crosses(i, j, obj)
<1>1. Len(seen) \in Nat /\ \A k \in 1..Len(seen) : seen'[k] = seen[k]
  BY SeenGrows
<1>2. \A k \in 1..Len(seen) : /\ T!Shows(k, obj)' <=> T!Shows(k, obj)
                              /\ T!SideAt(k)' = T!SideAt(k)
                              /\ T!InsideAt(k)' <=> T!InsideAt(k)
  BY <1>1 DEF T!Shows, T!SideAt, T!InsideAt
<1>3. \A k \in i..j : k \in 1..Len(seen)
  BY <1>1
<1>4. T!Unbroken(i, j, obj)' <=> T!Unbroken(i, j, obj)
  <2>1. \A k \in i..(j - 1) : k \in i..j /\ \A l \in (k + 1)..j : l \in i..j
    BY <1>1
  <2> SUFFICES (\A k \in i..(j - 1) : T!Shows(k, obj)' =>
                   \E l \in (k + 1)..j : T!Shows(l, obj)' /\ seen'[l].t - seen'[k].t <= RuleGap)
               <=> (\A k \in i..(j - 1) : T!Shows(k, obj) =>
                   \E l \in (k + 1)..j : T!Shows(l, obj) /\ seen[l].t - seen[k].t <= RuleGap)
    BY <1>2 DEF T!Unbroken
  <2>2. \A k \in i..(j - 1), l \in i..j : 
             (T!Shows(l, obj)' <=> T!Shows(l, obj)) /\ (T!Shows(k, obj)' <=> T!Shows(k, obj))
             /\ seen'[l].t = seen[l].t /\ seen'[k].t = seen[k].t
    BY <1>1, <1>2, <1>3, <2>1
  <2>3. QED
    BY <2>1, <2>2
<1>5. T!Crosses(i, j, obj)' <=> T!Crosses(i, j, obj)
  <2>1. \A k \in (i + 1)..(j - 1) : k \in 1..Len(seen)
    BY <1>1
  <2>2. (\A k \in (i + 1)..(j - 1) : T!Shows(k, obj)' => T!SideAt(k)' = 0)
        <=> (\A k \in (i + 1)..(j - 1) : T!Shows(k, obj) => T!SideAt(k) = 0)
    BY <1>2, <2>1
  <2>3. QED
    BY <1>2, <1>4, <2>2 DEF T!Crosses
<1>6. QED
  BY <1>2, <1>4, <1>5

LEMMA EpisodesStay ==
  ASSUME Watched, NEW f \in Frame, seen' = Append(seen, f), NEW ep, NEW id
  PROVE  /\ IsCrossing(ep, id) => IsCrossing(ep, id)'
         /\ IsVisit(ep, id) => IsVisit(ep, id)'
<1>1. /\ Len(seen) \in Nat /\ Len(seen') = Len(seen) + 1
      /\ \A k \in 1..Len(seen) : seen'[k] = seen[k] /\ k \in 1..Len(seen')
  BY SeenGrows
<1>2. ASSUME IsCrossing(ep, id) PROVE IsCrossing(ep, id)'
  <2>1. PICK i \in 1..Len(seen), j \in 1..Len(seen) :
            /\ seen[i].t = ep.from /\ seen[j].t = ep.to /\ seen[j].id = id
            /\ T!Crosses(i, j, seen[j].obj)
            /\ ~ep.predicted => ~seen[i].predicted /\ ~seen[j].predicted
    BY <1>2 DEF IsCrossing
  <2>2. \A obj : T!Crosses(i, j, obj) => T!Crosses(i, j, obj)'
    BY PastStays
  <2>3. T!Crosses(i, j, seen[j].obj) /\ seen'[j] = seen[j]
    BY <1>1, <2>1
  <2> DEFINE o == seen[j].obj
  <2>4. \A obj : obj = seen'[j].obj /\ T!Crosses(i, j, obj)' => T!Crosses(i, j, seen[j].obj)'
    OBVIOUS
  <2>5. T!Crosses(i, j, seen[j].obj)'
    BY <2>2, <2>3, <2>4
  <2>6. QED
    BY <1>1, <2>1, <2>5 DEF IsCrossing
<1>3. ASSUME IsVisit(ep, id) PROVE IsVisit(ep, id)'
  <2>1. PICK i \in 1..Len(seen), j \in 1..Len(seen) :
            /\ seen[i].t = ep.from /\ seen[i].id = id /\ seen[j].t = ep.to /\ seen[j].id = id
            /\ i < j /\ ep.from < ep.to
            /\ T!Unbroken(i, j, seen[i].obj) /\ ~T!InsideAt(j)
            /\ \A k \in i..(j - 1) : T!Shows(k, seen[i].obj) => T!InsideAt(k)
    BY <1>3 DEF IsVisit, VisitOf
  <2>2. \A obj : T!Unbroken(i, j, obj) => T!Unbroken(i, j, obj)'
    BY PastStays
  <2>3. \A obj : obj = seen'[i].obj /\ T!Unbroken(i, j, obj)' => T!Unbroken(i, j, seen[i].obj)'
    OBVIOUS
  <2>4. T!Unbroken(i, j, seen[i].obj)'
    BY <1>1, <2>1, <2>2, <2>3
  <2>5. ~T!InsideAt(j)'
    BY <2>1, PastStays
  <2>6. ASSUME NEW k \in i..(j - 1), T!Shows(k, seen[i].obj)' PROVE T!InsideAt(k)'
    <3>1. k \in 1..Len(seen) /\ k \in i..(j - 1)
      BY <1>1
    <3>2. \A obj : T!Shows(k, obj)' <=> T!Shows(k, obj)
      BY <3>1, PastStays
    <3>3. T!InsideAt(k)' <=> T!InsideAt(k)
      BY <3>1, PastStays
    <3>4. \A obj : obj = seen'[i].obj /\ T!Shows(k, seen[i].obj)' => T!Shows(k, obj)'
      OBVIOUS
    <3>5. T!Shows(k, seen[i].obj)
      BY <1>1, <2>6, <3>2, <3>4
    <3>6. QED
      BY <2>1, <3>1, <3>3, <3>5
  <2>7. QED
    BY <1>1, <2>1, <2>4, <2>5, <2>6 DEF IsVisit, VisitOf
<1>4. QED
  BY <1>2, <1>3

(* ... and when an object was seen within the rules' gap before it, under  *)
(* the number it is given now, it is the same one, still in sight.         *)
LEMMA StillInSight ==
  ASSUME Watched, Named', NEW f \in Frame, seen' = Append(seen, f), f.id # 0,
         NEW n, n = Len(seen), NEW m \in 1..n, LastSeen(f.id, m), f.t - seen[m].t <= RuleGap,
         \A k \in 1..n : seen[k].t <= f.t
  PROVE  /\ seen[m].obj = f.obj
         /\ \A k \in (m + 1)..n : ~T!Shows(k, f.obj)
         /\ \A i \in 1..m : T!Unbroken(i, m, f.obj) => T!Unbroken(i, n + 1, f.obj)'
<1>1. /\ n \in Nat /\ Len(seen') = n + 1 /\ seen'[n + 1] = f
      /\ \A k \in 1..n : seen'[k] = seen[k] /\ seen[k].t \in Nat /\ seen[k].id \in Nat
      /\ f.t \in Nat /\ f.id \in Nat
      /\ RuleGap \in Nat /\ TrackGap \in Nat /\ RuleGap <= TrackGap
  BY SeenGrows, ScenesAssumption DEF Frame
<1>2. \A k \in m..n : seen[m].t <= seen[k].t
  BY <1>1 DEF Watched
<1>3. ASSUME NEW k \in m..n, seen[k].id # 0
      PROVE  seen[k].id = f.id <=> seen[k].obj = f.obj
  <2>1. k \in 1..(n + 1) /\ n + 1 \in 1..(n + 1) /\ k <= n + 1 /\ k \in 1..n
    BY <1>1
  <2>2. f.t - seen[k].t <= TrackGap
    BY <1>1, <1>2, <2>1
  <2>3. \A a, b \in 1..(n + 1) :
           a <= b /\ seen'[a].id # 0 /\ seen'[b].id # 0 /\ seen'[b].t - seen'[a].t <= TrackGap =>
               (seen'[a].id = seen'[b].id <=> seen'[a].obj = seen'[b].obj)
    <3>1. \A a, b \in 1..Len(seen') :
             a <= b /\ seen'[a].id # 0 /\ seen'[b].id # 0 /\ seen'[b].t - seen'[a].t <= TrackGap =>
                 (seen'[a].id = seen'[b].id <=> seen'[a].obj = seen'[b].obj)
      BY Zenon DEF Named
    <3>2. \A a \in 1..(n + 1) : a \in 1..Len(seen')
      BY <1>1
    <3>3. QED
      BY <3>1, <3>2, Zenon
  <2>4. seen'[k] = seen[k] /\ seen'[n + 1] = f
    BY <1>1, <2>1
  <2>5. QED
    BY <1>3, <2>1, <2>2, <2>3, <2>4
<1>4. seen[m].obj = f.obj
  BY <1>1, <1>3 DEF LastSeen
<1>5. \A k \in (m + 1)..n : ~T!Shows(k, f.obj)
  <2>1. \A k \in (m + 1)..n : k \in m..n
    BY <1>1
  <2>2. QED
    BY <1>3, <2>1 DEF LastSeen, T!Shows
<1>6. ASSUME NEW i \in 1..m, T!Unbroken(i, m, f.obj)
      PROVE  T!Unbroken(i, n + 1, f.obj)'
  <2>1. \A k \in 1..n : T!Shows(k, f.obj)' <=> T!Shows(k, f.obj)
    BY PastStays
  <2>2. T!Shows(n + 1, f.obj)'
    BY <1>1 DEF T!Shows
  <2>3. T!Shows(i, f.obj)'
    BY <1>1, <1>6, <2>1 DEF T!Unbroken
  <2>4. ASSUME NEW k \in i..n, T!Shows(k, f.obj)'
        PROVE  \E l \in (k + 1)..(n + 1) :
                  T!Shows(l, f.obj)' /\ seen'[l].t - seen'[k].t <= RuleGap
    <3>1. CASE k < m
      <4>1. k \in i..(m - 1) /\ T!Shows(k, f.obj) /\ k \in 1..n
        BY <1>1, <2>1, <2>4, <3>1
      <4>2. PICK l \in (k + 1)..m : T!Shows(l, f.obj) /\ seen[l].t - seen[k].t <= RuleGap
        BY <1>6, <4>1 DEF T!Unbroken
      <4>3. l \in (k + 1)..(n + 1) /\ l \in 1..n
        BY <1>1, <4>1
      <4>4. QED
        BY <1>1, <2>1, <4>1, <4>2, <4>3
    <3>2. CASE k = m
      <4>1. n + 1 \in (k + 1)..(n + 1)
        BY <1>1, <3>2
      <4>2. QED
        BY <1>1, <2>2, <3>2, <4>1
    <3>3. CASE m < k
      BY <1>1, <1>5, <2>1, <2>4, <3>3
    <3>4. k \in Int /\ m \in Int
      BY <1>1
    <3>5. k < m \/ k = m \/ m < k
      BY <3>4
    <3>6. QED
      BY <3>1, <3>2, <3>3, <3>5
  <2>5. i..((n + 1) - 1) = i..n
    BY <1>1
  <2>6. QED
    BY <2>2, <2>3, <2>4, <2>5 DEF T!Unbroken
<1>7. QED
  BY <1>4, <1>5, <1>6
-----------------------------------------------------------------------------
(* What a rule makes of one more sighting.                                 *)
SideOf(sight) == T!LineSide(T!BoxAnchor(Places[sight.place].box, "bottom_left"), Line, Band)

(* States with some of their parts replaced.                               *)
Approaching(ts, s, p, b) == [ts EXCEPT !.side = s, !.pre = p, !.prePred = b]
Crossing(ts, s, p, e) == [ts EXCEPT !.side = s, !.pre = p, !.prePred = FALSE, !.episodes = e]
Leaving(ts, t, e) == [ts EXCEPT !.inside = "out", !.entry = t, !.episodes = e]

LEMMA ApproachingIs ==
  ASSUME NEW ts \in TrackState, NEW s \in Int, NEW p \in Int, NEW b \in BOOLEAN
  PROVE  /\ Approaching(ts, s, p, b) \in TrackState
         /\ Approaching(ts, s, p, b).time = ts.time /\ Approaching(ts, s, p, b).side = s
         /\ Approaching(ts, s, p, b).pre = p /\ Approaching(ts, s, p, b).prePred = b
         /\ Approaching(ts, s, p, b).episodes = ts.episodes
BY DEF TrackState, Approaching

LEMMA CrossingIs ==
  ASSUME NEW ts \in TrackState, NEW s \in Int, NEW p \in Int, NEW e \in SUBSET EpisodeSet
  PROVE  /\ Crossing(ts, s, p, e) \in TrackState
         /\ Crossing(ts, s, p, e).time = ts.time /\ Crossing(ts, s, p, e).side = s
         /\ Crossing(ts, s, p, e).episodes = e
BY DEF TrackState, Crossing

LEMMA LeavingIs ==
  ASSUME NEW ts \in TrackState, NEW p \in Int, NEW e \in SUBSET EpisodeSet
  PROVE  /\ Leaving(ts, p, e) \in TrackState
         /\ Leaving(ts, p, e).time = ts.time /\ Leaving(ts, p, e).inside = "out"
         /\ Leaving(ts, p, e).episodes = e
BY DEF TrackState, Leaving

LEMMA OneMore ==
  ASSUME NEW ts \in TrackState, NEW ep \in EpisodeSet
  PROVE  ts.episodes \cup {ep} \in SUBSET EpisodeSet
BY DEF TrackState

LEMMA FreshIs ==
  /\ T!Fresh \in TrackState /\ T!Fresh.time = -1 /\ T!Fresh.side = 0
  /\ T!Fresh.inside = "unset" /\ T!Fresh.episodes = {}
BY DEF T!Fresh, T!NoTime, TrackState

LineOutcome(r, ts0, sight, t) ==
    LET side == SideOf(sight) IN
    /\ r \in TrackState /\ r.time = t
    /\ r.side = FromSide =>
          \/ side = FromSide /\ r.pre = t /\ r.prePred = sight.predicted
          \/ /\ side = 0 /\ ~T!Gap(ts0, t) /\ ts0.side = FromSide
             /\ r.pre = ts0.pre /\ r.prePred = ts0.prePred
    /\ \A ep \in r.episodes :
          \/ ~T!Gap(ts0, t) /\ ep \in ts0.episodes
          \/ /\ ~T!Gap(ts0, t) /\ ts0.side = FromSide /\ side = ToSide
             /\ ep.from = ts0.pre /\ ep.to = t
             /\ ~ep.predicted => ~ts0.prePred /\ ~sight.predicted

(* What a sighting makes of the state a line rule keeps of a track.        *)
LEMMA LineStepIs ==
  ASSUME NEW ts0 \in TrackState, NEW t \in Nat, NEW sight, sight.predicted \in BOOLEAN
  PROVE  LineOutcome(T!LineStep(ts0, sight, t), ts0, sight, t)
<1> DEFINE r == T!LineStep(ts0, sight, t)
           side == SideOf(sight)
           ts == T!AfterLineGap(ts0, t)
<1>1. side \in {-1, 0, 1}
  BY DEF SideOf, T!LineSide
<1>2. T!Fresh \in TrackState /\ T!Fresh.side = 0 /\ T!Fresh.episodes = {}
  BY FreshIs
<1>3. /\ ts \in TrackState /\ ts.time = t
      /\ T!Gap(ts0, t) => ts.side = 0 /\ ts.episodes = {}
      /\ ~T!Gap(ts0, t) => /\ ts.side = ts0.side /\ ts.pre = ts0.pre /\ ts.prePred = ts0.prePred
                           /\ ts.episodes = ts0.episodes
  <2>1. CASE T!Gap(ts0, t)
    <3>1. ts = [T!Fresh EXCEPT !.time = t]
      BY <2>1 DEF T!AfterLineGap
    <3>2. QED
      BY <1>2, <2>1, <3>1 DEF TrackState
  <2>2. CASE ~T!Gap(ts0, t)
    <3>1. ts = [ts0 EXCEPT !.time = t]
      BY <2>2 DEF T!AfterLineGap
    <3>2. QED
      BY <2>2, <3>1 DEF TrackState
  <2>3. QED
    BY <2>1, <2>2
<1> DEFINE ep0 == T!Episode(ts.pre, t, ts.prePred \/ sight.predicted)
<1>4. r = IF side = 0 THEN ts
          ELSE IF ts.side = FromSide /\ side = ToSide THEN T!Crossed(ts, side, ep0)
          ELSE IF side = FromSide
          THEN [ts EXCEPT !.side = side, !.pre = t, !.prePred = sight.predicted]
          ELSE [ts EXCEPT !.side = side]
  BY ScenesAssumption DEF T!LineStep, SideOf, T!IsValidCrossing
<1>5. /\ ep0 \in EpisodeSet /\ ep0.from = ts.pre /\ ep0.to = t
      /\ ~ep0.predicted => ~ts.prePred /\ ~sight.predicted
  <2>1. ts.pre \in Int /\ ts.prePred \in BOOLEAN
    BY <1>3 DEF TrackState
  <2>2. QED
    BY <2>1 DEF T!Episode, EpisodeSet
<1> HIDE DEF r, side, ts, ep0
<1>6. CASE side = 0
  BY <1>3, <1>4, <1>6, ScenesAssumption DEF r, side, LineOutcome
<1>7. CASE side # 0 /\ ts.side = FromSide /\ side = ToSide
  <2>1. r = Crossing(ts, side, T!NoTime, ts.episodes \cup {ep0})
    BY <1>4, <1>7 DEF T!Crossed, Crossing
  <2>2. /\ r \in TrackState /\ r.time = t /\ r.side = side
        /\ r.episodes = ts.episodes \cup {ep0}
    <3>1. side \in Int /\ T!NoTime \in Int /\ ts.episodes \cup {ep0} \in SUBSET EpisodeSet
      BY <1>1, <1>3, <1>5, OneMore DEF T!NoTime
    <3>2. QED
      BY <1>3, <2>1, <3>1, CrossingIs
  <2>3. ~T!Gap(ts0, t) /\ ts0.side = FromSide
    BY <1>3, <1>7, ScenesAssumption
  <2>4. \A ep \in r.episodes : ep \in ts0.episodes \/ ep = ep0
    BY <1>3, <2>2, <2>3
  <2>5. QED
    BY <1>3, <1>5, <1>7, <2>2, <2>3, <2>4, ScenesAssumption DEF r, side, LineOutcome
<1>8. CASE side # 0 /\ ~(ts.side = FromSide /\ side = ToSide) /\ side = FromSide
  <2>1. r = Approaching(ts, side, t, sight.predicted)
    BY <1>4, <1>8 DEF Approaching
  <2>2. /\ r \in TrackState /\ r.time = t /\ r.side = side /\ r.pre = t
        /\ r.prePred = sight.predicted /\ r.episodes = ts.episodes
    <3>1. PICK q : q = sight.predicted
      OBVIOUS
    <3>2. q \in BOOLEAN /\ side \in Int /\ t \in Int /\ ts \in TrackState /\ ts.time = t
      BY <1>1, <1>3, <3>1
    <3>3. r = Approaching(ts, side, t, q)
      BY <2>1, <3>1
    <3>4. QED
      BY <3>1, <3>2, <3>3, ApproachingIs
  <2>3. QED
    BY <1>3, <1>8, <2>2 DEF r, side, LineOutcome
<1>9. CASE side # 0 /\ ~(ts.side = FromSide /\ side = ToSide) /\ side # FromSide
  <2>1. r = [ts EXCEPT !.side = side]
    BY <1>4, <1>9
  <2>2. r \in TrackState /\ r.time = t /\ r.side = side /\ r.episodes = ts.episodes
    BY <1>1, <1>3, <2>1 DEF TrackState
  <2>3. QED
    BY <1>3, <1>9, <2>2 DEF r, side, LineOutcome
<1>10. QED
  BY <1>6, <1>7, <1>8, <1>9

ZoneOutcome(r, ts0, inside, t) ==
    /\ r \in TrackState /\ r.time = t
    /\ r.inside = "in" =>
          /\ inside
          /\ \/ r.entry = t
             \/ /\ ~T!Gap(ts0, t) /\ ts0.inside = "in"
                /\ r.entry = ts0.entry /\ r.episodes = ts0.episodes
    /\ \A ep \in r.episodes :
          \/ ep \in ts0.episodes
          \/ /\ ~T!Gap(ts0, t) /\ ts0.inside = "in" /\ ~inside
             /\ ep.from = ts0.entry /\ ep.to = t

(* What a sighting makes of the state a zone rule keeps of a track.        *)
LEMMA ZoneStepIs ==
  ASSUME NEW ts0 \in TrackState, NEW t \in Nat, NEW sight
  PROVE  ZoneOutcome(T!ZoneStep(ts0, sight, t), ts0, T!ZoneInside(sight), t)
<1> DEFINE r == T!ZoneStep(ts0, sight, t)
           inside == T!ZoneInside(sight)
           ts == T!AfterZoneGap(ts0, t)
           ep0 == T!Episode(ts.entry, t, FALSE)
<1>1. T!Fresh \in TrackState /\ T!Fresh.inside = "unset" /\ T!Fresh.episodes = {}
  BY FreshIs
<1>2. /\ ts \in TrackState /\ ts.time = t /\ ts.episodes \subseteq ts0.episodes
      /\ ts.inside = "in" => /\ ~T!Gap(ts0, t) /\ ts0.inside = "in" /\ ts.entry = ts0.entry
                             /\ ts.episodes = ts0.episodes
  <2>1. CASE T!Gap(ts0, t) /\ ts0.inside = "in"
    <3>1. ts = [T!Fresh EXCEPT !.time = t]
      BY <2>1 DEF T!AfterZoneGap
    <3>2. QED
      BY <1>1, <2>1, <3>1 DEF TrackState
  <2>2. CASE ~(T!Gap(ts0, t) /\ ts0.inside = "in")
    <3>1. ts = [ts0 EXCEPT !.time = t]
      BY <2>2 DEF T!AfterZoneGap
    <3>2. QED
      BY <2>2, <3>1 DEF TrackState
  <2>3. QED
    BY <2>1, <2>2
<1>3. r = IF inside /\ ts.inside # "in" THEN [ts EXCEPT !.inside = "in", !.entry = t]
          ELSE IF ~inside /\ ts.inside = "in"
          THEN [ts EXCEPT !.inside = "out", !.entry = T!NoTime, !.episodes = @ \cup {ep0}]
          ELSE [ts EXCEPT !.inside = IF inside THEN "in" ELSE "out"]
  BY DEF T!ZoneStep
<1>4. ep0 \in EpisodeSet /\ ep0.from = ts.entry /\ ep0.to = t
  <2>1. ts.entry \in Int
    BY <1>2 DEF TrackState
  <2>2. QED
    BY <2>1 DEF T!Episode, EpisodeSet
<1> HIDE DEF r, inside, ts, ep0
<1>5. CASE inside /\ ts.inside # "in"
  <2>1. r = [ts EXCEPT !.inside = "in", !.entry = t]
    BY <1>3, <1>5
  <2>2. r \in TrackState /\ r.time = t /\ r.entry = t /\ r.episodes = ts.episodes
    BY <1>2, <2>1 DEF TrackState
  <2>3. QED
    BY <1>2, <1>5, <2>2 DEF r, inside, ZoneOutcome
<1>6. CASE ~inside /\ ts.inside = "in"
  <2>1. r = Leaving(ts, T!NoTime, ts.episodes \cup {ep0})
    BY <1>3, <1>6 DEF Leaving
  <2>2. /\ r \in TrackState /\ r.time = t /\ r.inside = "out"
        /\ r.episodes = ts.episodes \cup {ep0}
    <3>1. T!NoTime \in Int /\ ts.episodes \cup {ep0} \in SUBSET EpisodeSet
      BY <1>2, <1>4, OneMore DEF T!NoTime
    <3>2. QED
      BY <1>2, <2>1, <3>1, LeavingIs
  <2>3. \A ep \in r.episodes : ep \in ts0.episodes \/ ep = ep0
    BY <1>2, <2>2
  <2>4. QED
    BY <1>2, <1>4, <1>6, <2>2, <2>3 DEF r, inside, ZoneOutcome
<1>7. CASE ~(inside /\ ts.inside # "in") /\ ~(~inside /\ ts.inside = "in")
  <2>1. r = [ts EXCEPT !.inside = IF inside THEN "in" ELSE "out"]
    BY <1>3, <1>7
  <2>2. /\ r \in TrackState /\ r.time = t /\ r.episodes = ts.episodes /\ r.entry = ts.entry
        /\ r.inside = IF inside THEN "in" ELSE "out"
    BY <1>2, <2>1 DEF TrackState
  <2>3. QED
    BY <1>2, <1>7, <2>2 DEF r, inside, ZoneOutcome
<1>8. QED
  BY <1>5, <1>6, <1>7

LEMMA StateStays ==
  ASSUME Watched, NEW f \in Frame, seen' = Append(seen, f), NEW ts, NEW m \in 1..Len(seen)
  PROVE  /\ Approached(ts, m) => Approached(ts, m)'
         /\ Entered(ts, m) => Entered(ts, m)'
<1>1. Len(seen) \in Nat /\ \A k \in 1..Len(seen) : seen'[k] = seen[k]
  BY SeenGrows
<1>2. \A i \in 1..m : \A k \in i..m : i \in 1..Len(seen) /\ k \in 1..Len(seen)
  BY <1>1
<1>3. \A k \in 1..Len(seen), l \in 1..Len(seen) : \A obj :
         /\ T!Shows(k, obj)' <=> T!Shows(k, obj)
         /\ T!SideAt(k)' = T!SideAt(k) /\ (T!InsideAt(k)' <=> T!InsideAt(k))
         /\ T!Unbroken(k, l, obj)' <=> T!Unbroken(k, l, obj)
  BY PastStays
<1>4. \A k \in 1..Len(seen) : \A obj : obj = seen[m].obj =>
         /\ T!Shows(k, seen[m].obj)' <=> T!Shows(k, obj)
         /\ T!Unbroken(k, m, seen[m].obj)' <=> T!Unbroken(k, m, obj)
  <2>1. \A k, obj : obj = seen'[m].obj =>
           /\ T!Shows(k, seen[m].obj)' <=> T!Shows(k, obj)'
           /\ T!Unbroken(k, m, seen[m].obj)' <=> T!Unbroken(k, m, obj)'
    OBVIOUS
  <2>2. QED
    BY <1>1, <1>3, <2>1
<1>5. ASSUME Approached(ts, m), ts.side = FromSide
      PROVE  \E i \in 1..m :
                /\ seen'[i].t = ts.pre /\ seen'[i].predicted = ts.prePred
                /\ T!SideAt(i)' = FromSide /\ T!Unbroken(i, m, seen[m].obj)'
                /\ \A k \in (i + 1)..m : T!Shows(k, seen[m].obj)' => T!SideAt(k)' = 0
  <2>1. PICK i \in 1..m :
            /\ seen[i].t = ts.pre /\ seen[i].predicted = ts.prePred
            /\ T!SideAt(i) = FromSide /\ T!Unbroken(i, m, seen[m].obj)
            /\ \A k \in (i + 1)..m : T!Shows(k, seen[m].obj) => T!SideAt(k) = 0
    BY <1>5 DEF Approached
  <2>2. i \in 1..Len(seen) /\ \A k \in (i + 1)..m : k \in 1..Len(seen)
    BY <1>1
  <2>3. QED
    BY <1>1, <1>3, <1>4, <2>1, <2>2
<1>6. ASSUME Entered(ts, m), ts.inside = "in"
      PROVE  /\ \E i \in 1..m :
                  /\ seen'[i].t = ts.entry /\ seen'[i].id = seen'[m].id
                  /\ T!Unbroken(i, m, seen[m].obj)'
                  /\ \A k \in i..m : T!Shows(k, seen[m].obj)' => T!InsideAt(k)'
             /\ \A ep \in ts.episodes : ep.to <= ts.entry
  <2>1. PICK i \in 1..m :
            /\ seen[i].t = ts.entry /\ seen[i].id = seen[m].id
            /\ T!Unbroken(i, m, seen[m].obj)
            /\ \A k \in i..m : T!Shows(k, seen[m].obj) => T!InsideAt(k)
    BY <1>6 DEF Entered
  <2>2. i \in 1..Len(seen) /\ \A k \in i..m : k \in 1..Len(seen)
    BY <1>1
  <2>3. QED
    BY <1>1, <1>3, <1>4, <1>6, <2>1, <2>2 DEF Entered
<1>7. QED
  BY <1>5, <1>6 DEF Approached, Entered

(* A frame of another number changes nothing that is said of a track.      *)
LEMMA OthersStay ==
  ASSUME Watched, NEW f \in Frame, seen' = Append(seen, f), scene' = scene,
         NEW id, NEW ts, TrackIs(id, ts), f.id # id
  PROVE  TrackIs(id, ts)'
<1>1. /\ Len(seen) \in Nat /\ Len(seen') = Len(seen) + 1 /\ seen'[Len(seen) + 1] = f
      /\ \A k \in 1..Len(seen) : seen'[k] = seen[k] /\ k \in 1..Len(seen')
  BY SeenGrows
<1>2. PICK m \in 1..Len(seen) :
          /\ LastSeen(id, m) /\ ts.time = seen[m].t
          /\ IF scene.rule = "zone" THEN Entered(ts, m) ELSE Approached(ts, m)
  BY DEF TrackIs
<1>3. LastSeen(id, m)'
  <2>1. \A k \in (m + 1)..Len(seen') : k \in (m + 1)..Len(seen) \/ k = Len(seen) + 1
    BY <1>1
  <2>2. \A k \in (m + 1)..Len(seen) : k \in 1..Len(seen)
    BY <1>1
  <2>3. \A k \in (m + 1)..Len(seen') : seen'[k].id # id
    BY <1>1, <1>2, <2>1, <2>2 DEF LastSeen
  <2>4. QED
    BY <1>1, <1>2, <2>3 DEF LastSeen
<1>4. m \in 1..Len(seen') /\ ts.time = seen'[m].t
  BY <1>1, <1>2
<1>5. (IF scene.rule = "zone" THEN Entered(ts, m) ELSE Approached(ts, m))'
  BY <1>2, StateStays
<1>6. \A ep \in ts.episodes :
         (ep.to <= ts.time /\ IF scene.rule = "zone" THEN IsVisit(ep, id) ELSE IsCrossing(ep, id))'
  <2>1. \A ep : /\ IsCrossing(ep, id) => IsCrossing(ep, id)'
                /\ IsVisit(ep, id) => IsVisit(ep, id)'
    BY EpisodesStay
  <2>2. QED
    BY <2>1 DEF TrackIs
<1>7. QED
  BY <1>3, <1>4, <1>5, <1>6 DEF TrackIs
(* A sighting makes a track's state say as much of the frames up to it.    *)
LEMMA LineFollows ==
  ASSUME ToldTruly, Watched, Named', NEW f \in Frame, NEW n, n = Len(seen),
         seen' = Append(seen, f), f.id # 0, \A k \in 1..n : seen[k].t <= f.t,
         scene' = scene, scene.rule # "zone",
         NEW ts0, TrackIs(f.id, ts0) \/ ts0 = T!Fresh,
         NEW ts, ts = T!LineStep(ts0, f, f.t)
  PROVE  TrackIs(f.id, ts)'
<1>1. /\ n \in Nat /\ Len(seen') = n + 1 /\ seen'[n + 1] = f
      /\ \A k \in 1..n : seen'[k] = seen[k] /\ k \in 1..(n + 1) /\ seen[k].t \in Nat
      /\ f.t \in Nat /\ f.id \in Nat \ {0} /\ f.predicted \in BOOLEAN /\ f.place \in DOMAIN Places
  BY SeenGrows DEF Frame
<1> DEFINE side == SideOf(f)
<1>2. ts0 \in TrackState /\ T!Fresh.side = 0 /\ T!Fresh.episodes = {}
  BY FreshIs DEF TrackIs
<1>3. /\ ts \in TrackState /\ ts.time = f.t
      /\ ts.side = FromSide =>
            \/ side = FromSide /\ ts.pre = f.t /\ ts.prePred = f.predicted
            \/ /\ side = 0 /\ ~T!Gap(ts0, f.t) /\ ts0.side = FromSide
               /\ ts.pre = ts0.pre /\ ts.prePred = ts0.prePred
      /\ \A ep \in ts.episodes :
            \/ ~T!Gap(ts0, f.t) /\ ep \in ts0.episodes
            \/ /\ ~T!Gap(ts0, f.t) /\ ts0.side = FromSide /\ side = ToSide
               /\ ep.from = ts0.pre /\ ep.to = f.t
               /\ ~ep.predicted => ~ts0.prePred /\ ~f.predicted
  <2>1. LineOutcome(ts, ts0, f, f.t)
    BY <1>1, <1>2, LineStepIs
  <2>2. QED
    BY <2>1 DEF LineOutcome
<1>4. T!SideAt(n + 1)' = side /\ T!Shows(n + 1, f.obj)'
  <2>1. side = Places[f.place].side
    BY <1>1 DEF ToldTruly, SideOf
  <2>2. \A k : /\ T!SideAt(k)' = Places[seen'[k].place].side
               /\ T!Shows(k, f.obj)' <=> (seen'[k].obj = f.obj /\ seen'[k].id # 0)
    BY DEF T!SideAt, T!Shows
  <2>3. QED
    BY <1>1, <2>1, <2>2
<1> HIDE DEF side
<1>5. LastSeen(f.id, n + 1)'
  BY <1>1 DEF LastSeen
(* The approach before this frame, still in sight.                         *)
<1>6. ASSUME ~T!Gap(ts0, f.t), ts0.side = FromSide
      PROVE  \E i \in 1..n :
                /\ seen[i].t = ts0.pre /\ seen[i].predicted = ts0.prePred
                /\ T!SideAt(i)' = FromSide /\ T!Unbroken(i, n + 1, f.obj)'
                /\ \A k \in (i + 1)..n : T!Shows(k, f.obj)' => T!SideAt(k)' = 0
  <2>1. TrackIs(f.id, ts0)
    BY <1>2, <1>6, ScenesAssumption
  <2>2. PICK m \in 1..n : LastSeen(f.id, m) /\ ts0.time = seen[m].t /\ Approached(ts0, m)
    BY <2>1 DEF TrackIs
  <2>3. f.t - seen[m].t <= RuleGap
    <3>1. ts0.time # -1 /\ ~(f.t - ts0.time > RuleGap)
      BY <1>1, <1>6, <2>2 DEF T!Gap, T!NoTime
    <3>2. QED
      BY <1>1, <2>2, <3>1, ScenesAssumption
  <2>4. /\ seen[m].obj = f.obj
        /\ \A k \in (m + 1)..n : ~T!Shows(k, f.obj)
        /\ \A i \in 1..m : T!Unbroken(i, m, f.obj) => T!Unbroken(i, n + 1, f.obj)'
    BY <2>2, <2>3, StillInSight
  <2>5. PICK i \in 1..m :
            /\ seen[i].t = ts0.pre /\ seen[i].predicted = ts0.prePred
            /\ T!SideAt(i) = FromSide /\ T!Unbroken(i, m, f.obj)
            /\ \A k \in (i + 1)..m : T!Shows(k, f.obj) => T!SideAt(k) = 0
    BY <1>6, <2>2, <2>4 DEF Approached
  <2>6. i \in 1..n /\ \A k \in (i + 1)..n : k \in 1..n /\ (k \in (i + 1)..m \/ k \in (m + 1)..n)
    BY <1>1
  <2>7. \A k \in 1..n : /\ T!Shows(k, f.obj)' <=> T!Shows(k, f.obj)
                        /\ T!SideAt(k)' = T!SideAt(k)
    BY PastStays
  <2>8. QED
    BY <2>4, <2>5, <2>6, <2>7
<1>7. Approached(ts, n + 1)'
  <2> SUFFICES ASSUME ts.side = FromSide
               PROVE  \E i \in 1..(n + 1) :
                          /\ seen'[i].t = ts.pre /\ seen'[i].predicted = ts.prePred
                          /\ T!SideAt(i)' = FromSide /\ T!Unbroken(i, n + 1, f.obj)'
                          /\ \A k \in (i + 1)..(n + 1) : T!Shows(k, f.obj)' => T!SideAt(k)' = 0
    <3>1. \A i, o : o = f.obj => /\ T!Unbroken(i, n + 1, o)' = T!Unbroken(i, n + 1, f.obj)'
                                 /\ T!Shows(i, o)' = T!Shows(i, f.obj)'
      OBVIOUS
    <3>2. QED
      BY <1>1 DEF Approached
  <2>1. CASE side = FromSide /\ ts.pre = f.t /\ ts.prePred = f.predicted
    <3>1. T!Unbroken(n + 1, n + 1, f.obj)'
      <4>1. \A k \in (n + 1)..((n + 1) - 1) : FALSE
        BY <1>1
      <4>2. QED
        BY <1>4, <4>1 DEF T!Unbroken
    <3>2. n + 1 \in 1..(n + 1) /\ \A k \in ((n + 1) + 1)..(n + 1) : FALSE
      BY <1>1
    <3>3. QED
      BY <1>1, <1>4, <2>1, <3>1, <3>2
  <2>2. CASE /\ side = 0 /\ ~T!Gap(ts0, f.t) /\ ts0.side = FromSide
             /\ ts.pre = ts0.pre /\ ts.prePred = ts0.prePred
    <3>1. PICK i \in 1..n :
              /\ seen[i].t = ts0.pre /\ seen[i].predicted = ts0.prePred
              /\ T!SideAt(i)' = FromSide /\ T!Unbroken(i, n + 1, f.obj)'
              /\ \A k \in (i + 1)..n : T!Shows(k, f.obj)' => T!SideAt(k)' = 0
      BY <1>6, <2>2
    <3>2. i \in 1..(n + 1) /\ \A k \in (i + 1)..(n + 1) : k \in (i + 1)..n \/ k = n + 1
      BY <1>1
    <3>3. QED
      BY <1>1, <1>4, <2>2, <3>1, <3>2
  <2>3. QED
    BY <1>3, <2>1, <2>2
<1>8. ASSUME NEW ep \in ts.episodes PROVE ep.to <= ts.time /\ IsCrossing(ep, f.id)'
  <2>1. CASE ep \in ts0.episodes
    <3>1. TrackIs(f.id, ts0)
      BY <1>2, <2>1
    <3>2. PICK m \in 1..n : ts0.time = seen[m].t
      BY <3>1 DEF TrackIs
    <3>3. ep.to <= ts0.time /\ IsCrossing(ep, f.id)
      BY <2>1, <3>1 DEF TrackIs
    <3>4. ep.to \in Int /\ ts0.time \in Int
      BY <1>2, <2>1 DEF TrackState, EpisodeSet
    <3>5. QED
      BY <1>1, <1>3, <3>2, <3>3, <3>4, EpisodesStay
  <2>2. CASE /\ ~T!Gap(ts0, f.t) /\ ts0.side = FromSide /\ side = ToSide
             /\ ep.from = ts0.pre /\ ep.to = f.t
             /\ ~ep.predicted => ~ts0.prePred /\ ~f.predicted
    <3>1. PICK i \in 1..n :
              /\ seen[i].t = ts0.pre /\ seen[i].predicted = ts0.prePred
              /\ T!SideAt(i)' = FromSide /\ T!Unbroken(i, n + 1, f.obj)'
              /\ \A k \in (i + 1)..n : T!Shows(k, f.obj)' => T!SideAt(k)' = 0
      BY <1>6, <2>2
    <3>2. i < n + 1 /\ (i + 1)..((n + 1) - 1) = (i + 1)..n /\ n + 1 \in 1..(n + 1)
          /\ i \in 1..(n + 1)
      BY <1>1
    <3>3. T!Crosses(i, n + 1, f.obj)'
      BY <1>4, <2>2, <3>1, <3>2 DEF T!Crosses
    <3>4. \A o : o = f.obj => T!Crosses(i, n + 1, o)' = T!Crosses(i, n + 1, f.obj)'
      OBVIOUS
    <3>5. /\ seen'[i].t = ep.from /\ seen'[n + 1].t = ep.to /\ seen'[n + 1].id = f.id
          /\ T!Crosses(i, n + 1, seen[n + 1].obj)'
          /\ ~ep.predicted => ~seen'[i].predicted /\ ~seen'[n + 1].predicted
      BY <1>1, <2>2, <3>1, <3>3, <3>4
    <3>6. ep.to <= ts.time
      BY <1>1, <1>3, <2>2
    <3>7. QED
      BY <1>1, <3>2, <3>5, <3>6 DEF IsCrossing
  <2>3. QED
    BY <1>3, <2>1, <2>2
<1>9. n + 1 \in 1..(n + 1) /\ ts.time = seen'[n + 1].t
  BY <1>1, <1>3
<1>10. QED
  BY <1>1, <1>3, <1>5, <1>7, <1>8, <1>9 DEF TrackIs

LEMMA UpTo ==
  ASSUME NEW i \in Int, NEW n \in Int, NEW k \in i..(n + 1)
  PROVE  k \in i..n \/ k = n + 1
OBVIOUS

LEMMA ZoneFollows ==
  ASSUME ToldTruly, Watched, Named', NEW f \in Frame, NEW n, n = Len(seen),
         seen' = Append(seen, f), f.id # 0, \A k \in 1..n : seen[k].t <= f.t,
         scene' = scene, scene.rule = "zone",
         NEW ts0, TrackIs(f.id, ts0) \/ ts0 = T!Fresh,
         NEW ts, ts = T!ZoneStep(ts0, f, f.t), \A ep \in ts.episodes : ~T!Empty(ep)
  PROVE  TrackIs(f.id, ts)'
<1>1. /\ n \in Nat /\ Len(seen') = n + 1 /\ seen'[n + 1] = f
      /\ \A k \in 1..n : seen'[k] = seen[k] /\ k \in 1..(n + 1) /\ seen[k].t \in Nat
      /\ f.t \in Nat /\ f.id \in Nat \ {0} /\ f.place \in DOMAIN Places
  BY SeenGrows DEF Frame
<1> DEFINE inside == T!ZoneInside(f)
<1>2. ts0 \in TrackState /\ T!Fresh.inside = "unset" /\ T!Fresh.episodes = {}
  BY FreshIs DEF TrackIs
<1>3. /\ ts \in TrackState /\ ts.time = f.t
      /\ ts.inside = "in" =>
            /\ inside
            /\ \/ ts.entry = f.t
               \/ /\ ~T!Gap(ts0, f.t) /\ ts0.inside = "in"
                  /\ ts.entry = ts0.entry /\ ts.episodes = ts0.episodes
      /\ \A ep \in ts.episodes :
            \/ ep \in ts0.episodes
            \/ /\ ~T!Gap(ts0, f.t) /\ ts0.inside = "in" /\ ~inside
               /\ ep.from = ts0.entry /\ ep.to = f.t
  <2>1. ZoneOutcome(ts, ts0, inside, f.t)
    BY <1>1, <1>2, ZoneStepIs
  <2>2. QED
    BY <2>1 DEF ZoneOutcome
<1>4. (T!InsideAt(n + 1)' <=> inside) /\ T!Shows(n + 1, f.obj)'
  <2>1. inside = Places[f.place].inside
    BY <1>1 DEF ToldTruly, T!ZoneInside
  <2>2. \A k : /\ T!InsideAt(k)' <=> Places[seen'[k].place].inside
               /\ T!Shows(k, f.obj)' <=> (seen'[k].obj = f.obj /\ seen'[k].id # 0)
    BY DEF T!InsideAt, T!Shows
  <2>3. QED
    BY <1>1, <2>1, <2>2
<1> HIDE DEF inside
<1>5. LastSeen(f.id, n + 1)'
  BY <1>1 DEF LastSeen
(* The stay before this frame, still in sight.                             *)
<1>6. ASSUME ~T!Gap(ts0, f.t), ts0.inside = "in"
      PROVE  /\ \E i \in 1..n :
                  /\ seen[i].t = ts0.entry /\ seen[i].id = f.id /\ seen[i].obj = f.obj
                  /\ T!Unbroken(i, n + 1, f.obj)'
                  /\ \A k \in i..n : T!Shows(k, f.obj)' => T!InsideAt(k)'
             /\ \A ep \in ts0.episodes : ep.to <= ts0.entry
  <2>1. TrackIs(f.id, ts0)
    BY <1>2, <1>6
  <2>2. PICK m \in 1..n : LastSeen(f.id, m) /\ ts0.time = seen[m].t /\ Entered(ts0, m)
    BY <2>1 DEF TrackIs
  <2>3. f.t - seen[m].t <= RuleGap
    <3>1. ts0.time # -1 /\ ~(f.t - ts0.time > RuleGap)
      BY <1>1, <1>6, <2>2 DEF T!Gap, T!NoTime
    <3>2. QED
      BY <1>1, <2>2, <3>1, ScenesAssumption
  <2>4. /\ seen[m].obj = f.obj
        /\ \A k \in (m + 1)..n : ~T!Shows(k, f.obj)
        /\ \A i \in 1..m : T!Unbroken(i, m, f.obj) => T!Unbroken(i, n + 1, f.obj)'
    BY <2>2, <2>3, StillInSight
  <2>5. PICK i \in 1..m :
            /\ seen[i].t = ts0.entry /\ seen[i].id = seen[m].id
            /\ T!Unbroken(i, m, f.obj)
            /\ \A k \in i..m : T!Shows(k, f.obj) => T!InsideAt(k)
    BY <1>6, <2>2, <2>4 DEF Entered
  <2>6. i \in 1..n /\ \A k \in i..n : k \in 1..n /\ (k \in i..m \/ k \in (m + 1)..n)
    BY <1>1
  <2>7. \A k \in 1..n : /\ T!Shows(k, f.obj)' <=> T!Shows(k, f.obj)
                        /\ T!InsideAt(k)' <=> T!InsideAt(k)
    BY PastStays
  <2>8. seen[i].obj = f.obj
    BY <2>5 DEF T!Unbroken, T!Shows
  <2>9. \A ep \in ts0.episodes : ep.to <= ts0.entry
    BY <1>6, <2>2 DEF Entered
  <2>10. \A k \in i..n : T!Shows(k, f.obj)' => T!InsideAt(k)'
    BY <2>4, <2>5, <2>6, <2>7
  <2>11. seen[i].id = f.id /\ T!Unbroken(i, n + 1, f.obj)'
    BY <2>2, <2>4, <2>5 DEF LastSeen
  <2>12. QED
    BY <2>5, <2>6, <2>8, <2>9, <2>10, <2>11
<1>7. \A ep \in ts0.episodes : ep.to <= f.t /\ IsVisit(ep, f.id)
  <2>1. ASSUME NEW ep \in ts0.episodes PROVE ep.to <= f.t /\ IsVisit(ep, f.id)
    <3>1. TrackIs(f.id, ts0)
      BY <1>2, <2>1
    <3>2. PICK m \in 1..n : ts0.time = seen[m].t
      BY <3>1 DEF TrackIs
    <3>3. ep.to <= ts0.time /\ IsVisit(ep, f.id)
      BY <2>1, <3>1 DEF TrackIs
    <3>4. ep.to \in Int /\ ts0.time \in Int
      BY <1>2, <2>1 DEF TrackState, EpisodeSet
    <3>5. QED
      BY <1>1, <3>2, <3>3, <3>4
  <2>2. QED
    BY <2>1
<1>8. Entered(ts, n + 1)'
  <2> SUFFICES ASSUME ts.inside = "in"
               PROVE  /\ \E i \in 1..(n + 1) :
                            /\ seen'[i].t = ts.entry /\ seen'[i].id = f.id
                            /\ T!Unbroken(i, n + 1, f.obj)'
                            /\ \A k \in i..(n + 1) : T!Shows(k, f.obj)' => T!InsideAt(k)'
                      /\ \A ep \in ts.episodes : ep.to <= ts.entry
    <3>1. \A i, o : o = f.obj => /\ T!Unbroken(i, n + 1, o)' = T!Unbroken(i, n + 1, f.obj)'
                                 /\ T!Shows(i, o)' = T!Shows(i, f.obj)'
      OBVIOUS
    <3>2. QED
      BY <1>1 DEF Entered
  <2>1. CASE ts.entry = f.t
    <3>1. T!Unbroken(n + 1, n + 1, f.obj)'
      <4>1. \A k \in (n + 1)..((n + 1) - 1) : FALSE
        BY <1>1
      <4>2. QED
        BY <1>4, <4>1 DEF T!Unbroken
    <3>2. n + 1 \in 1..(n + 1) /\ \A k \in (n + 1)..(n + 1) : k = n + 1
      BY <1>1
    <3>3. \A ep \in ts.episodes : ep.to <= ts.entry
      BY <1>3, <1>7, <2>1
    <3>4. QED
      BY <1>1, <1>3, <1>4, <2>1, <3>1, <3>2, <3>3
  <2>2. CASE /\ ~T!Gap(ts0, f.t) /\ ts0.inside = "in"
             /\ ts.entry = ts0.entry /\ ts.episodes = ts0.episodes
    <3>1. PICK i \in 1..n :
              /\ seen[i].t = ts0.entry /\ seen[i].id = f.id /\ seen[i].obj = f.obj
              /\ T!Unbroken(i, n + 1, f.obj)'
              /\ \A k \in i..n : T!Shows(k, f.obj)' => T!InsideAt(k)'
      BY <1>6, <2>2
    <3>2. i \in 1..(n + 1) /\ \A k \in i..(n + 1) : k \in i..n \/ k = n + 1
      <4>1. n \in Int /\ i \in Int /\ 1 <= i /\ i <= n
        BY <1>1
      <4>2. i \in 1..(n + 1)
        BY <4>1
      <4>3. ASSUME NEW k \in i..(n + 1) PROVE k \in i..n \/ k = n + 1
        BY <4>1, UpTo
      <4>4. QED
        BY <4>2, <4>3
    <3>3. \A ep \in ts.episodes : ep.to <= ts.entry
      BY <1>6, <2>2
    <3>4. QED
      BY <1>1, <1>3, <1>4, <2>2, <3>1, <3>2, <3>3
  <2>3. QED
    BY <1>3, <2>1, <2>2
<1>9. ASSUME NEW ep \in ts.episodes PROVE ep.to <= ts.time /\ IsVisit(ep, f.id)'
  <2>1. CASE ep \in ts0.episodes
    BY <1>3, <1>7, <2>1, EpisodesStay
  <2>2. CASE /\ ~T!Gap(ts0, f.t) /\ ts0.inside = "in" /\ ~inside
             /\ ep.from = ts0.entry /\ ep.to = f.t
    <3>1. PICK i \in 1..n :
              /\ seen[i].t = ts0.entry /\ seen[i].id = f.id /\ seen[i].obj = f.obj
              /\ T!Unbroken(i, n + 1, f.obj)'
              /\ \A k \in i..n : T!Shows(k, f.obj)' => T!InsideAt(k)'
      BY <1>6, <2>2
    <3>2. i < n + 1 /\ i..((n + 1) - 1) = i..n /\ n + 1 \in 1..(n + 1) /\ i \in 1..(n + 1)
      BY <1>1
    <3>3. \A k, o : o = f.obj => /\ T!Unbroken(i, n + 1, o)' = T!Unbroken(i, n + 1, f.obj)'
                                 /\ T!Shows(k, o)' = T!Shows(k, f.obj)'
      OBVIOUS
    <3>4. T!Unbroken(i, n + 1, seen[i].obj)'
      BY <1>1, <3>1, <3>3
    <3>5. \A k \in i..((n + 1) - 1) : T!Shows(k, seen[i].obj)' => T!InsideAt(k)'
      BY <1>1, <3>1, <3>2, <3>3
    <3>6. ep.from < ep.to
      <4>1. ep.from \in Int /\ ep.to \in Int /\ ~(ep.from >= ep.to)
        BY <1>3 DEF TrackState, EpisodeSet, T!Empty
      <4>2. QED
        BY <4>1
    <3>7. ep.to <= ts.time
      BY <1>1, <1>3, <2>2
    <3>8. QED
      BY <1>1, <1>4, <2>2, <3>1, <3>2, <3>4, <3>5, <3>6, <3>7 DEF IsVisit, VisitOf
  <2>3. QED
    BY <1>3, <2>1, <2>2
<1>10. n + 1 \in 1..(n + 1) /\ ts.time = seen'[n + 1].t
  BY <1>1, <1>3
<1>11. QED
  BY <1>1, <1>3, <1>5, <1>8, <1>9, <1>10 DEF TrackIs

(* What the tracks' states say of the frames stays true.                   *)
LEMMA FollowedStep ==
  ToldTruly /\ Watched /\ Named /\ Followed /\ [T!Next]_(T!vars) => Followed'
<1> SUFFICES ASSUME ToldTruly, Watched, Named, Followed, [T!Next]_(T!vars) PROVE Followed'
  OBVIOUS
<1>1. CASE /\ scene' = scene /\ seen' = seen /\ tracks' = tracks
  <2>1. \A k, obj : /\ T!Shows(k, obj)' <=> T!Shows(k, obj)
                    /\ T!SideAt(k)' = T!SideAt(k) /\ (T!InsideAt(k)' <=> T!InsideAt(k))
    BY <1>1 DEF T!Shows, T!SideAt, T!InsideAt
  <2>2. \A i, j, obj : T!Unbroken(i, j, obj)' <=> T!Unbroken(i, j, obj)
    BY <1>1, <2>1 DEF T!Unbroken
  <2>3. \A i, j, obj : T!Crosses(i, j, obj)' <=> T!Crosses(i, j, obj)
    BY <2>1, <2>2 DEF T!Crosses
  <2>4. \A id, ts, m, ep : /\ LastSeen(id, m)' <=> LastSeen(id, m)
                           /\ Approached(ts, m)' <=> Approached(ts, m)
                           /\ Entered(ts, m)' <=> Entered(ts, m)
                           /\ IsCrossing(ep, id)' <=> IsCrossing(ep, id)
                           /\ IsVisit(ep, id)' <=> IsVisit(ep, id)
    <3>1. \A id, m : LastSeen(id, m)' <=> LastSeen(id, m)
      BY <1>1 DEF LastSeen
    <3>2. \A ts, m : Approached(ts, m)' <=> Approached(ts, m)
      BY <1>1, <2>1, <2>2 DEF Approached
    <3>3. \A ts, m : Entered(ts, m)' <=> Entered(ts, m)
      BY <1>1, <2>1, <2>2 DEF Entered
    <3>4. \A id, ep : IsCrossing(ep, id)' <=> IsCrossing(ep, id)
      BY <1>1, <2>3 DEF IsCrossing
    <3>5. \A id, ep : IsVisit(ep, id)' <=> IsVisit(ep, id)
      <4>1. \A i, j, k : /\ T!Shows(k, seen[i].obj)' <=> T!Shows(k, seen[i].obj)
                         /\ T!Unbroken(i, j, seen[i].obj)' <=> T!Unbroken(i, j, seen[i].obj)
        BY <1>1 DEF T!Shows, T!Unbroken
      <4>2. QED
        <5>1. \A i, j : ((\A k \in i..(j - 1) : T!Shows(k, seen[i].obj) => T!InsideAt(k))'
                          <=> (\A k \in i..(j - 1) : T!Shows(k, seen[i].obj) => T!InsideAt(k)))
                         /\ ((~T!InsideAt(j))' <=> ~T!InsideAt(j))
          BY <2>1, <4>1
        <5>2. QED
          <6>1. \A ep, id, i, j : VisitOf(ep, id, i, j)' <=> VisitOf(ep, id, i, j)
            <7> SUFFICES ASSUME NEW ep, NEW id, NEW i, NEW j
                         PROVE  VisitOf(ep, id, i, j)' <=> VisitOf(ep, id, i, j)
              OBVIOUS
            <7>1. seen'[i] = seen[i] /\ seen'[j] = seen[j]
              BY <1>1
            <7>2. T!Unbroken(i, j, seen[i].obj)' <=> T!Unbroken(i, j, seen[i].obj)
              BY <4>1
            <7>3. /\ (\A k \in i..(j - 1) : T!Shows(k, seen[i].obj) => T!InsideAt(k))'
                         <=> (\A k \in i..(j - 1) : T!Shows(k, seen[i].obj) => T!InsideAt(k))
                  /\ (~T!InsideAt(j))' <=> ~T!InsideAt(j)
              BY <5>1
            <7>4. QED
              BY <7>1, <7>2, <7>3 DEF VisitOf
          <6>2. Len(seen') = Len(seen)
            BY <1>1
          <6>3. QED
            BY <6>1, <6>2, Zenon DEF IsVisit
    <3>6. QED
      BY <3>1, <3>2, <3>3, <3>4, <3>5
  <2>5. \A id, ts : TrackIs(id, ts)' <=> TrackIs(id, ts)
    BY <1>1, <2>4 DEF TrackIs
  <2>6. \A id \in DOMAIN tracks' : \A ts : ts = tracks'[id] => TrackIs(id, ts)'
    BY <1>1, <2>5 DEF Followed
  <2>7. QED
    BY <2>6 DEF Followed
<1>2. ASSUME scene' = scene, file' = file,
             NEW sight \in T!Sights, NEW lamps \in scene.lamps, NEW t, Takes(sight, lamps, t)
      PROVE  Followed'
  <2>1. PICK f : f = FrameOf(sight, t, lamps)
    OBVIOUS
  <2>2. PICK n : n = Len(seen)
    OBVIOUS
  <2>3. PICK i : i = NumberOf(sight, t)
    OBVIOUS
  <2>4. f \in Frame /\ t \in Nat /\ \A k \in 1..n : seen[k].t <= t
    BY <1>2, <2>1, <2>2, FrameTaken
  <2>5. /\ f.t = t /\ f.id = i /\ f.obj = sight.obj /\ f.place = sight.place
        /\ f.predicted = sight.predicted
    BY <2>1, <2>3 DEF FrameOf
  <2>6. seen' = Append(seen, f)
    BY <1>2, <2>1 DEF Takes
  <2>7. Named'
    BY WatchedStep
  <2>8. i # 0 <=> Kept(sight)
    BY <1>2, <2>2, <2>3, <2>4, SightType, NamesAre
  <2>9. \A id \in DOMAIN tracks : TrackIs(id, tracks[id])
    BY DEF Followed
  <2>10. CASE i = 0
    <3>1. tracks' = tracks
      BY <1>2, <2>8, <2>10 DEF Takes
    <3>2. \A id, ts : TrackIs(id, ts) => TrackIs(id, ts)'
      <4>1. \A id, ts : TrackIs(id, ts) => f.id # id
        BY <2>5, <2>10 DEF TrackIs
      <4>2. QED
        BY <1>2, <2>4, <2>6, <4>1, OthersStay
    <3>3. \A id \in DOMAIN tracks' : \A ts : ts = tracks'[id] => TrackIs(id, ts)'
      BY <2>9, <3>1, <3>2
    <3>4. QED
      BY <3>3 DEF Followed
  <2>11. CASE i # 0
    <3>1. PICK ts0 : ts0 = T!TrackOf(i)
      OBVIOUS
    <3>2. PICK ts : ts = T!Moved(i, sight, t)
      OBVIOUS
    <3>3. /\ DOMAIN tracks' = DOMAIN tracks \cup {i}
          /\ \A id \in DOMAIN tracks' : tracks'[id] = IF id = i THEN ts ELSE tracks[id]
          /\ \A ep \in ts.episodes : ~T!Empty(ep)
      BY <1>2, <2>3, <2>8, <2>11, <3>2 DEF Takes, T!Observe, T!ReducerRaises
    <3>4. TrackIs(i, ts0) \/ ts0 = T!Fresh
      BY <2>9, <3>1 DEF T!TrackOf
    <3>5. TrackIs(i, ts)'
      <4>1. f.id # 0 /\ \A k \in 1..n : seen[k].t <= f.t
        BY <2>4, <2>5, <2>11
      <4>2. CASE scene.rule = "zone"
        <5>1. ts = T!ZoneStep(ts0, f, f.t)
          BY <2>5, <3>1, <3>2, <4>2 DEF T!Moved, T!ZoneStep, T!ZoneInside
        <5>2. QED
          BY <1>2, <2>2, <2>4, <2>5, <2>6, <2>7, <3>3, <3>4, <4>1, <4>2, <5>1, ZoneFollows
      <4>3. CASE scene.rule # "zone"
        <5>1. ts = T!LineStep(ts0, f, f.t)
          BY <2>5, <3>1, <3>2, <4>3 DEF T!Moved, T!LineStep
        <5>2. QED
          BY <1>2, <2>2, <2>4, <2>5, <2>6, <2>7, <3>4, <4>1, <4>3, <5>1, LineFollows
      <4>4. QED
        BY <4>2, <4>3
    <3>6. \A id, s : TrackIs(id, s) /\ id # i => TrackIs(id, s)'
      BY <1>2, <2>4, <2>5, <2>6, OthersStay
    <3>7. \A id \in DOMAIN tracks' : \A s : s = tracks'[id] => TrackIs(id, s)'
      BY <2>9, <3>3, <3>5, <3>6
    <3>8. QED
      BY <3>7 DEF Followed
  <2>12. QED
    BY <2>10, <2>11
<1>3. QED
  BY <1>1, <1>2, TrackedSteps DEF T!vars, Ends, Completes
-----------------------------------------------------------------------------
(* What one more look at a lamp makes of its intervals.                    *)
Undecided(s, no) == [s EXCEPT !.candidate = "none", !.candidateSince = no]
Suspected(s, state, t) == [s EXCEPT !.candidate = state, !.candidateSince = t]
Confirmed(s, state, t, no) ==
    [s EXCEPT !.confirmed = state, !.confirmedSince = t,
              !.candidate = "none", !.candidateSince = no]
Unconfirmed(s, no, done) ==
    [s EXCEPT !.confirmed = "none", !.confirmedSince = no, !.done = done]

LEMMA UndecidedIs ==
  ASSUME NEW s \in SignalState, NEW no \in Int
  PROVE  /\ Undecided(s, no) \in SignalState /\ Undecided(s, no).confirmed = s.confirmed
         /\ Undecided(s, no).confirmedSince = s.confirmedSince
         /\ Undecided(s, no).done = s.done /\ Undecided(s, no).candidate = "none"
BY DEF SignalState, Undecided, Colours

(* A look is one of the three colours or unknown.                          *)
Looks == T!LampColours \cup {"unknown"}

LEMMA ClassifiedIs == \A look : T!Classified(look) \in Looks
<1> SUFFICES ASSUME NEW look
             PROVE  T!Classified(look) \in Looks
  OBVIOUS
<1> DEFINE l == Lamps[look]
<1>1. CASE \A c \in T!LampColours : ~T!Leads(c, l)
  BY <1>1 DEF T!Classified, Looks
<1>2. CASE \E c \in T!LampColours : T!Leads(c, l)
  <2>1. (CHOOSE c \in T!LampColours : T!Leads(c, l)) \in T!LampColours
    BY <1>2
  <2>2. \/ T!Classified(look) = "unknown"
        \/ T!Classified(look) = CHOOSE c \in T!LampColours : T!Leads(c, l)
    BY DEF T!Classified
  <2>3. QED
    BY <2>1, <2>2 DEF Looks
<1>3. QED
  BY <1>1, <1>2

LEMMA SuspectedIs ==
  ASSUME NEW s \in SignalState, NEW state \in T!LampColours, NEW t \in Int
  PROVE  /\ Suspected(s, state, t) \in SignalState
         /\ Suspected(s, state, t).confirmed = s.confirmed
         /\ Suspected(s, state, t).confirmedSince = s.confirmedSince
         /\ Suspected(s, state, t).done = s.done
         /\ Suspected(s, state, t).candidate = state /\ Suspected(s, state, t).candidateSince = t
BY DEF SignalState, Suspected, Colours, T!LampColours

LEMMA ConfirmedIs ==
  ASSUME NEW s \in SignalState, NEW state \in T!LampColours, NEW t \in Int, NEW no \in Int
  PROVE  /\ Confirmed(s, state, t, no) \in SignalState
         /\ Confirmed(s, state, t, no).confirmed = state
         /\ Confirmed(s, state, t, no).confirmedSince = t
         /\ Confirmed(s, state, t, no).done = s.done
         /\ Confirmed(s, state, t, no).candidate = "none"
BY DEF SignalState, Confirmed, Colours, T!LampColours

LEMMA UnconfirmedIs ==
  ASSUME NEW s \in SignalState, NEW no \in Int, NEW done \in SUBSET Interval
  PROVE  /\ Unconfirmed(s, no, done) \in SignalState
         /\ Unconfirmed(s, no, done).confirmed = "none"
         /\ Unconfirmed(s, no, done).done = done
BY DEF SignalState, Unconfirmed, Colours

LEMMA NoTimeIs == T!NoTime \in Int
BY DEF T!NoTime

LEMMA ClosedIs ==
  ASSUME NEW s \in SignalState, NEW t \in Int
  PROVE  /\ T!Closed(s, t) \in SignalState /\ T!Closed(s, t).confirmed = "none"
         /\ \A d \in T!Closed(s, t).done :
               \/ d \in s.done
               \/ /\ d.state = s.confirmed /\ d.from = s.confirmedSince /\ d.to = t
                  /\ d.gaps = {}
         /\ s.done \subseteq T!Closed(s, t).done
         /\ t > s.confirmedSince =>
               \E d \in T!Closed(s, t).done :
                  d.state = s.confirmed /\ d.from = s.confirmedSince /\ d.to = t
<1> DEFINE d0 == [state |-> s.confirmed, gaps |-> {}, from |-> s.confirmedSince, to |-> t]
           done == IF t > s.confirmedSince THEN s.done \cup {d0} ELSE s.done
<1>1. d0 \in Interval
  BY DEF SignalState, Interval
<1>2. /\ done \in SUBSET Interval /\ \A d \in done : d \in s.done \/ d = d0
      /\ s.done \subseteq done /\ (t > s.confirmedSince => d0 \in done)
  BY <1>1 DEF SignalState
<1>3. T!Closed(s, t) = Unconfirmed(s, T!NoTime, done)
  BY DEF T!Closed, Unconfirmed
<1> HIDE DEF done
<1>4. /\ T!Closed(s, t) \in SignalState /\ T!Closed(s, t).confirmed = "none"
      /\ T!Closed(s, t).done = done
  BY <1>2, <1>3, NoTimeIs, UnconfirmedIs
<1>5. QED
  BY <1>2, <1>4

SignalOutcome(r, s, state, t) ==
    /\ r \in SignalState
    /\ r.confirmed = "red" =>
          /\ state = "red"
          /\ \/ r.confirmedSince = t
             \/ s.confirmed = "red" /\ r.confirmedSince = s.confirmedSince
    /\ \A d \in r.done :
          \/ d \in s.done
          \/ d.state = s.confirmed /\ d.from = s.confirmedSince /\ d.to = t

LEMMA SignalStepIs ==
  ASSUME NEW s0 \in SignalState, NEW state \in Looks, NEW t \in Nat
  PROVE  SignalOutcome(T!SignalStep(s0, state, t), s0, state, t)
<1> DEFINE r == T!SignalStep(s0, state, t)
           broken == s0.confirmed \notin {"none", state}
           s == IF broken THEN Undecided(T!Closed(s0, t), T!NoTime) ELSE s0
           c == IF s.candidate = state THEN s ELSE Suspected(s, state, t)
<1>0. /\ state \in {"unknown", "red", "amber", "green"}
      /\ state # "unknown" => state \in T!LampColours
  BY DEF Looks, T!LampColours
<1> USE <1>0
<1>1. r = IF state = "unknown" THEN Undecided(s, T!NoTime)
          ELSE IF s.confirmed = state THEN s
          ELSE IF t - c.candidateSince >= Stability THEN Confirmed(c, state, t, T!NoTime)
          ELSE c
  BY DEF T!SignalStep, Undecided, Suspected, Confirmed
<1>2. /\ s \in SignalState
      /\ \A d \in s.done :
            \/ d \in s0.done
            \/ d.state = s0.confirmed /\ d.from = s0.confirmedSince /\ d.to = t
      /\ \/ s.confirmed = "none"
         \/ s.confirmed = state /\ s = s0
  <2>1. CASE broken
    <3>1. s = Undecided(T!Closed(s0, t), T!NoTime)
      BY <2>1
    <3>2. T!Closed(s0, t) \in SignalState
      BY ClosedIs
    <3>3. /\ s \in SignalState /\ s.confirmed = T!Closed(s0, t).confirmed
          /\ s.done = T!Closed(s0, t).done
      BY <3>1, <3>2, NoTimeIs, UndecidedIs
    <3>4. QED
      BY <3>3, ClosedIs
  <2>2. CASE ~broken
    BY <2>2
  <2>3. QED
    BY <2>1, <2>2
<1> HIDE DEF s
<1>3. ASSUME state # "unknown"
      PROVE  /\ c \in SignalState /\ c.confirmed = s.confirmed
             /\ c.confirmedSince = s.confirmedSince /\ c.done = s.done
  BY <1>2, <1>3, SuspectedIs
<1> HIDE DEF r, c
<1>4. CASE state = "unknown"
  <2>1. r = Undecided(s, T!NoTime)
    BY <1>1, <1>4
  <2>2. r \in SignalState /\ r.confirmed = s.confirmed /\ r.done = s.done
    BY <1>2, <2>1, NoTimeIs, UndecidedIs
  <2>3. r.confirmed # "red"
    BY <1>2, <1>4, <2>2
  <2>4. QED
    BY <1>2, <2>2, <2>3 DEF SignalOutcome, r
<1>5. CASE state # "unknown" /\ s.confirmed = state
  <2>1. r = s /\ s = s0
    BY <1>1, <1>2, <1>5
  <2>2. QED
    BY <1>2, <1>5, <2>1 DEF SignalOutcome, r
<1>6. CASE state # "unknown" /\ s.confirmed # state /\ t - c.candidateSince >= Stability
  <2>1. r = Confirmed(c, state, t, T!NoTime)
    BY <1>1, <1>6
  <2>2. /\ r \in SignalState /\ r.confirmed = state /\ r.confirmedSince = t
        /\ r.done = s.done
    BY <1>3, <1>6, <2>1, NoTimeIs, ConfirmedIs
  <2>3. QED
    BY <1>2, <2>2 DEF SignalOutcome, r
<1>7. CASE state # "unknown" /\ s.confirmed # state /\ ~(t - c.candidateSince >= Stability)
  <2>1. r = c
    BY <1>1, <1>7
  <2>2. r \in SignalState /\ r.confirmed = s.confirmed /\ r.done = s.done
    BY <1>3, <1>7, <2>1
  <2>3. r.confirmed # "red"
    BY <1>2, <1>7, <2>2
  <2>4. QED
    BY <1>2, <2>2, <2>3 DEF SignalOutcome, r
<1>8. QED
  BY <1>4, <1>5, <1>6, <1>7

(* What the lamps' intervals say of the frames stays true.                 *)
LEMMA LitStep == Watched /\ Named /\ Lit /\ [T!Next]_(T!vars) => Lit'
<1> SUFFICES ASSUME Watched, Named, Lit, [T!Next]_(T!vars) PROVE Lit'
  OBVIOUS
<1>1. CASE seen' = seen /\ signals' = signals
  BY <1>1 DEF Lit, SignalIs, RedFrom
<1>2. ASSUME NEW sight \in T!Sights, NEW lamps \in scene.lamps, NEW t, Takes(sight, lamps, t)
      PROVE  Lit'
  <2>1. PICK f : f = FrameOf(sight, t, lamps)
    OBVIOUS
  <2>2. PICK n : n = Len(seen)
    OBVIOUS
  <2>3. f \in Frame /\ t \in Nat /\ f.t = t /\ f.lamps = lamps
    BY <1>2, <2>1, FrameTaken DEF FrameOf
  <2>4. seen' = Append(seen, f)
    BY <1>2, <2>1 DEF Takes
  <2>5. /\ n \in Nat /\ Len(seen') = n + 1 /\ seen'[n + 1] = f
        /\ \A k \in 1..n : seen'[k] = seen[k] /\ k \in 1..(n + 1)
    BY <2>2, <2>3, <2>4, SeenGrows
  <2>6. ASSUME NEW r \in Rois
        PROVE  /\ signals'[r] \in SignalState
               /\ \A s : s = signals'[r] => SignalIs(r, s)'
    <3>1. PICK s0 : s0 = signals[r]
      OBVIOUS
    <3>2. PICK s : s = signals'[r]
      OBVIOUS
    <3>3. PICK state : state = T!Classified(lamps[r])
      OBVIOUS
    <3>4. state \in Looks
      BY <3>3, ClassifiedIs
    <3>5. s0 \in SignalState /\ SignalIs(r, s0)
      BY <3>1 DEF Lit
    <3>6. s = T!SignalStep(s0, state, t)
      BY <1>2, <3>1, <3>2, <3>3 DEF Takes
    <3>7. SignalOutcome(s, s0, state, t)
      BY <2>3, <3>4, <3>5, <3>6, SignalStepIs
    <3>8. \A first, last : RedFrom(r, first, last)' <=>
              \A k \in first..last : T!Classified(seen'[k].lamps[r]) = "red"
      BY DEF RedFrom, T!Classified, T!Leads, T!LampColours
    <3>9. ASSUME NEW first \in 1..n, NEW last \in 0..n, RedFrom(r, first, last)
          PROVE  RedFrom(r, first, last)'
      <4>1. \A k \in first..last : k \in 1..n
        BY <2>5
      <4>2. QED
        BY <2>5, <3>8, <3>9, <4>1 DEF RedFrom
    <3>10. ASSUME s.confirmed = "red"
           PROVE  \E first \in 1..(n + 1) :
                     seen'[first].t = s.confirmedSince /\ RedFrom(r, first, n + 1)'
      <4>1. T!Classified(seen'[n + 1].lamps[r]) = "red"
        BY <2>3, <2>5, <3>3, <3>7, <3>10 DEF SignalOutcome
      <4>2. CASE s.confirmedSince = t
        <5>1. n + 1 \in 1..(n + 1) /\ \A k \in (n + 1)..(n + 1) : k = n + 1
          BY <2>5
        <5>2. QED
          BY <2>3, <2>5, <3>8, <4>1, <4>2, <5>1
      <4>3. CASE s0.confirmed = "red" /\ s.confirmedSince = s0.confirmedSince
        <5>1. PICK first \in 1..n :
                  seen[first].t = s0.confirmedSince /\ RedFrom(r, first, n)
          BY <2>2, <3>5, <4>3 DEF SignalIs
        <5>2. n \in 0..n
          BY <2>5
        <5>3. RedFrom(r, first, n)'
          BY <3>9, <5>1, <5>2
        <5>4. \A k \in first..(n + 1) : k \in first..n \/ k = n + 1
          BY <2>5, UpTo
        <5>5. RedFrom(r, first, n + 1)'
          BY <3>8, <4>1, <5>3, <5>4
        <5>6. QED
          BY <2>5, <4>3, <5>1, <5>5
      <4>4. QED
        BY <3>7, <3>10, <4>2, <4>3 DEF SignalOutcome
    <3>11. ASSUME NEW d \in s.done, d.state = "red"
           PROVE  \E first, end \in 1..(n + 1) :
                     seen'[first].t = d.from /\ seen'[end].t = d.to /\ RedFrom(r, first, end - 1)'
      <4>1. CASE d \in s0.done
        <5>1. PICK first \in 1..n, end \in 1..n :
                  seen[first].t = d.from /\ seen[end].t = d.to /\ RedFrom(r, first, end - 1)
          BY <2>2, <3>5, <3>11, <4>1 DEF SignalIs
        <5>2. end - 1 \in 0..n
          BY <2>5
        <5>3. RedFrom(r, first, end - 1)'
          BY <3>9, <5>1, <5>2
        <5>4. QED
          BY <2>5, <5>1, <5>3
      <4>2. CASE d.state = s0.confirmed /\ d.from = s0.confirmedSince /\ d.to = t
        <5>1. PICK first \in 1..n :
                  seen[first].t = s0.confirmedSince /\ RedFrom(r, first, n)
          BY <2>2, <3>5, <3>11, <4>2 DEF SignalIs
        <5>2. n \in 0..n /\ n + 1 \in 1..(n + 1) /\ (n + 1) - 1 = n
          BY <2>5
        <5>3. RedFrom(r, first, n)'
          BY <3>9, <5>1, <5>2
        <5>4. RedFrom(r, first, (n + 1) - 1)'
          BY <3>8, <5>2, <5>3
        <5>5. QED
          BY <2>3, <2>5, <4>2, <5>1, <5>2, <5>4
      <4>3. QED
        BY <3>7, <4>1, <4>2 DEF SignalOutcome
    <3>12. SignalIs(r, s)'
      BY <2>5, <3>7, <3>10, <3>11 DEF SignalIs, SignalOutcome
    <3>13. QED
      BY <3>2, <3>7, <3>12 DEF SignalOutcome
  <2>7. signals' \in [Rois -> SignalState]
    BY <1>2, <2>6 DEF Takes
  <2>8. QED
    BY <2>6, <2>7 DEF Lit
<1>3. QED
  BY <1>1, <1>2, TrackedSteps DEF T!vars, Ends, Completes

-----------------------------------------------------------------------------
(* What a completed run has recorded stands.                               *)
LEMMA CandidatesStand ==
  ASSUME scene' = scene, signals' = signals, tracks' = tracks, file' = file
  PROVE  /\ T!Candidates(file.duration)' = T!Candidates(file.duration)
         /\ \A id \in DOMAIN tracks :
               T!OpenVisit(tracks[id], file.duration)' = T!OpenVisit(tracks[id], file.duration)
<1>1. \A ts, end : /\ T!OpenVisit(ts, end)' = T!OpenVisit(ts, end)
  BY DEF T!OpenVisit
<1>2. \A ts, end : T!Persistences(ts, end)' = T!Persistences(ts, end)
  BY <1>1 DEF T!Persistences
<1>3. \A ts, end : T!FinalEpisodes(ts, end)' = T!FinalEpisodes(ts, end)
  BY <1>2 DEF T!FinalEpisodes
<1>4. \A end : T!FinalRed(end)' = T!FinalRed(end)
  BY DEF T!FinalRed, T!SignalEnd, T!Closed
<1>5. \A ep, reds : T!Disposition(ep, reds)' = T!Disposition(ep, reds)
  BY DEF T!Disposition
<1>6. \A end : T!Candidates(end)' = T!Candidates(end)
  BY <1>3, <1>4, <1>5 DEF T!Candidates
<1>7. PICK end : end = file.duration
  OBVIOUS
<1>8. T!Candidates(file.duration)' = T!Candidates(file.duration)
  BY <1>6
<1>9. \A id \in DOMAIN tracks :
               T!OpenVisit(tracks[id], file.duration)' = T!OpenVisit(tracks[id], file.duration)
  BY DEF T!OpenVisit
<1>10. QED
  BY <1>8, <1>9

(* Only the flush completes a run, and nothing changes after it.           *)
LEMMA FlushedStep == Flushed /\ [T!Next]_(T!vars) => Flushed'
<1> SUFFICES ASSUME Flushed, [T!Next]_(T!vars), pc' = "completed" PROVE Flushed'
  BY DEF Flushed
<1>1. CASE UNCHANGED T!vars
  <2>1. /\ scene' = scene /\ signals' = signals /\ tracks' = tracks /\ file' = file
        /\ pc' = pc /\ events' = events
    BY <1>1 DEF T!vars
  <2>2. QED
    BY <2>1, CandidatesStand DEF Flushed
<1>2. CASE scene' = scene /\ file' = file /\ Completes
  <2>1. scene' = scene /\ signals' = signals /\ tracks' = tracks /\ file' = file
    BY <1>2 DEF Completes
  <2>2. QED
    BY <1>2, <2>1, CandidatesStand DEF Flushed, Completes
<1>3. CASE T!Next
  <2>1. ~Ends
    BY DEF Ends
  <2>2. \A sight, lamps, t : ~Takes(sight, lamps, t)
    BY DEF Takes
  <2>3. QED
    BY <1>2, <1>3, <2>1, <2>2, TrackedSteps
<1>4. QED
  BY <1>1, <1>3

(* A step of the whole is a step of the tracked engine, or leaves it       *)
(* alone.                                                                  *)
LEMMA TrackedStepOnly ==
  ASSUME [Next]_vars
  PROVE  engine' = engine /\ (engine = "tracked" => [T!Next]_(T!vars))
<1>1. CASE Next
  BY <1>1 DEF Next, TrackedStep, SemanticStep, ReasoningStep, ProposalStep
<1>2. CASE UNCHANGED vars
  BY <1>2 DEF vars, tracked, T!vars
<1>3. QED
  BY <1>1, <1>2

(* The invariant of the engine for tracked rules.                          *)
LEMMA TrackedInvCorrect == ToldTruly => (Spec => []TrackedInv)
<1>0. ToldTruly => ToldTruly'
  OBVIOUS
<1>1. Init => TrackedInv
  <2> SUFFICES ASSUME T!Init PROVE Watched /\ Named /\ Followed /\ Lit /\ Flushed
    BY DEF Init, TrackedInv
  <2>1. /\ scene \in Scenes /\ file \in scene.files /\ pc = "probe" /\ seen = <<>>
        /\ known = <<>> /\ tracks = <<>> /\ signals = [r \in Rois |-> T!NewSignal]
    BY DEF T!Init
  <2>2. Len(seen) = 0 /\ Len(known) = 0 /\ seen \in Seq(Frame) /\ known \in Seq(Objects)
        /\ DOMAIN tracks = {}
    BY <2>1
  <2>3. Watched /\ Named /\ Followed /\ Flushed
    BY <2>1, <2>2 DEF Watched, Named, Followed, Flushed
  <2>4. T!NewSignal \in SignalState /\ T!NewSignal.confirmed = "none" /\ T!NewSignal.done = {}
    BY DEF T!NewSignal, SignalState, Colours, T!NoTime
  <2>5. \A r \in Rois : SignalIs(r, signals[r])
    BY <2>1, <2>4 DEF SignalIs
  <2>6. Lit
    BY <2>1, <2>4, <2>5 DEF Lit
  <2>7. QED
    BY <2>3, <2>6
<1>2. ToldTruly /\ TrackedInv /\ [Next]_vars => TrackedInv'
  BY TrackedStepOnly, WatchedStep, FollowedStep, LitStep, FlushedStep DEF TrackedInv
<1>3. QED
  BY <1>0, <1>1, <1>2, PTL DEF Spec

(* The events of a completed run are made of what the tracks ended with.   *)
LEMMA EventsOfTracks ==
  ASSUME Watched, Flushed, pc = "completed", NEW e \in events
  PROVE  \E id \in DOMAIN tracks : \E ep \in T!FinalEpisodes(tracks[id], file.duration) :
            /\ e.id = id /\ e.from = ep.from /\ e.to = ep.to
            /\ e.disp = T!Disposition(ep, T!FinalRed(file.duration))
<1>1. e \in T!Candidates(file.duration)
  BY DEF Flushed
<1>2. PICK id \in DOMAIN tracks :
          e \in {[id |-> id, from |-> ep.from, to |-> ep.to,
                  disp |-> T!Disposition(ep, T!FinalRed(file.duration))] :
                    ep \in T!FinalEpisodes(tracks[id], file.duration)}
  BY <1>1 DEF T!Candidates
<1>3. QED
  BY <1>2

(* A line event is about one object, seen on the approach side and then on *)
(* the far side and never lost in between, even when the tracker restarts  *)
(* its numbers and another object gets the same one (_line_track_state,    *)
(* _validate_source_time).                                                 *)
THEOREM ReportedCrossingsAreReal == ToldTruly => (Spec => []CrossingsAreReal)
<1>1. TrackedInv => CrossingsAreReal
  <2> SUFFICES ASSUME Watched, Followed, Flushed, pc = "completed", scene.rule # "zone",
                      NEW e \in events
               PROVE  \E i, j \in T!Frames :
                         /\ seen[i].t = e.from /\ seen[j].t = e.to /\ seen[j].id = e.id
                         /\ seen[i].obj = seen[j].obj /\ T!Crosses(i, j, seen[j].obj)
    BY DEF TrackedInv, CrossingsAreReal, T!CrossingsAreReal
  <2>1. PICK id \in DOMAIN tracks : \E ep \in tracks[id].episodes :
            e.id = id /\ e.from = ep.from /\ e.to = ep.to
    BY EventsOfTracks DEF T!FinalEpisodes
  <2>2. PICK ep \in tracks[id].episodes : e.id = id /\ e.from = ep.from /\ e.to = ep.to
    BY <2>1
  <2>3. IsCrossing(ep, id)
    BY DEF Followed, TrackIs
  <2>4. PICK i \in 1..Len(seen), j \in 1..Len(seen) :
            /\ seen[i].t = ep.from /\ seen[j].t = ep.to /\ seen[j].id = id
            /\ T!Crosses(i, j, seen[j].obj)
    BY <2>3 DEF IsCrossing
  <2>5. seen[i].obj = seen[j].obj
    BY <2>4 DEF T!Crosses, T!Unbroken, T!Shows
  <2>6. i \in T!Frames /\ j \in T!Frames
    BY DEF T!Frames, Watched
  <2>7. QED
    BY <2>2, <2>4, <2>5, <2>6
<1>2. QED
  BY <1>1, TrackedInvCorrect, PTL

(* A red interval of a lamp is of frames that all show it red.             *)
LEMMA RedAllAlong ==
  ASSUME Watched, Lit, NEW r \in Rois, NEW red \in T!SignalEnd(signals[r], file.duration),
         red.state = "red"
  PROVE  /\ red.to = file.duration \/ \E k \in 1..Len(seen) : red.to = seen[k].t
         /\ \E first \in 1..Len(seen) :
               /\ seen[first].t = red.from
               /\ \A k \in first..Len(seen) :
                     seen[k].t < red.to => T!Classified(seen[k].lamps[r]) = "red"
<1>1. PICK s : s = signals[r]
  OBVIOUS
<1>2. s \in SignalState /\ SignalIs(r, s) /\ red \in T!SignalEnd(s, file.duration)
  BY <1>1 DEF Lit
<1>3. file.duration \in Int
  BY ScenesAssumption DEF Watched
<1>4. \/ red \in s.done
      \/ red.state = s.confirmed /\ red.from = s.confirmedSince /\ red.to = file.duration
  BY <1>2, <1>3, ClosedIs DEF T!SignalEnd
<1>5. /\ seen \in Seq(Frame) /\ Len(seen) \in Nat
      /\ \A k \in 1..Len(seen) : seen[k].t \in Int
      /\ \A k, l \in 1..Len(seen) : k <= l => seen[k].t <= seen[l].t
  <2>1. \A k \in 1..Len(seen) : seen[k] \in Frame
    BY ElementIn DEF Watched
  <2>2. QED
    BY <2>1 DEF Watched, Frame
<1>6. CASE red \in s.done
  <2>1. PICK first \in 1..Len(seen), end \in 1..Len(seen) :
            seen[first].t = red.from /\ seen[end].t = red.to /\ RedFrom(r, first, end - 1)
    BY <1>2, <1>6 DEF SignalIs
  <2>2. ASSUME NEW k \in first..Len(seen), seen[k].t < red.to
        PROVE  T!Classified(seen[k].lamps[r]) = "red"
    <3>1. k \in 1..Len(seen)
      BY <1>5
    <3>2. ~(end <= k)
      BY <1>5, <2>1, <2>2, <3>1
    <3>3. k \in first..(end - 1)
      BY <1>5, <3>1, <3>2
    <3>4. QED
      BY <2>1, <3>3 DEF RedFrom
  <2>3. QED
    BY <2>1, <2>2
<1>7. CASE red.state = s.confirmed /\ red.from = s.confirmedSince /\ red.to = file.duration
  <2>1. PICK first \in 1..Len(seen) :
            seen[first].t = s.confirmedSince /\ RedFrom(r, first, Len(seen))
    BY <1>2, <1>7 DEF SignalIs
  <2>2. QED
    BY <1>7, <2>1 DEF RedFrom
<1>8. QED
  BY <1>4, <1>6, <1>7

(* A red-phase event is supported only if one region's lamp shows red in   *)
(* every frame from one before the margin before the crossing to the       *)
(* margin after it, however its confirmation was broken and began again,   *)
(* and the object was observed at both ends (ConfirmedSignalIntervals,     *)
(* _red_phase_disposition).                                                *)
THEOREM RedCrossingsAreUnderRed == ToldTruly => (Spec => []SupportedUnderRed)
<1>0. ToldTruly => ToldTruly'
  OBVIOUS
<1>1. ToldTruly /\ TrackedInv => SupportedUnderRed
  <2> SUFFICES ASSUME ToldTruly, Watched, Followed, Lit, Flushed, pc = "completed",
                      scene.rule = "red", NEW e \in events, e.disp = "supported"
               PROVE  /\ \E r \in Rois : \E first \in T!Frames :
                            /\ seen[first].t <= e.from - Margin
                            /\ \A k \in first..Len(seen) :
                                  seen[k].t <= e.to + Margin =>
                                      Lamps[seen[k].lamps[r]].shows = "red"
                            /\ \/ e.to + Margin < file.duration
                               \/ \E k \in T!Frames : e.to + Margin < seen[k].t
                      /\ \E i, j \in T!Frames :
                            /\ seen[i].t = e.from /\ seen[j].t = e.to /\ seen[j].id = e.id
                            /\ T!Crosses(i, j, seen[j].obj)
                            /\ ~seen[i].predicted /\ ~seen[j].predicted
    BY DEF TrackedInv, SupportedUnderRed, T!SupportedUnderRed
  <2>1. PICK id \in DOMAIN tracks : \E ep \in tracks[id].episodes :
            /\ e.id = id /\ e.from = ep.from /\ e.to = ep.to
            /\ e.disp = T!Disposition(ep, T!FinalRed(file.duration))
    BY EventsOfTracks DEF T!FinalEpisodes
  <2>2. PICK ep \in tracks[id].episodes :
            /\ e.id = id /\ e.from = ep.from /\ e.to = ep.to
            /\ e.disp = T!Disposition(ep, T!FinalRed(file.duration))
    BY <2>1
  <2>3. /\ ~ep.predicted
        /\ \E red \in T!FinalRed(file.duration) : T!IntervalCovers(red, ep)
    BY <2>2 DEF T!Disposition, T!RedPhaseDisposition
  <2>4. T!Frames = 1..Len(seen) /\ \A k \in 1..Len(seen) : seen[k] \in Frame
    BY ElementIn DEF T!Frames, Watched
  <2>5. \E i, j \in T!Frames :
           /\ seen[i].t = e.from /\ seen[j].t = e.to /\ seen[j].id = e.id
           /\ T!Crosses(i, j, seen[j].obj)
           /\ ~seen[i].predicted /\ ~seen[j].predicted
    <3>1. IsCrossing(ep, id)
      BY DEF Followed, TrackIs
    <3>2. QED
      BY <2>2, <2>3, <2>4, <3>1 DEF IsCrossing
  <2>6. PICK red \in T!FinalRed(file.duration) : T!IntervalCovers(red, ep)
    BY <2>3
  <2>7. PICK r \in Rois : red \in T!SignalEnd(signals[r], file.duration) /\ red.state = "red"
    BY DEF T!FinalRed
  <2>8. red.from <= e.from - Margin /\ red.to > e.to + Margin
    BY <2>2, <2>6 DEF T!IntervalCovers
  <2>9. PICK first \in 1..Len(seen) :
            /\ seen[first].t = red.from
            /\ \A k \in first..Len(seen) :
                  seen[k].t < red.to => T!Classified(seen[k].lamps[r]) = "red"
    BY <2>7, RedAllAlong
  <2>10. ep.from \in Int /\ ep.to \in Int /\ Margin \in Int /\ e.to = ep.to
    <3>1. tracks[id] \in TrackState
      BY DEF Followed, TrackIs
    <3>2. ep \in EpisodeSet
      BY <3>1 DEF TrackState
    <3>3. QED
      BY <2>2, <3>2, ScenesAssumption DEF EpisodeSet
  <2>11. red.to = file.duration \/ \E k \in 1..Len(seen) : red.to = seen[k].t
    BY <2>7, RedAllAlong
  <2>12. red.to \in Int
    <3>1. file.duration \in Int
      BY ScenesAssumption DEF Watched
    <3>2. QED
      BY <2>4, <2>11, <3>1 DEF Frame
  <2>13. ASSUME NEW k \in first..Len(seen), seen[k].t <= e.to + Margin
         PROVE  Lamps[seen[k].lamps[r]].shows = "red"
    <3>1. k \in 1..Len(seen)
      BY <2>4 DEF Watched
    <3>2. seen[k].t \in Int /\ seen[k].lamps \in [Rois -> DOMAIN Lamps]
      BY <2>4, <3>1 DEF Frame
    <3>3. seen[k].t < red.to
      BY <2>8, <2>10, <2>12, <2>13, <3>2
    <3>4. T!Classified(seen[k].lamps[r]) = "red" /\ seen[k].lamps[r] \in DOMAIN Lamps
      BY <2>7, <2>9, <3>2, <3>3
    <3>5. QED
      BY <3>4 DEF ToldTruly
  <2>14. e.to + Margin < file.duration \/ \E k \in T!Frames : e.to + Margin < seen[k].t
    BY <2>4, <2>8, <2>11
  <2>15. QED
    BY <2>4, <2>5, <2>8, <2>9, <2>13, <2>14
<1>2. QED
  BY <1>0, <1>1, TrackedInvCorrect, PTL

-----------------------------------------------------------------------------
(* The types and the order of the frames, as the proofs about visits use   *)
(* them.                                                                   *)
LEMMA SeenAre ==
  ASSUME Watched
  PROVE  /\ Len(seen) \in Nat /\ DOMAIN seen = 1..Len(seen)
         /\ \A k \in 1..Len(seen) : /\ seen[k] \in Frame /\ seen[k].t \in Int /\ 0 <= seen[k].t
                                    /\ seen[k].id \in Nat
         /\ \A k, l \in 1..Len(seen) : k <= l => seen[k].t <= seen[l].t
         /\ file.duration \in Int
<1>1. \A k \in 1..Len(seen) : seen[k] \in Frame
  BY ElementIn DEF Watched
<1>2. file.duration \in Int
  BY ScenesAssumption DEF Watched
<1>3. QED
  BY <1>1, <1>2 DEF Watched, Frame

(* While an object is not lost it keeps its number, and nothing else has   *)
(* that number.                                                            *)
LEMMA NumberKept ==
  ASSUME Watched, Named, NEW i \in 1..Len(seen), NEW j \in 1..Len(seen), NEW obj,
         T!Unbroken(i, j, obj), NEW k \in i..j
  PROVE  seen[k].id = seen[i].id <=> T!Shows(k, obj)
<1>1. /\ Len(seen) \in Nat
      /\ \A p \in 1..Len(seen) : seen[p].t \in Int /\ seen[p].id \in Nat
      /\ \A p, l \in 1..Len(seen) : p <= l => seen[p].t <= seen[l].t
      /\ \A p \in i..j : p \in 1..Len(seen)
  BY SeenAre
<1>2. RuleGap \in Int /\ TrackGap \in Int /\ RuleGap <= TrackGap
  BY ScenesAssumption
<1>3. T!Shows(i, obj) /\ seen[i].id # 0
  BY DEF T!Unbroken, T!Shows
<1>4. ASSUME NEW p \in 1..Len(seen), NEW l \in 1..Len(seen), p <= l, T!Shows(p, obj),
             seen[p].id = seen[i].id, seen[l].t - seen[p].t <= RuleGap
      PROVE  seen[l].id = seen[i].id <=> T!Shows(l, obj)
  <2>1. seen[l].t - seen[p].t <= TrackGap
    BY <1>1, <1>2, <1>4
  <2>2. CASE seen[l].id = 0
    BY <1>3, <2>2 DEF T!Shows
  <2>3. CASE seen[l].id # 0
    <3>1. seen[p].id = seen[l].id <=> seen[p].obj = seen[l].obj
      BY <1>3, <1>4, <2>1, <2>3 DEF Named
    <3>2. QED
      BY <1>4, <2>3, <3>1 DEF T!Shows
  <2>4. QED
    BY <2>2, <2>3
<1> DEFINE X == {p \in i..k : T!Shows(p, obj) /\ seen[p].id = seen[i].id}
<1>5. X \subseteq Int /\ i \in X /\ k \in Int /\ \A p \in X : p <= k
  BY <1>1, <1>3
<1>6. PICK p \in X : \A q \in X : q <= p
  BY <1>5, GreatestOf
<1>7. CASE p = k
  BY <1>6, <1>7
<1>8. CASE p # k
  <2>1. /\ p \in i..k /\ p < k /\ p \in i..(j - 1) /\ p \in 1..Len(seen) /\ k \in 1..Len(seen)
        /\ T!Shows(p, obj) /\ seen[p].id = seen[i].id
    BY <1>1, <1>6, <1>8
  <2>2. PICK l \in (p + 1)..j : T!Shows(l, obj) /\ seen[l].t - seen[p].t <= RuleGap
    BY <2>1 DEF T!Unbroken
  <2>3. l \in 1..Len(seen) /\ p <= l
    BY <1>1, <2>1, <2>2
  <2>4. seen[l].id = seen[i].id
    BY <1>4, <2>1, <2>2, <2>3
  <2>5. ~(l <= k)
    <3>1. SUFFICES ASSUME l <= k PROVE FALSE
      OBVIOUS
    <3>2. l \in i..k /\ l > p
      BY <2>1, <2>2, <2>3, <3>1
    <3>3. l \in X
      BY <2>2, <2>4, <3>2
    <3>4. QED
      BY <1>6, <2>1, <3>2, <3>3
  <2>6. seen[k].t - seen[p].t <= RuleGap
    <3>1. k <= l
      BY <2>1, <2>3, <2>5
    <3>2. seen[k].t <= seen[l].t
      BY <1>1, <2>1, <2>3, <3>1
    <3>3. QED
      BY <1>1, <1>2, <2>1, <2>2, <2>3, <3>2
  <2>7. p <= k
    BY <2>1
  <2>8. QED
    BY <1>4, <2>1, <2>6, <2>7
<1>9. QED
  BY <1>7, <1>8

(* A visit to the zone: from the frame that first shows the object inside  *)
(* to the one that shows it outside, or to the last that shows it at all.  *)
Stay(q, id, i, j) ==
    /\ i <= j /\ q.from < q.to /\ q.from = seen[i].t
    /\ id # 0 /\ seen[i].id = id /\ seen[j].id = id
    /\ T!Unbroken(i, j, seen[i].obj) /\ T!InsideAt(i)
    /\ \A k \in i..(j - 1) : T!Shows(k, seen[i].obj) => T!InsideAt(k)
    /\ \/ q.to = seen[j].t /\ ~T!InsideAt(j)
       \/ /\ q.to = file.duration /\ T!InsideAt(j) /\ tracks[id].inside = "in"
          /\ \A k \in (j + 1)..Len(seen) : seen[k].id # id

(* Every range that is merged is a visit.                                  *)
LEMMA Stays ==
  ASSUME Watched, Followed, Flushed, pc = "completed", scene.rule = "zone",
         NEW id \in DOMAIN tracks, NEW q \in T!Persistences(tracks[id], file.duration)
  PROVE  /\ \E i, j \in 1..Len(seen) : Stay(q, id, i, j)
         /\ tracks[id].inside = "in" => q.to <= file.duration
<1>1. PICK ts : ts = tracks[id]
  OBVIOUS
<1>2. TrackIs(id, ts)
  BY <1>1 DEF Followed
<1>3. /\ id \in Nat \ {0} /\ ts \in TrackState
      /\ \A ep \in ts.episodes : ep \in EpisodeSet /\ IsVisit(ep, id)
  BY <1>2 DEF TrackIs, TrackState
<1>4. PICK m \in 1..Len(seen) : LastSeen(id, m) /\ Entered(ts, m)
  BY <1>2 DEF TrackIs
<1>5. PICK ep \in ts.episodes \cup T!OpenVisit(ts, file.duration) :
          q = [from |-> ep.from, to |-> ep.to]
  BY <1>1 DEF T!Persistences
<1>6. Len(seen) \in Nat /\ file.duration \in Int
  BY SeenAre
<1>7. ASSUME ts.inside = "in"
      PROVE  /\ ts.entry < file.duration /\ ts.entry \in Int
             /\ T!OpenVisit(ts, file.duration) = {T!Episode(ts.entry, file.duration, FALSE)}
  <2>1. T!OpenVisit(ts, file.duration) = {T!Episode(ts.entry, file.duration, FALSE)}
    BY <1>7 DEF T!OpenVisit
  <2>2. ~T!Empty(T!Episode(ts.entry, file.duration, FALSE))
    BY <1>1, <2>1 DEF Flushed
  <2>3. ~(ts.entry >= file.duration) /\ ts.entry \in Int
    BY <1>3, <2>2 DEF T!Empty, T!Episode, TrackState
  <2>4. QED
    BY <1>6, <2>1, <2>3
<1>8. CASE ep \in ts.episodes
  <2>1. PICK i \in 1..Len(seen), j \in 1..Len(seen) : VisitOf(ep, id, i, j)
    BY <1>3, <1>8 DEF IsVisit
  <2>2. i \in i..(j - 1) /\ i <= j /\ T!Shows(i, seen[i].obj)
    BY <2>1 DEF VisitOf, T!Unbroken
  <2>3. Stay(q, id, i, j)
    BY <1>3, <1>5, <2>1, <2>2 DEF VisitOf, Stay
  <2>4. ASSUME ts.inside = "in" PROVE ep.to <= file.duration
    <3>1. ep.to <= ts.entry /\ ep.to \in Int
      BY <1>3, <1>4, <1>8, <2>4 DEF Entered, EpisodeSet
    <3>2. QED
      BY <1>6, <1>7, <2>4, <3>1
  <2>5. QED
    BY <1>1, <1>5, <2>3, <2>4
<1>9. CASE ep \in T!OpenVisit(ts, file.duration)
  <2>1. ts.inside = "in"
    BY <1>9 DEF T!OpenVisit
  <2>2. ep = T!Episode(ts.entry, file.duration, FALSE)
    BY <1>7, <1>9, <2>1
  <2>3. q.from = ts.entry /\ q.to = file.duration
    BY <1>5, <2>2 DEF T!Episode
  <2>4. PICK i \in 1..m :
            /\ seen[i].t = ts.entry /\ seen[i].id = seen[m].id
            /\ T!Unbroken(i, m, seen[m].obj)
            /\ \A k \in i..m : T!Shows(k, seen[m].obj) => T!InsideAt(k)
    BY <1>4, <2>1 DEF Entered
  <2>5. seen[i].obj = seen[m].obj /\ T!Shows(i, seen[m].obj) /\ T!Shows(m, seen[m].obj)
    BY <2>4 DEF T!Unbroken, T!Shows
  <2>6. /\ i \in i..m /\ m \in i..m /\ i <= m /\ i \in 1..Len(seen)
        /\ \A k \in i..(m - 1) : k \in i..m
    BY <1>6
  <2>7. Stay(q, id, i, m)
    BY <1>1, <1>3, <1>4, <1>6, <1>7, <2>1, <2>3, <2>4, <2>5, <2>6 DEF Stay, LastSeen
  <2>8. QED
    BY <1>6, <2>3, <2>6, <2>7
<1>10. QED
  BY <1>5, <1>8, <1>9

(* From the frame a reported visit begins with, the object is inside the   *)
(* zone at every time up to frame j.                                       *)
Lasts(r, id, i, j) ==
    /\ i <= j /\ r.from = seen[i].t /\ id # 0 /\ seen[i].id = id /\ seen[j].id = id
    /\ T!InsideAt(i) /\ T!Unbroken(i, j, seen[i].obj)
    /\ \A k \in i..j : T!Shows(k, seen[i].obj) =>
          \/ seen[k].t = seen[j].t
          \/ \E l \in i..j : /\ T!Shows(l, seen[i].obj) /\ T!InsideAt(l)
                             /\ seen[l].t = seen[k].t
    /\ \/ seen[j].t <= r.to /\ ~T!InsideAt(j)
       \/ /\ r.to = file.duration /\ T!InsideAt(j)
          /\ \A k \in (j + 1)..Len(seen) : seen[k].id # id

(* Its first visit is one, and so is every one that goes on at the time    *)
(* the one before it ends.                                                 *)
LEMMA FirstLasts ==
  ASSUME Watched, NEW i \in 1..Len(seen), NEW j \in 1..Len(seen), NEW id, NEW q, NEW r,
         Stay(q, id, i, j), r.from = q.from, q.to = seen[j].t => seen[j].t <= r.to,
         q.to = file.duration /\ tracks[id].inside = "in" => r.to = file.duration
  PROVE  Lasts(r, id, i, j)
<1>1. \A k \in i..j : k \in i..(j - 1) \/ k = j
  OBVIOUS
<1>2. ASSUME NEW k \in i..j, T!Shows(k, seen[i].obj)
      PROVE  \/ seen[k].t = seen[j].t
             \/ \E l \in i..j : /\ T!Shows(l, seen[i].obj) /\ T!InsideAt(l)
                                /\ seen[l].t = seen[k].t
  BY <1>1, <1>2 DEF Stay
<1>3. QED
  BY <1>2 DEF Stay, Lasts

LEMMA NextLasts ==
  ASSUME Watched, Named, NEW i \in 1..Len(seen), NEW j \in 1..Len(seen), NEW id, NEW r,
         Lasts(r, id, i, j), ~T!InsideAt(j),
         NEW a \in 1..Len(seen), NEW b \in 1..Len(seen), NEW q, Stay(q, id, a, b),
         q.from <= seen[j].t, seen[j].t < q.to, q.to = seen[b].t => seen[b].t <= r.to,
         q.to = file.duration /\ tracks[id].inside = "in" => r.to = file.duration
  PROVE  j < b /\ Lasts(r, id, i, b)
<1>1. /\ Len(seen) \in Nat
      /\ \A k \in 1..Len(seen) : seen[k].t \in Int /\ seen[k].id \in Nat
      /\ \A k, l \in 1..Len(seen) : k <= l => seen[k].t <= seen[l].t
      /\ \A k \in i..b : k \in 1..Len(seen)
  BY SeenAre
<1>2. PICK obj : obj = seen[i].obj
  OBVIOUS
<1>3. /\ i <= j /\ r.from = seen[i].t /\ id # 0 /\ seen[i].id = id /\ seen[j].id = id
      /\ T!InsideAt(i) /\ T!Unbroken(i, j, obj)
      /\ \A k \in i..j : T!Shows(k, obj) =>
            \/ seen[k].t = seen[j].t
            \/ \E l \in i..j : T!Shows(l, obj) /\ T!InsideAt(l) /\ seen[l].t = seen[k].t
  BY <1>2 DEF Lasts
<1>4. /\ a <= b /\ q.from = seen[a].t /\ seen[a].id = id /\ seen[b].id = id
      /\ T!Unbroken(a, b, seen[a].obj) /\ T!InsideAt(a)
      /\ \A k \in a..(b - 1) : T!Shows(k, seen[a].obj) => T!InsideAt(k)
      /\ \/ q.to = seen[b].t /\ ~T!InsideAt(b)
         \/ /\ q.to = file.duration /\ T!InsideAt(b) /\ tracks[id].inside = "in"
            /\ \A k \in (b + 1)..Len(seen) : seen[k].id # id
  BY DEF Stay
<1>5. j < a
  <2>1. SUFFICES ASSUME a <= j PROVE FALSE
    OBVIOUS
  <2>2. j <= b
    <3>1. CASE q.to = seen[b].t
      <4>1. seen[j].t < seen[b].t
        BY <3>1
      <4>2. ~(b <= j)
        BY <1>1, <4>1
      <4>3. QED
        BY <4>2
    <3>2. CASE \A k \in (b + 1)..Len(seen) : seen[k].id # id
      BY <1>1, <1>3, <3>2
    <3>3. QED
      BY <1>4, <3>1, <3>2
  <2>3. j \in a..b
    BY <2>1, <2>2
  <2>4. T!Shows(j, seen[a].obj)
    BY <1>3, <1>4, <2>3, NumberKept
  <2>5. j = b
    BY <1>4, <2>3, <2>4
  <2>6. q.to = seen[b].t
    BY <1>4, <2>5
  <2>7. QED
    BY <1>1, <2>5, <2>6
<1>6. seen[a].t = seen[j].t /\ j < b
  BY <1>1, <1>4, <1>5
<1>7. seen[a].obj = obj /\ T!Shows(a, obj) /\ T!Shows(b, obj) /\ T!Unbroken(a, b, obj)
  <2>1. seen[a].t - seen[j].t <= TrackGap
    BY <1>1, <1>6, ScenesAssumption
  <2>2. seen[j].obj = seen[a].obj
    BY <1>3, <1>4, <1>5, <2>1 DEF Named
  <2>3. T!Shows(j, obj)
    BY <1>3 DEF T!Unbroken
  <2>4. QED
    BY <1>4, <2>2, <2>3 DEF T!Shows, T!Unbroken
<1>8. \A k \in i..b : k \in i..j \/ k \in (j + 1)..(a - 1) \/ k \in a..(b - 1) \/ k = b
  BY <1>5
<1>9. \A k \in (j + 1)..a : k \in 1..Len(seen) /\ seen[k].t = seen[a].t
  BY <1>1, <1>5, <1>6
<1>10. T!Unbroken(i, b, obj)
  <2>1. ASSUME NEW k \in i..(b - 1), T!Shows(k, obj)
        PROVE  \E l \in (k + 1)..b : T!Shows(l, obj) /\ seen[l].t - seen[k].t <= RuleGap
    <3>1. k \in i..(j - 1) \/ k = j \/ k \in (j + 1)..(a - 1) \/ k \in a..(b - 1)
      OBVIOUS
    <3>2. CASE k \in i..(j - 1)
      <4>1. PICK l \in (k + 1)..j : T!Shows(l, obj) /\ seen[l].t - seen[k].t <= RuleGap
        BY <1>3, <2>1, <3>2 DEF T!Unbroken
      <4>2. l \in (k + 1)..b
        BY <1>6, <3>2
      <4>3. QED
        BY <4>1, <4>2
    <3>3. CASE k = j \/ k \in (j + 1)..(a - 1)
      <4>1. seen[k].t = seen[a].t /\ a \in (k + 1)..b /\ seen[a].t \in Int
        BY <1>1, <1>4, <1>5, <1>6, <1>9, <3>3
      <4>2. seen[a].t - seen[k].t <= RuleGap
        BY <4>1, ScenesAssumption
      <4>3. QED
        BY <1>7, <4>1, <4>2
    <3>4. CASE k \in a..(b - 1)
      BY <1>7, <2>1, <3>4 DEF T!Unbroken
    <3>5. QED
      BY <3>1, <3>2, <3>3, <3>4
  <2>2. T!Shows(i, obj)
    BY <1>3 DEF T!Unbroken
  <2>3. QED
    BY <1>7, <2>1, <2>2 DEF T!Unbroken
<1>11. ASSUME NEW k \in i..b, T!Shows(k, obj)
       PROVE  \/ seen[k].t = seen[b].t
              \/ \E l \in i..b : T!Shows(l, obj) /\ T!InsideAt(l) /\ seen[l].t = seen[k].t
  <2>1. a \in i..b /\ \A l \in i..j : l \in i..b
    BY <1>3, <1>4, <1>5, <1>6
  <2>2. CASE k \in i..j
    BY <1>3, <1>4, <1>6, <1>7, <1>11, <2>1, <2>2
  <2>3. CASE k \in (j + 1)..(a - 1)
    BY <1>4, <1>7, <1>9, <2>1, <2>3
  <2>4. CASE k \in a..(b - 1)
    BY <1>4, <1>7, <1>11, <2>4
  <2>5. QED
    BY <1>8, <2>2, <2>3, <2>4
<1>12. i <= b
  BY <1>3, <1>6
<1>13. \/ seen[b].t <= r.to /\ ~T!InsideAt(b)
       \/ /\ r.to = file.duration /\ T!InsideAt(b)
          /\ \A k \in (b + 1)..Len(seen) : seen[k].id # id
  BY <1>4
<1>14. QED
  BY <1>2, <1>3, <1>4, <1>6, <1>10, <1>11, <1>12, <1>13 DEF Lasts

(* A range that meets what the ranges from a beginning reach is joined.    *)
LEMMA JoinedIfMet ==
  ASSUME NEW lo \in Int, NEW hi \in Int, NEW rs, Between(rs, lo, hi), NEW gap \in Nat,
         NEW h \in rs, R!Begins(h, rs, gap), NEW z \in R!Joined(h, rs, gap),
         NEW q \in rs, q.from < z.to, h.from < q.to
  PROVE  q \in R!Joined(h, rs, gap)
<1>1. \A x \in rs : x.from \in Int /\ x.to \in Int
  BY DEF Between, Span
<1>2. ~(q.from < h.from)
  BY <1>1 DEF R!Begins
<1>3. z \in rs /\ \A x \in rs : R!Begins(x, rs, gap) /\ x.from <= z.from => x.from <= h.from
  BY DEF R!Joined
<1>4. ASSUME NEW x \in rs, R!Begins(x, rs, gap), x.from <= q.from
      PROVE  x.from <= h.from
  <2>1. CASE z.from < x.from
    <3>1. z.to + gap < x.from
      BY <1>3, <1>4, <2>1 DEF R!Begins
    <3>2. QED
      BY <1>1, <1>3, <1>4, <3>1
  <2>2. CASE ~(z.from < x.from)
    BY <1>1, <1>3, <1>4, <2>2
  <2>3. QED
    BY <2>1, <2>2
<1>5. QED
  BY <1>1, <1>2, <1>4 DEF R!Joined

(* Both engines merge with the same function.                              *)
LEMMA MergedAlike ==
  ASSUME NEW rs, NEW gap
  PROVE  T!MergeRanges(rs, gap) = R!MergeRanges(rs, gap)
<1>1. \A r : T!Begins(r, rs, gap) <=> R!Begins(r, rs, gap)
  BY DEF T!Begins, R!Begins
<1>2. \A r : T!Joined(r, rs, gap) = R!Joined(r, rs, gap)
  BY <1>1 DEF T!Joined, R!Joined
<1>3. \A x : T!Max(x) = R!Max(x)
  BY DEF T!Max, R!Max
<1>4. QED
  BY <1>1, <1>2, <1>3 DEF T!MergeRanges, R!MergeRanges

(* The ranges a track ends with are of the run's own times, and of an open *)
(* visit the last ends with the video.                                     *)
LEMMA PersistencesBetween ==
  ASSUME Watched, Followed, Flushed, pc = "completed", scene.rule = "zone",
         NEW id \in DOMAIN tracks, NEW rs, rs = T!Persistences(tracks[id], file.duration)
  PROVE  \E hi \in Int : Between(rs, 0, hi) /\ (tracks[id].inside = "in" => hi = file.duration)
<1>1. /\ Len(seen) \in Nat /\ file.duration \in Int
      /\ \A k \in 1..Len(seen) : seen[k].t \in Int /\ 0 <= seen[k].t
      /\ \A k, l \in 1..Len(seen) : k <= l => seen[k].t <= seen[l].t
  BY SeenAre
<1>2. \A q \in rs : /\ \E i, j \in 1..Len(seen) : Stay(q, id, i, j)
                    /\ tracks[id].inside = "in" => q.to <= file.duration
  BY Stays
<1>3. ASSUME NEW q \in rs
      PROVE  /\ q \in Span /\ 0 <= q.from /\ q.from < q.to
             /\ \/ q.to = file.duration /\ tracks[id].inside = "in"
                \/ q.to <= seen[Len(seen)].t
  <2>1. PICK i \in 1..Len(seen), j \in 1..Len(seen) : Stay(q, id, i, j)
    BY <1>2
  <2>2. /\ q.from = seen[i].t /\ q.from < q.to
        /\ \/ q.to = seen[j].t
           \/ q.to = file.duration /\ tracks[id].inside = "in"
    BY <2>1 DEF Stay
  <2>3. PICK ep : q = [from |-> ep.from, to |-> ep.to]
    BY DEF T!Persistences
  <2>4. q.from \in Int /\ q.to \in Int
    BY <1>1, <2>2
  <2>5. q \in Span
    BY <2>3, <2>4 DEF Span
  <2>6. Len(seen) \in 1..Len(seen) /\ j <= Len(seen)
    BY <1>1
  <2>7. QED
    BY <1>1, <2>2, <2>5, <2>6
<1>4. CASE tracks[id].inside = "in"
  <2>1. Between(rs, 0, file.duration)
    BY <1>2, <1>3, <1>4 DEF Between
  <2>2. QED
    BY <1>1, <2>1
<1>5. CASE tracks[id].inside # "in" /\ Len(seen) \in 1..Len(seen)
  <2>1. Between(rs, 0, seen[Len(seen)].t)
    BY <1>3, <1>5 DEF Between
  <2>2. QED
    BY <1>1, <1>5, <2>1
<1>6. CASE Len(seen) \notin 1..Len(seen)
  <2>1. rs = {}
    BY <1>1, <1>2, <1>6
  <2>2. Between(rs, 0, file.duration)
    BY <2>1 DEF Between
  <2>3. QED
    BY <1>1, <2>2
<1>7. QED
  BY <1>4, <1>5, <1>6

(* Of the frames up to which a reported visit lasts, the last is its end.  *)
LEMMA VisitLasts ==
  ASSUME Watched, Named, Followed, Flushed, pc = "completed", scene.rule = "zone",
         NEW id \in DOMAIN tracks, NEW rs, rs = T!Persistences(tracks[id], file.duration),
         NEW r \in R!MergeRanges(rs, 0)
  PROVE  \E i, j \in 1..Len(seen) :
            Lasts(r, id, i, j) /\ (~T!InsideAt(j) => seen[j].t = r.to)
<1>1. /\ Len(seen) \in Nat /\ file.duration \in Int
      /\ \A k \in 1..Len(seen) : seen[k].t \in Int /\ 0 <= seen[k].t
      /\ \A k, l \in 1..Len(seen) : k <= l => seen[k].t <= seen[l].t
  BY SeenAre
<1>2. \A q \in rs : /\ \E i, j \in 1..Len(seen) : Stay(q, id, i, j)
                    /\ tracks[id].inside = "in" => q.to <= file.duration
  BY Stays
<1>3. PICK hi \in Int : Between(rs, 0, hi) /\ (tracks[id].inside = "in" => hi = file.duration)
  BY PersistencesBetween
<1>4. PICK h \in rs : R!Begins(h, rs, 0) /\ r = MergeOf(h, rs, 0)
  BY MergedIs
<1>5. /\ r \in Span /\ r.from = h.from /\ r.to <= hi /\ h.to <= r.to
      /\ \E z \in R!Joined(h, rs, 0) : z.to = r.to
      /\ \A q \in R!Joined(h, rs, 0) : q.to <= r.to
  BY <1>3, <1>4, MergedOne
<1>6. r.from \in Int /\ r.to \in Int /\ \A q \in rs : q.from \in Int /\ q.to \in Int /\ q.from < q.to
  BY <1>3, <1>5 DEF Between, Span
<1>7. ASSUME NEW q \in rs, q.from < r.to, r.from < q.to PROVE q.to <= r.to
  BY <1>3, <1>4, <1>5, <1>7, JoinedIfMet
<1>8. PICK i \in 1..Len(seen), j0 \in 1..Len(seen) : Stay(h, id, i, j0)
  BY <1>2
<1>9. ASSUME NEW q \in rs, NEW a \in 1..Len(seen), NEW b \in 1..Len(seen), Stay(q, id, a, b),
             q.from < r.to, r.from < q.to, tracks[id].inside = "in", q.to = file.duration
      PROVE  r.to = file.duration
  <2>1. q.to <= r.to /\ r.to <= hi /\ hi = file.duration
    BY <1>3, <1>5, <1>7, <1>9
  <2>2. r.to \in Int /\ file.duration \in Int
    BY <1>1, <1>6
  <2>3. QED
    BY <1>9, <2>1, <2>2
<1> DEFINE X == {j \in 1..Len(seen) : Lasts(r, id, i, j)}
<1>10. X \subseteq Int /\ \A x \in X : x <= Len(seen)
  BY <1>1
<1>11. X # {}
  <2>1. h.from < r.to /\ r.from < h.to
    BY <1>5, <1>6
  <2>2. h.to <= r.to
    BY <1>5
  <2>3. Lasts(r, id, i, j0)
    BY <1>5, <1>8, <1>9, <2>1, <2>2, FirstLasts
  <2>4. QED
    BY <2>3
<1>12. PICK j \in X : \A x \in X : x <= j
  <2> HIDE DEF X
  <2>1. Len(seen) \in Int
    BY <1>1
  <2>2. R!Max(X) \in X /\ \A x \in X : x <= R!Max(X)
    BY <1>10, <1>11, <2>1, GreatestOf
  <2>3. QED
    BY <2>2
<1>13. ASSUME ~T!InsideAt(j), seen[j].t # r.to PROVE FALSE
  <2>1. j \in 1..Len(seen) /\ Lasts(r, id, i, j)
    BY <1>12
  <2>2. seen[j].t < r.to /\ r.from <= seen[j].t
    BY <1>1, <1>6, <1>13, <2>1 DEF Lasts
  <2>3. seen[j].t \in r.from..(r.to - 1)
    <3>1. \A a, b, c \in Int : a <= b /\ b < c => b \in a..(c - 1)
      OBVIOUS
    <3>2. seen[j].t \in Int
      BY <1>1, <2>1
    <3>3. QED
      BY <1>6, <2>2, <3>1, <3>2
  <2>4. seen[j].t \in R!Instants(R!MergeRanges(rs, 0))
    BY <2>3 DEF R!Instants
  <2>5. seen[j].t \in R!Instants(rs)
    BY <1>3, <2>4, MergedIsCovered
  <2>6. PICK q \in rs : seen[j].t \in q.from..(q.to - 1)
    BY <2>5 DEF R!Instants
  <2>7. q.from <= seen[j].t /\ seen[j].t < q.to /\ q.from < r.to /\ r.from < q.to
    <3>1. \A a, b, c, d, x \in Int :
              x \in a..(b - 1) /\ x < d /\ c <= x => a <= x /\ x < b /\ a < d /\ c < b
      OBVIOUS
    <3>2. seen[j].t \in Int
      BY <1>1, <2>1
    <3>3. QED
      BY <1>6, <2>2, <2>6, <3>1, <3>2
  <2>8. PICK a \in 1..Len(seen), b \in 1..Len(seen) : Stay(q, id, a, b)
    BY <1>2
  <2>9. q.to <= r.to
    BY <1>7, <2>7
  <2>10. j < b /\ Lasts(r, id, i, b)
    BY <1>9, <1>13, <2>1, <2>7, <2>8, <2>9, NextLasts
  <2>11. b \in X
    BY <2>10
  <2>12. QED
    BY <1>10, <1>12, <2>1, <2>10, <2>11
<1>14. QED
  BY <1>12, <1>13

(* With the gap the rules have by default, none, a zone event is about one *)
(* object that is inside the zone at every sampled time from its first     *)
(* frame to its end and never lost, however many visits were merged into   *)
(* it (_zone_track_state, _merge_zone_episodes).                           *)
THEOREM ReportedVisitsAreReal == ToldTruly /\ MergeGap = 0 => (Spec => []VisitsAreReal)
<1>0. ToldTruly /\ MergeGap = 0 => ToldTruly' /\ (MergeGap = 0)'
  OBVIOUS
<1>1. MergeGap = 0 /\ TrackedInv => VisitsAreReal
  <2> SUFFICES ASSUME MergeGap = 0, Watched, Named, Followed, Flushed, pc = "completed",
                      scene.rule = "zone", NEW e \in events
               PROVE  \E i, j \in T!Frames :
                         /\ seen[i].t = e.from /\ seen[i].id = e.id /\ seen[j].id = e.id
                         /\ T!InsideAt(i)
                         /\ T!Unbroken(i, j, seen[i].obj)
                         /\ \A k \in i..j : T!Shows(k, seen[i].obj) =>
                               \/ seen[k].t = e.to
                               \/ \E l \in i..j : /\ T!Shows(l, seen[i].obj) /\ T!InsideAt(l)
                                                 /\ seen[l].t = seen[k].t
                         /\ \/ seen[j].t = e.to /\ ~T!InsideAt(j)
                            \/ /\ e.to = file.duration
                               /\ \A k \in (j + 1)..Len(seen) : seen[k].id # e.id
    BY DEF TrackedInv, VisitsAreReal, T!VisitsAreReal
  <2>1. PICK id \in DOMAIN tracks : \E ep \in T!FinalEpisodes(tracks[id], file.duration) :
            e.id = id /\ e.from = ep.from /\ e.to = ep.to
    BY EventsOfTracks
  <2>2. PICK rs : rs = T!Persistences(tracks[id], file.duration)
    OBVIOUS
  <2>3. PICK ep \in {T!Episode(r.from, r.to, FALSE) : r \in T!MergeRanges(rs, 0)} :
            e.id = id /\ e.from = ep.from /\ e.to = ep.to
    BY <2>1, <2>2 DEF T!FinalEpisodes
  <2>4. PICK r \in T!MergeRanges(rs, 0) : ep = T!Episode(r.from, r.to, FALSE)
    BY <2>3
  <2>5. r \in R!MergeRanges(rs, 0) /\ e.from = r.from /\ e.to = r.to /\ e.id = id
    BY <2>3, <2>4, MergedAlike DEF T!Episode
  <2>6. PICK i \in 1..Len(seen), j \in 1..Len(seen) :
            Lasts(r, id, i, j) /\ (~T!InsideAt(j) => seen[j].t = r.to)
    BY <2>2, <2>5, VisitLasts
  <2>7. /\ i \in T!Frames /\ j \in T!Frames /\ i <= j
        /\ j \in i..j
    <3>1. i <= j
      BY <2>6 DEF Lasts
    <3>2. QED
      BY <3>1, SeenAre DEF T!Frames
  <2>8. T!Shows(j, seen[i].obj)
    BY <2>6 DEF Lasts, T!Unbroken
  <2>9. ASSUME NEW k \in i..j, T!Shows(k, seen[i].obj)
        PROVE  \/ seen[k].t = e.to
               \/ \E l \in i..j : /\ T!Shows(l, seen[i].obj) /\ T!InsideAt(l)
                                 /\ seen[l].t = seen[k].t
    <3>1. CASE seen[k].t = seen[j].t
      BY <2>5, <2>6, <2>7, <2>8, <3>1
    <3>2. CASE seen[k].t # seen[j].t
      BY <2>6, <2>9, <3>2 DEF Lasts
    <3>3. QED
      BY <3>1, <3>2
  <2>10. \/ seen[j].t = e.to /\ ~T!InsideAt(j)
         \/ e.to = file.duration /\ \A k \in (j + 1)..Len(seen) : seen[k].id # e.id
    BY <2>5, <2>6 DEF Lasts
  <2>11. /\ seen[i].t = e.from /\ seen[i].id = e.id /\ seen[j].id = e.id
         /\ T!InsideAt(i) /\ T!Unbroken(i, j, seen[i].obj)
    BY <2>5, <2>6 DEF Lasts
  <2>12. QED
    BY <2>7, <2>9, <2>10, <2>11
<1>2. QED
  BY <1>0, <1>1, TrackedInvCorrect, PTL

-----------------------------------------------------------------------------
(* What the rules collect leaves nothing out: the invariant that proves    *)
(* that a track which is never lost is counted.                            *)

(* The track with this number was never out of sight for longer than the   *)
(* rules allow.                                                            *)
Steady(id) ==
    \A k, l \in 1..Len(seen) :
        /\ k < l /\ seen[k].id = id /\ seen[l].id = id
        /\ \A q \in (k + 1)..(l - 1) : seen[q].id # id
        => seen[l].t - seen[k].t <= RuleGap

InBand(id, i, j) == \A k \in i..j : seen[k].id = id => T!SideAt(k) = 0
InZone(id, i, j) == \A k \in i..j : seen[k].id = id => T!InsideAt(k)

(* Of such a track, the state of a line rule knows the last sample on the  *)
(* approach side and an episode of every crossing, ...                     *)
LineCounted(id, ts) ==
    /\ \A p \in 1..Len(seen) :
          seen[p].id = id /\ T!SideAt(p) = FromSide /\ InBand(id, p + 1, Len(seen)) =>
              ts.side = FromSide /\ ts.pre = seen[p].t
    /\ \A i, j \in 1..Len(seen) :
          /\ i < j /\ seen[i].id = id /\ seen[j].id = id
          /\ T!SideAt(i) = FromSide /\ T!SideAt(j) = ToSide /\ InBand(id, i + 1, j - 1)
          => \E ep \in ts.episodes : ep.from = seen[i].t /\ ep.to = seen[j].t

(* ... and that of a zone rule the visit that is under way and every one   *)
(* that has ended.                                                         *)
ZoneCounted(id, ts) ==
    /\ \A p \in 1..Len(seen) :
          seen[p].id = id /\ InZone(id, p, Len(seen)) =>
              ts.inside = "in" /\ ts.entry <= seen[p].t
    /\ \A i, j \in 1..Len(seen) :
          /\ i < j /\ seen[i].id = id /\ seen[j].id = id
          /\ ~T!InsideAt(j) /\ InZone(id, i, j - 1)
          => \E ep \in ts.episodes : ep.from <= seen[i].t /\ ep.to = seen[j].t

Counts(id, ts) == IF scene.rule = "zone" THEN ZoneCounted(id, ts) ELSE LineCounted(id, ts)

Counted ==
    /\ \A k \in 1..Len(seen) : seen[k].id # 0 => seen[k].id \in DOMAIN tracks
    /\ \A id \in DOMAIN tracks : Steady(id) => Counts(id, tracks[id])

(* What a new frame adds to what is said of the frames before it.          *)
LEMMA MoreSeen ==
  ASSUME ToldTruly, Watched, NEW f \in Frame, NEW n, n = Len(seen), seen' = Append(seen, f)
  PROVE  /\ n \in Nat /\ Len(seen') = n + 1
         /\ \A k \in 1..n : /\ seen'[k] = seen[k] /\ k \in 1..(n + 1) /\ seen[k].t \in Int
                            /\ seen[k].id \in Nat
                            /\ T!SideAt(k)' = T!SideAt(k) /\ (T!InsideAt(k)' <=> T!InsideAt(k))
         /\ seen'[n + 1] = f /\ n + 1 \in 1..(n + 1) /\ f.t \in Int
         /\ T!SideAt(n + 1)' = SideOf(f) /\ (T!InsideAt(n + 1)' <=> T!ZoneInside(f))
<1>1. /\ n \in Nat /\ Len(seen') = n + 1 /\ seen'[n + 1] = f
      /\ \A k \in 1..n : seen'[k] = seen[k] /\ seen[k] \in Frame
  BY SeenGrows
<1>2. /\ n + 1 \in 1..(n + 1) /\ f.t \in Int /\ f.place \in DOMAIN Places
      /\ \A k \in 1..n : k \in 1..(n + 1) /\ seen[k].t \in Int /\ seen[k].id \in Nat
  BY <1>1 DEF Frame
<1>3. \A k : T!SideAt(k)' = Places[seen'[k].place].side
             /\ (T!InsideAt(k)' <=> Places[seen'[k].place].inside)
  BY DEF T!SideAt, T!InsideAt
<1>4. \A k \in 1..n : T!SideAt(k)' = T!SideAt(k) /\ (T!InsideAt(k)' <=> T!InsideAt(k))
  BY <1>1 DEF T!SideAt, T!InsideAt
<1>5. T!SideAt(n + 1)' = SideOf(f) /\ (T!InsideAt(n + 1)' <=> T!ZoneInside(f))
  BY <1>1, <1>2, <1>3 DEF ToldTruly, SideOf, T!ZoneInside
<1>6. QED
  BY <1>1, <1>2, <1>4, <1>5

(* ... and to what is said of a stretch of frames.                         *)
LEMMA BandsGrow ==
  ASSUME ToldTruly, Watched, NEW f \in Frame, NEW n, n = Len(seen), seen' = Append(seen, f),
         NEW id, NEW i \in 1..(n + 1)
  PROVE  /\ \A j \in 0..n : /\ InBand(id, i, j)' <=> InBand(id, i, j)
                            /\ InZone(id, i, j)' <=> InZone(id, i, j)
         /\ InBand(id, i, n + 1)' <=> InBand(id, i, n) /\ (f.id = id => SideOf(f) = 0)
         /\ InZone(id, i, n + 1)' <=> InZone(id, i, n) /\ (f.id = id => T!ZoneInside(f))
         /\ InBand(id, n + 2, n + 1)'
<1>1. /\ n \in Nat /\ Len(seen') = n + 1
      /\ \A k \in 1..n : /\ seen'[k] = seen[k]
                         /\ T!SideAt(k)' = T!SideAt(k) /\ (T!InsideAt(k)' <=> T!InsideAt(k))
      /\ seen'[n + 1] = f
      /\ T!SideAt(n + 1)' = SideOf(f) /\ (T!InsideAt(n + 1)' <=> T!ZoneInside(f))
  BY MoreSeen
<1>2. \A a, b : /\ InBand(id, a, b)' <=> \A k \in a..b : seen'[k].id = id => T!SideAt(k)' = 0
                /\ InZone(id, a, b)' <=> \A k \in a..b : seen'[k].id = id => T!InsideAt(k)'
  BY DEF InBand, InZone
<1>3. ASSUME NEW j \in 0..n
      PROVE  /\ InBand(id, i, j)' <=> InBand(id, i, j)
             /\ InZone(id, i, j)' <=> InZone(id, i, j)
  <2>1. \A k \in i..j : k \in 1..n
    BY <1>1
  <2>2. QED
    BY <1>1, <1>2, <2>1 DEF InBand, InZone
<1>4. /\ \A k \in i..(n + 1) : k \in i..n \/ k = n + 1
      /\ \A k \in i..n : k \in i..(n + 1) /\ k \in 1..n
      /\ n + 1 \in i..(n + 1) /\ \A k \in (n + 2)..(n + 1) : FALSE
  <2>1. i \in Int /\ 1 <= i /\ i <= n + 1
    BY <1>1
  <2>2. \A k \in i..(n + 1) : k \in i..n \/ k = n + 1
    BY <1>1, <2>1, UpTo
  <2>3. QED
    BY <1>1, <2>1, <2>2
<1>5. InBand(id, i, n + 1)' <=> InBand(id, i, n) /\ (f.id = id => SideOf(f) = 0)
  BY <1>1, <1>2, <1>4 DEF InBand
<1>6. InZone(id, i, n + 1)' <=> InZone(id, i, n) /\ (f.id = id => T!ZoneInside(f))
  BY <1>1, <1>2, <1>4 DEF InZone
<1>7. InBand(id, n + 2, n + 1)'
  BY <1>2, <1>4
<1>8. QED
  BY <1>3, <1>5, <1>6, <1>7

(* While a track is not lost, nothing its state tells is forgotten.        *)
LEMMA LineKeeps ==
  ASSUME NEW ts0 \in TrackState, NEW t \in Nat, NEW sight, sight.predicted \in BOOLEAN,
         ~T!Gap(ts0, t), NEW ts, ts = T!LineStep(ts0, sight, t)
  PROVE  /\ ts0.episodes \subseteq ts.episodes
         /\ SideOf(sight) = 0 => ts.side = ts0.side /\ ts.pre = ts0.pre
         /\ SideOf(sight) = FromSide => ts.side = FromSide /\ ts.pre = t
         /\ SideOf(sight) = ToSide /\ ts0.side = FromSide =>
               \E ep \in ts.episodes : ep.from = ts0.pre /\ ep.to = t
<1> DEFINE side == SideOf(sight)
           base == T!AfterLineGap(ts0, t)
           ep0 == T!Episode(base.pre, t, base.prePred \/ sight.predicted)
<1>1. side \in {-1, 0, 1}
  BY DEF SideOf, T!LineSide
<1>2. /\ base \in TrackState /\ base.side = ts0.side /\ base.pre = ts0.pre
      /\ base.episodes = ts0.episodes
  <2>1. base = [ts0 EXCEPT !.time = t]
    BY DEF T!AfterLineGap
  <2>2. QED
    BY <2>1 DEF TrackState
<1>3. ts = IF side = 0 THEN base
           ELSE IF base.side = FromSide /\ side = ToSide THEN T!Crossed(base, side, ep0)
           ELSE IF side = FromSide
           THEN [base EXCEPT !.side = side, !.pre = t, !.prePred = sight.predicted]
           ELSE [base EXCEPT !.side = side]
  BY ScenesAssumption DEF T!LineStep, SideOf, T!IsValidCrossing
<1>4. ep0 \in EpisodeSet /\ ep0.from = ts0.pre /\ ep0.to = t
  <2>1. base.pre \in Int /\ base.prePred \in BOOLEAN
    BY <1>2 DEF TrackState
  <2>2. QED
    BY <1>2, <2>1 DEF T!Episode, EpisodeSet
<1> HIDE DEF side, base, ep0
<1>5. FromSide # 0 /\ ToSide # 0 /\ FromSide # ToSide
  BY ScenesAssumption
<1>6. CASE side = 0
  BY <1>2, <1>3, <1>5, <1>6 DEF side
<1>7. CASE side # 0 /\ base.side = FromSide /\ side = ToSide
  <2>1. ts = Crossing(base, side, T!NoTime, base.episodes \cup {ep0})
    BY <1>3, <1>7 DEF T!Crossed, Crossing
  <2>2. ts.episodes = base.episodes \cup {ep0}
    <3>1. side \in Int /\ T!NoTime \in Int /\ base.episodes \cup {ep0} \in SUBSET EpisodeSet
      BY <1>1, <1>2, <1>4, OneMore DEF T!NoTime
    <3>2. QED
      BY <1>2, <2>1, <3>1, CrossingIs
  <2>3. QED
    BY <1>2, <1>4, <1>5, <1>7, <2>2 DEF side
<1>8. CASE side # 0 /\ ~(base.side = FromSide /\ side = ToSide) /\ side = FromSide
  <2>1. ts = Approaching(base, side, t, sight.predicted)
    BY <1>3, <1>8 DEF Approaching
  <2>2. PICK q : q = sight.predicted
    OBVIOUS
  <2>3. q \in BOOLEAN /\ side \in Int /\ t \in Int
    BY <1>1, <2>2
  <2>4. ts = Approaching(base, side, t, q)
    BY <2>1, <2>2
  <2>5. ts.side = side /\ ts.pre = t /\ ts.episodes = base.episodes
    BY <1>2, <2>3, <2>4, ApproachingIs
  <2>6. QED
    BY <1>2, <1>5, <1>8, <2>5 DEF side
<1>9. CASE side # 0 /\ ~(base.side = FromSide /\ side = ToSide) /\ side # FromSide
  <2>1. ts = [base EXCEPT !.side = side]
    BY <1>3, <1>9
  <2>2. ts.episodes = base.episodes
    BY <1>2, <2>1 DEF TrackState
  <2>3. QED
    BY <1>2, <1>9, <2>2 DEF side
<1>10. QED
  BY <1>6, <1>7, <1>8, <1>9

LEMMA ZoneKeeps ==
  ASSUME NEW ts0 \in TrackState, NEW t \in Nat, NEW sight,
         ~T!Gap(ts0, t), NEW ts, ts = T!ZoneStep(ts0, sight, t)
  PROVE  /\ ts0.episodes \subseteq ts.episodes
         /\ T!ZoneInside(sight) =>
               /\ ts.inside = "in"
               /\ ts.entry = IF ts0.inside = "in" THEN ts0.entry ELSE t
         /\ ~T!ZoneInside(sight) /\ ts0.inside = "in" =>
               \E ep \in ts.episodes : ep.from = ts0.entry /\ ep.to = t
<1> DEFINE inside == T!ZoneInside(sight)
           base == T!AfterZoneGap(ts0, t)
           ep0 == T!Episode(base.entry, t, FALSE)
<1>1. /\ base \in TrackState /\ base.inside = ts0.inside /\ base.entry = ts0.entry
      /\ base.episodes = ts0.episodes
  <2>1. base = [ts0 EXCEPT !.time = t]
    BY DEF T!AfterZoneGap
  <2>2. QED
    BY <2>1 DEF TrackState
<1>2. ts = IF inside /\ base.inside # "in" THEN [base EXCEPT !.inside = "in", !.entry = t]
           ELSE IF ~inside /\ base.inside = "in"
           THEN [base EXCEPT !.inside = "out", !.entry = T!NoTime, !.episodes = @ \cup {ep0}]
           ELSE [base EXCEPT !.inside = IF inside THEN "in" ELSE "out"]
  BY DEF T!ZoneStep
<1>3. ep0 \in EpisodeSet /\ ep0.from = ts0.entry /\ ep0.to = t
  <2>1. base.entry \in Int
    BY <1>1 DEF TrackState
  <2>2. QED
    BY <1>1, <2>1 DEF T!Episode, EpisodeSet
<1> HIDE DEF inside, base, ep0
<1>4. CASE inside /\ base.inside # "in"
  <2>1. ts = [base EXCEPT !.inside = "in", !.entry = t]
    BY <1>2, <1>4
  <2>2. ts.inside = "in" /\ ts.entry = t /\ ts.episodes = base.episodes
    BY <1>1, <2>1 DEF TrackState
  <2>3. QED
    BY <1>1, <1>4, <2>2 DEF inside
<1>5. CASE ~inside /\ base.inside = "in"
  <2>1. ts = Leaving(base, T!NoTime, base.episodes \cup {ep0})
    BY <1>2, <1>5 DEF Leaving
  <2>2. ts.episodes = base.episodes \cup {ep0}
    <3>1. T!NoTime \in Int /\ base.episodes \cup {ep0} \in SUBSET EpisodeSet
      BY <1>1, <1>3, OneMore DEF T!NoTime
    <3>2. QED
      BY <1>1, <2>1, <3>1, LeavingIs
  <2>3. QED
    BY <1>1, <1>3, <1>5, <2>2 DEF inside
<1>6. CASE ~(inside /\ base.inside # "in") /\ ~(~inside /\ base.inside = "in")
  <2>1. ts = [base EXCEPT !.inside = IF inside THEN "in" ELSE "out"]
    BY <1>2, <1>6
  <2>2. /\ ts.episodes = base.episodes /\ ts.entry = base.entry
        /\ ts.inside = IF inside THEN "in" ELSE "out"
    BY <1>1, <2>1 DEF TrackState
  <2>3. QED
    BY <1>1, <1>6, <2>2 DEF inside
<1>7. QED
  BY <1>4, <1>5, <1>6

(* One more sample of a track that is not lost leaves every crossing, ...  *)
LEMMA LineCounts ==
  ASSUME ToldTruly, Watched, NEW f \in Frame, NEW n, n = Len(seen), seen' = Append(seen, f),
         f.id # 0, NEW id, id = f.id, NEW ts0 \in TrackState, LineCounted(id, ts0), ~T!Gap(ts0, f.t),
         NEW ts, ts = T!LineStep(ts0, f, f.t)
  PROVE  LineCounted(id, ts)'
<1>1. /\ n \in Nat /\ Len(seen') = n + 1
      /\ \A k \in 1..n : /\ seen'[k] = seen[k] /\ k \in 1..(n + 1)
                         /\ T!SideAt(k)' = T!SideAt(k)
      /\ seen'[n + 1] = f /\ n + 1 \in 1..(n + 1)
      /\ T!SideAt(n + 1)' = SideOf(f)
  BY MoreSeen
<1> DEFINE side == SideOf(f)
<1>2. /\ ts0.episodes \subseteq ts.episodes
      /\ side = 0 => ts.side = ts0.side /\ ts.pre = ts0.pre
      /\ side = FromSide => ts.side = FromSide /\ ts.pre = f.t
      /\ side = ToSide /\ ts0.side = FromSide =>
            \E ep \in ts.episodes : ep.from = ts0.pre /\ ep.to = f.t
  <2>1. f.t \in Nat /\ f.predicted \in BOOLEAN
    BY DEF Frame
  <2>2. QED
    BY <2>1, LineKeeps
<1> HIDE DEF side
<1>3. \A i \in 1..(n + 1) :
         /\ \A j \in 0..n : InBand(id, i, j)' <=> InBand(id, i, j)
         /\ InBand(id, i, n + 1)' <=> InBand(id, i, n) /\ side = 0
  BY BandsGrow DEF side
<1>4. /\ \A p \in 1..n :
            seen[p].id = id /\ T!SideAt(p) = FromSide /\ InBand(id, p + 1, n) =>
                ts0.side = FromSide /\ ts0.pre = seen[p].t
      /\ \A i, j \in 1..n :
            /\ i < j /\ seen[i].id = id /\ seen[j].id = id
            /\ T!SideAt(i) = FromSide /\ T!SideAt(j) = ToSide /\ InBand(id, i + 1, j - 1)
            => \E ep \in ts0.episodes : ep.from = seen[i].t /\ ep.to = seen[j].t
  BY DEF LineCounted
<1>5. FromSide # 0 /\ ToSide # 0 /\ FromSide # ToSide
  BY ScenesAssumption
<1>6. \A p \in 1..(n + 1) : p \in 1..n \/ p = n + 1
  BY <1>1
<1>7. ASSUME NEW p \in 1..(n + 1), seen'[p].id = id, T!SideAt(p)' = FromSide,
             InBand(id, p + 1, n + 1)'
      PROVE  ts.side = FromSide /\ ts.pre = seen'[p].t
  <2>1. CASE p = n + 1
    BY <1>1, <1>2, <1>7, <2>1 DEF side
  <2>2. CASE p \in 1..n
    <3>1. p + 1 \in 1..(n + 1)
      BY <1>1, <2>2
    <3>2. InBand(id, p + 1, n) /\ side = 0
      BY <1>3, <1>7, <3>1
    <3>3. QED
      BY <1>1, <1>2, <1>4, <1>7, <2>2, <3>2
  <2>3. QED
    BY <1>6, <2>1, <2>2
<1>8. ASSUME NEW i \in 1..(n + 1), NEW j \in 1..(n + 1), i < j, seen'[i].id = id,
             seen'[j].id = id, T!SideAt(i)' = FromSide, T!SideAt(j)' = ToSide,
             InBand(id, i + 1, j - 1)'
      PROVE  \E ep \in ts.episodes : ep.from = seen'[i].t /\ ep.to = seen'[j].t
  <2>1. i \in 1..n /\ i + 1 \in 1..(n + 1) /\ j - 1 \in 0..n
    BY <1>1, <1>8
  <2>2. InBand(id, i + 1, j - 1) /\ T!SideAt(i) = FromSide /\ seen[i].id = id
    BY <1>1, <1>3, <1>8, <2>1
  <2>3. CASE j = n + 1
    <3>1. j - 1 = n
      BY <1>1, <2>3
    <3>2. ts0.side = FromSide /\ ts0.pre = seen[i].t
      BY <1>4, <2>1, <2>2, <3>1
    <3>3. side = ToSide
      BY <1>1, <1>8, <2>3 DEF side
    <3>4. QED
      BY <1>1, <1>2, <2>1, <2>3, <3>2, <3>3
  <2>4. CASE j \in 1..n
    <3>1. seen[j].id = id /\ T!SideAt(j) = ToSide
      BY <1>1, <1>8, <2>4
    <3>2. \E ep \in ts0.episodes : ep.from = seen[i].t /\ ep.to = seen[j].t
      BY <1>4, <1>8, <2>1, <2>2, <2>4, <3>1
    <3>3. QED
      BY <1>1, <1>2, <2>1, <2>4, <3>2
  <2>5. QED
    BY <1>6, <2>3, <2>4
<1>9. /\ \A p \in 1..(n + 1) :
            seen'[p].id = id /\ T!SideAt(p)' = FromSide /\ InBand(id, p + 1, n + 1)' =>
                ts.side = FromSide /\ ts.pre = seen'[p].t
      /\ \A i, j \in 1..(n + 1) :
            /\ i < j /\ seen'[i].id = id /\ seen'[j].id = id
            /\ T!SideAt(i)' = FromSide /\ T!SideAt(j)' = ToSide /\ InBand(id, i + 1, j - 1)'
            => \E ep \in ts.episodes : ep.from = seen'[i].t /\ ep.to = seen'[j].t
  BY <1>7, <1>8
<1>10. QED
  <2>1. Len(seen') = n + 1
    BY <1>1
  <2>2. QED
    BY <1>9, <2>1 DEF LineCounted

(* ... and every visit, counted.                                           *)
LEMMA ZoneCounts ==
  ASSUME ToldTruly, Watched, NEW f \in Frame, NEW n, n = Len(seen), seen' = Append(seen, f),
         f.id # 0, NEW id, id = f.id, NEW ts0 \in TrackState, ZoneCounted(id, ts0), ~T!Gap(ts0, f.t),
         ts0.inside = "in" => ts0.entry <= f.t,
         NEW ts, ts = T!ZoneStep(ts0, f, f.t)
  PROVE  ZoneCounted(id, ts)'
<1>1. /\ n \in Nat /\ Len(seen') = n + 1
      /\ \A k \in 1..n : /\ seen'[k] = seen[k] /\ k \in 1..(n + 1)
                         /\ T!InsideAt(k)' <=> T!InsideAt(k)
      /\ seen'[n + 1] = f /\ n + 1 \in 1..(n + 1) /\ f.t \in Int
      /\ T!InsideAt(n + 1)' <=> T!ZoneInside(f)
  BY MoreSeen
<1>2. /\ ts0.episodes \subseteq ts.episodes
      /\ T!ZoneInside(f) =>
            ts.inside = "in" /\ ts.entry = IF ts0.inside = "in" THEN ts0.entry ELSE f.t
      /\ ~T!ZoneInside(f) /\ ts0.inside = "in" =>
            \E ep \in ts.episodes : ep.from = ts0.entry /\ ep.to = f.t
  <2>1. f.t \in Nat
    BY DEF Frame
  <2>2. QED
    BY <2>1, ZoneKeeps
<1>3. \A i \in 1..(n + 1) :
         /\ \A j \in 0..n : InZone(id, i, j)' <=> InZone(id, i, j)
         /\ InZone(id, i, n + 1)' <=> InZone(id, i, n) /\ T!ZoneInside(f)
  BY BandsGrow
<1>4. /\ \A p \in 1..n :
            seen[p].id = id /\ InZone(id, p, n) => ts0.inside = "in" /\ ts0.entry <= seen[p].t
      /\ \A i, j \in 1..n :
            /\ i < j /\ seen[i].id = id /\ seen[j].id = id
            /\ ~T!InsideAt(j) /\ InZone(id, i, j - 1)
            => \E ep \in ts0.episodes : ep.from <= seen[i].t /\ ep.to = seen[j].t
  BY DEF ZoneCounted
<1>6. \A p \in 1..(n + 1) : p \in 1..n \/ p = n + 1
  BY <1>1
<1>7. ASSUME NEW p \in 1..(n + 1), seen'[p].id = id, InZone(id, p, n + 1)'
      PROVE  ts.inside = "in" /\ ts.entry <= seen'[p].t
  <2>0. T!ZoneInside(f) /\ InZone(id, p, n)
    BY <1>3, <1>7
  <2>1. CASE p = n + 1
    BY <1>1, <1>2, <2>0, <2>1
  <2>2. CASE p \in 1..n
    <3>1. ts0.inside = "in" /\ ts0.entry <= seen[p].t
      BY <1>1, <1>4, <1>7, <2>0, <2>2
    <3>2. QED
      BY <1>1, <1>2, <2>0, <2>2, <3>1
  <2>3. QED
    BY <1>6, <2>1, <2>2
<1>8. ASSUME NEW i \in 1..(n + 1), NEW j \in 1..(n + 1), i < j, seen'[i].id = id,
             seen'[j].id = id, ~T!InsideAt(j)', InZone(id, i, j - 1)'
      PROVE  \E ep \in ts.episodes : ep.from <= seen'[i].t /\ ep.to = seen'[j].t
  <2>1. i \in 1..n /\ j - 1 \in 0..n
    BY <1>1, <1>8
  <2>2. InZone(id, i, j - 1) /\ seen[i].id = id
    BY <1>1, <1>3, <1>8, <2>1
  <2>3. CASE j = n + 1
    <3>1. j - 1 = n
      BY <1>1, <2>3
    <3>2. ts0.inside = "in" /\ ts0.entry <= seen[i].t
      BY <1>4, <2>1, <2>2, <3>1
    <3>3. ~T!ZoneInside(f)
      BY <1>1, <1>8, <2>3
    <3>4. QED
      BY <1>1, <1>2, <2>1, <2>3, <3>2, <3>3
  <2>4. CASE j \in 1..n
    <3>1. seen[j].id = id /\ ~T!InsideAt(j)
      BY <1>1, <1>8, <2>4
    <3>2. \E ep \in ts0.episodes : ep.from <= seen[i].t /\ ep.to = seen[j].t
      BY <1>4, <1>8, <2>1, <2>2, <2>4, <3>1
    <3>3. QED
      BY <1>1, <1>2, <2>1, <2>4, <3>2
  <2>5. QED
    BY <1>6, <2>3, <2>4
<1>9. QED
  BY <1>1, <1>7, <1>8 DEF ZoneCounted

(* A frame of another number changes nothing that is counted of a track.   *)
LEMMA OthersCount ==
  ASSUME ToldTruly, Watched, NEW f \in Frame, NEW n, n = Len(seen), seen' = Append(seen, f),
         scene' = scene, NEW id, f.id # id, NEW ts, Counts(id, ts)
  PROVE  Counts(id, ts)'
<1>1. /\ n \in Nat /\ Len(seen') = n + 1
      /\ \A k \in 1..n : /\ seen'[k] = seen[k] /\ k \in 1..(n + 1)
                         /\ T!SideAt(k)' = T!SideAt(k) /\ (T!InsideAt(k)' <=> T!InsideAt(k))
      /\ seen'[n + 1] = f
  BY MoreSeen
<1>2. \A i \in 1..(n + 1) :
         /\ \A j \in 0..n : /\ InBand(id, i, j)' <=> InBand(id, i, j)
                            /\ InZone(id, i, j)' <=> InZone(id, i, j)
         /\ InBand(id, i, n + 1)' => InBand(id, i, n)
         /\ InZone(id, i, n + 1)' => InZone(id, i, n)
  BY BandsGrow
<1>3. ASSUME NEW p \in 1..(n + 1), seen'[p].id = id
      PROVE  /\ p \in 1..n /\ seen[p].id = id /\ p + 1 \in 1..(n + 1) /\ p - 1 \in 0..n
             /\ seen'[p].t = seen[p].t
  <2>1. p # n + 1
    BY <1>1, <1>3
  <2>2. p \in 1..n
    BY <1>1, <2>1
  <2>3. QED
    BY <1>1, <1>3, <2>2
<1>4. ASSUME LineCounted(id, ts) PROVE LineCounted(id, ts)'
  <2>1. /\ \A p \in 1..n :
              seen[p].id = id /\ T!SideAt(p) = FromSide /\ InBand(id, p + 1, n) =>
                  ts.side = FromSide /\ ts.pre = seen[p].t
        /\ \A i, j \in 1..n :
              /\ i < j /\ seen[i].id = id /\ seen[j].id = id
              /\ T!SideAt(i) = FromSide /\ T!SideAt(j) = ToSide /\ InBand(id, i + 1, j - 1)
              => \E ep \in ts.episodes : ep.from = seen[i].t /\ ep.to = seen[j].t
    BY <1>4 DEF LineCounted
  <2>2. ASSUME NEW p \in 1..(n + 1), seen'[p].id = id, T!SideAt(p)' = FromSide,
               InBand(id, p + 1, n + 1)'
        PROVE  ts.side = FromSide /\ ts.pre = seen'[p].t
    BY <1>1, <1>2, <1>3, <2>1, <2>2
  <2>3. ASSUME NEW i \in 1..(n + 1), NEW j \in 1..(n + 1), i < j, seen'[i].id = id,
               seen'[j].id = id, T!SideAt(i)' = FromSide, T!SideAt(j)' = ToSide,
               InBand(id, i + 1, j - 1)'
        PROVE  \E ep \in ts.episodes : ep.from = seen'[i].t /\ ep.to = seen'[j].t
    <3>1. /\ i \in 1..n /\ j \in 1..n /\ i + 1 \in 1..(n + 1) /\ j - 1 \in 0..n
          /\ seen[i].id = id /\ seen[j].id = id /\ seen'[i].t = seen[i].t /\ seen'[j].t = seen[j].t
      BY <1>3, <2>3
    <3>2. InBand(id, i + 1, j - 1) /\ T!SideAt(i) = FromSide /\ T!SideAt(j) = ToSide
      BY <1>1, <1>2, <2>3, <3>1
    <3>3. QED
      BY <2>1, <2>3, <3>1, <3>2
  <2>4. QED
    BY <1>1, <2>2, <2>3 DEF LineCounted
<1>5. ASSUME ZoneCounted(id, ts) PROVE ZoneCounted(id, ts)'
  <2>1. /\ \A p \in 1..n :
              seen[p].id = id /\ InZone(id, p, n) => ts.inside = "in" /\ ts.entry <= seen[p].t
        /\ \A i, j \in 1..n :
              /\ i < j /\ seen[i].id = id /\ seen[j].id = id
              /\ ~T!InsideAt(j) /\ InZone(id, i, j - 1)
              => \E ep \in ts.episodes : ep.from <= seen[i].t /\ ep.to = seen[j].t
    BY <1>5 DEF ZoneCounted
  <2>2. ASSUME NEW p \in 1..(n + 1), seen'[p].id = id, InZone(id, p, n + 1)'
        PROVE  ts.inside = "in" /\ ts.entry <= seen'[p].t
    BY <1>1, <1>2, <1>3, <2>1, <2>2
  <2>3. ASSUME NEW i \in 1..(n + 1), NEW j \in 1..(n + 1), i < j, seen'[i].id = id,
               seen'[j].id = id, ~T!InsideAt(j)', InZone(id, i, j - 1)'
        PROVE  \E ep \in ts.episodes : ep.from <= seen'[i].t /\ ep.to = seen'[j].t
    <3>1. /\ i \in 1..n /\ j \in 1..n /\ j - 1 \in 0..n
          /\ seen[i].id = id /\ seen[j].id = id /\ seen'[i].t = seen[i].t /\ seen'[j].t = seen[j].t
      BY <1>3, <2>3
    <3>2. InZone(id, i, j - 1) /\ ~T!InsideAt(j)
      BY <1>1, <1>2, <2>3, <3>1
    <3>3. QED
      BY <2>1, <2>3, <3>1, <3>2
  <2>4. QED
    BY <1>1, <2>2, <2>3 DEF ZoneCounted
<1>6. QED
  BY <1>4, <1>5 DEF Counts

LEMMA SteadyBefore ==
  ASSUME Watched, NEW f \in Frame, NEW n, n = Len(seen), seen' = Append(seen, f),
         NEW id, Steady(id)'
  PROVE  /\ Steady(id)
         /\ \A m \in 1..n : f.id = id /\ LastSeen(id, m) => f.t - seen[m].t <= RuleGap
<1>1. /\ n \in Nat /\ Len(seen') = n + 1 /\ seen'[n + 1] = f /\ n + 1 \in 1..(n + 1)
      /\ \A k \in 1..n : seen'[k] = seen[k] /\ k \in 1..(n + 1)
  BY SeenGrows
<1>2. \A k, l \in 1..(n + 1) :
          /\ k < l /\ seen'[k].id = id /\ seen'[l].id = id
          /\ \A q \in (k + 1)..(l - 1) : seen'[q].id # id
          => seen'[l].t - seen'[k].t <= RuleGap
  BY <1>1 DEF Steady
<1>3. ASSUME NEW k \in 1..n, NEW l \in 1..n, k < l, seen[k].id = id, seen[l].id = id,
             \A q \in (k + 1)..(l - 1) : seen[q].id # id
      PROVE  seen[l].t - seen[k].t <= RuleGap
  <2>1. \A q \in (k + 1)..(l - 1) : q \in 1..n
    BY <1>1
  <2>2. QED
    BY <1>1, <1>2, <1>3, <2>1
<1>4. ASSUME NEW m \in 1..n, f.id = id, LastSeen(id, m)
      PROVE  f.t - seen[m].t <= RuleGap
  <2>1. m < n + 1 /\ \A q \in (m + 1)..((n + 1) - 1) : q \in (m + 1)..n /\ q \in 1..n
    BY <1>1
  <2>2. seen[m].id = id /\ \A q \in (m + 1)..n : seen[q].id # id
    BY <1>4 DEF LastSeen
  <2>3. QED
    BY <1>1, <1>2, <1>4, <2>1, <2>2
<1>5. QED
  BY <1>3, <1>4 DEF Steady

(* A track that is not lost is counted with every frame.                   *)
LEMMA SampleCounts ==
  ASSUME ToldTruly, Watched, Followed, Counted, NEW f \in Frame, NEW n, n = Len(seen),
         seen' = Append(seen, f), scene' = scene, \A k \in 1..n : seen[k].t <= f.t,
         f.id # 0, NEW id, id = f.id, Steady(id)',
         NEW ts, ts = T!Moved(id, f, f.t)
  PROVE  Counts(id, ts)'
<1>1. PICK ts0 : ts0 = T!TrackOf(id)
  OBVIOUS
<1>2. Steady(id) /\ \A m \in 1..n : LastSeen(id, m) => f.t - seen[m].t <= RuleGap
  BY SteadyBefore
<1>3. n \in Nat /\ \A k \in 1..n : seen[k].t \in Int
  BY SeenAre
<1>4. /\ ts0 \in TrackState /\ Counts(id, ts0) /\ ~T!Gap(ts0, f.t)
      /\ scene.rule = "zone" /\ ts0.inside = "in" => ts0.entry <= f.t
  <2>1. CASE id \in DOMAIN tracks
    <3>1. ts0 = tracks[id]
      BY <1>1, <2>1 DEF T!TrackOf
    <3>2. TrackIs(id, ts0) /\ Counts(id, ts0)
      BY <1>2, <2>1, <3>1 DEF Followed, Counted
    <3>3. PICK m \in 1..n : /\ LastSeen(id, m) /\ ts0.time = seen[m].t
                            /\ IF scene.rule = "zone" THEN Entered(ts0, m) ELSE Approached(ts0, m)
      BY <3>2 DEF TrackIs
    <3>4. ~T!Gap(ts0, f.t)
      <4>1. f.t - ts0.time <= RuleGap /\ f.t \in Int /\ ts0.time \in Int /\ RuleGap \in Int
        BY <1>2, <1>3, <3>3, ScenesAssumption DEF Frame
      <4>2. QED
        BY <4>1 DEF T!Gap
    <3>5. ASSUME scene.rule = "zone", ts0.inside = "in" PROVE ts0.entry <= f.t
      <4>1. PICK q \in 1..m : seen[q].t = ts0.entry
        BY <3>3, <3>5 DEF Entered
      <4>2. q \in 1..n
        BY <1>3
      <4>3. QED
        BY <4>1, <4>2
    <3>6. QED
      BY <3>2, <3>4, <3>5 DEF TrackIs
  <2>2. CASE id \notin DOMAIN tracks
    <3>1. ts0 = T!Fresh
      BY <1>1, <2>2 DEF T!TrackOf
    <3>2. \A k \in 1..n : seen[k].id # id
      BY <2>2 DEF Counted
    <3>3. LineCounted(id, ts0) /\ ZoneCounted(id, ts0)
      BY <3>2 DEF LineCounted, ZoneCounted
    <3>4. ~T!Gap(ts0, f.t) /\ ts0.inside # "in" /\ ts0 \in TrackState
      BY <3>1, FreshIs DEF T!Gap, T!NoTime
    <3>5. QED
      BY <3>3, <3>4 DEF Counts
  <2>3. QED
    BY <2>1, <2>2
<1>5. CASE scene.rule = "zone"
  <2>1. ts = T!ZoneStep(ts0, f, f.t)
    BY <1>1, <1>5 DEF T!Moved
  <2>2. ZoneCounted(id, ts0) /\ (ts0.inside = "in" => ts0.entry <= f.t)
    BY <1>4, <1>5 DEF Counts
  <2>3. ZoneCounted(id, ts)'
    BY <1>4, <2>1, <2>2, ZoneCounts
  <2>4. QED
    BY <1>5, <2>3 DEF Counts
<1>6. CASE scene.rule # "zone"
  <2>1. ts = T!LineStep(ts0, f, f.t)
    BY <1>1, <1>6 DEF T!Moved
  <2>2. LineCounted(id, ts0)
    BY <1>4, <1>6 DEF Counts
  <2>3. LineCounted(id, ts)'
    BY <1>4, <2>1, <2>2, LineCounts
  <2>4. QED
    BY <1>6, <2>3 DEF Counts
<1>7. QED
  BY <1>5, <1>6

(* Every step keeps the count.                                             *)
LEMMA CountedStep ==
  ToldTruly /\ Watched /\ Named /\ Followed /\ Counted /\ [T!Next]_(T!vars) => Counted'
<1> SUFFICES ASSUME ToldTruly, Watched, Named, Followed, Counted, [T!Next]_(T!vars)
             PROVE  Counted'
  OBVIOUS
<1>1. CASE scene' = scene /\ seen' = seen /\ tracks' = tracks
  <2>1. \A k : T!SideAt(k)' = T!SideAt(k) /\ (T!InsideAt(k)' <=> T!InsideAt(k))
    BY <1>1 DEF T!SideAt, T!InsideAt
  <2>2. \A id, i, j : /\ InBand(id, i, j)' <=> InBand(id, i, j)
                      /\ InZone(id, i, j)' <=> InZone(id, i, j)
    BY <1>1, <2>1 DEF InBand, InZone
  <2>3. \A id, ts : LineCounted(id, ts)' <=> LineCounted(id, ts)
    BY <1>1, <2>1, <2>2 DEF LineCounted
  <2>4. \A id, ts : ZoneCounted(id, ts)' <=> ZoneCounted(id, ts)
    BY <1>1, <2>1, <2>2 DEF ZoneCounted
  <2>5. \A id, ts : Counts(id, ts)' <=> Counts(id, ts)
    BY <1>1, <2>3, <2>4 DEF Counts
  <2>6. \A id : Steady(id)' <=> Steady(id)
    BY <1>1 DEF Steady
  <2>7. \A id \in DOMAIN tracks' : Steady(id)' => \A ts : ts = tracks'[id] => Counts(id, ts)'
    BY <1>1, <2>5, <2>6 DEF Counted
  <2>8. QED
    BY <1>1, <2>7 DEF Counted
<1>2. ASSUME scene' = scene, file' = file,
             NEW sight \in T!Sights, NEW lamps \in scene.lamps, NEW t, Takes(sight, lamps, t)
      PROVE  Counted'
  <2>1. PICK f : f = FrameOf(sight, t, lamps)
    OBVIOUS
  <2>2. PICK n : n = Len(seen)
    OBVIOUS
  <2>3. PICK i : i = NumberOf(sight, t)
    OBVIOUS
  <2>4. f \in Frame /\ t \in Nat /\ \A k \in 1..n : seen[k].t <= t
    BY <1>2, <2>1, <2>2, FrameTaken
  <2>5. /\ f.t = t /\ f.id = i /\ f.obj = sight.obj /\ f.place = sight.place
        /\ f.predicted = sight.predicted
    BY <2>1, <2>3 DEF FrameOf
  <2>6. seen' = Append(seen, f)
    BY <1>2, <2>1 DEF Takes
  <2>7. i # 0 <=> Kept(sight)
    BY <1>2, <2>2, <2>3, <2>4, SightType, NamesAre
  <2>8. /\ \A k \in 1..n : seen[k].id # 0 => seen[k].id \in DOMAIN tracks
        /\ \A id \in DOMAIN tracks : Steady(id) => Counts(id, tracks[id])
    BY <2>2 DEF Counted
  <2>9. /\ n \in Nat /\ Len(seen') = n + 1 /\ seen'[n + 1] = f
        /\ \A k \in 1..n : seen'[k] = seen[k]
    BY <2>2, <2>4, <2>6, SeenGrows
  <2>10. \A k \in 1..(n + 1) : k \in 1..n \/ k = n + 1
    BY <2>9
  <2>11. \A id, ts : id # i /\ Steady(id)' /\ id \in DOMAIN tracks /\ ts = tracks[id]
                       => Counts(id, ts)'
    <3> SUFFICES ASSUME NEW id, NEW ts, id # i, Steady(id)', id \in DOMAIN tracks,
                        ts = tracks[id]
                 PROVE  Counts(id, ts)'
      OBVIOUS
    <3>1. Steady(id)
      BY <2>2, <2>4, <2>6, SteadyBefore
    <3>2. Counts(id, ts)
      BY <2>8, <3>1
    <3>3. QED
      BY <1>2, <2>2, <2>4, <2>5, <2>6, <3>2, OthersCount
  <2>12. CASE i = 0
    <3>1. tracks' = tracks
      BY <1>2, <2>7, <2>12 DEF Takes
    <3>2. \A id \in DOMAIN tracks : id # 0
      BY DEF Followed, TrackIs
    <3>3. \A k \in 1..(n + 1) : seen'[k].id # 0 => seen'[k].id \in DOMAIN tracks'
      BY <2>5, <2>8, <2>9, <2>10, <2>12, <3>1
    <3>4. \A id \in DOMAIN tracks' : Steady(id)' => \A ts : ts = tracks'[id] => Counts(id, ts)'
      BY <2>11, <2>12, <3>1, <3>2
    <3>5. QED
      BY <2>9, <3>3, <3>4 DEF Counted
  <2>13. CASE i # 0
    <3>1. PICK s : s = T!Moved(i, sight, t)
      OBVIOUS
    <3>2. /\ DOMAIN tracks' = DOMAIN tracks \cup {i}
          /\ \A id \in DOMAIN tracks' : tracks'[id] = IF id = i THEN s ELSE tracks[id]
      BY <1>2, <2>3, <2>7, <2>13, <3>1 DEF Takes, T!Observe
    <3>3. s = T!Moved(i, f, f.t)
      BY <2>5, <3>1 DEF T!Moved, T!ZoneStep, T!LineStep, T!ZoneInside
    <3>4. Steady(i)' => Counts(i, s)'
      BY <1>2, <2>2, <2>4, <2>5, <2>6, <2>13, <3>3, SampleCounts
    <3>5. \A k \in 1..(n + 1) : seen'[k].id # 0 => seen'[k].id \in DOMAIN tracks'
      BY <2>5, <2>8, <2>9, <2>10, <3>2
    <3>6. \A id \in DOMAIN tracks' : Steady(id)' => \A ts : ts = tracks'[id] => Counts(id, ts)'
      BY <2>11, <3>2, <3>4
    <3>7. QED
      BY <2>9, <3>5, <3>6 DEF Counted
  <2>14. QED
    BY <2>12, <2>13
<1>3. QED
  BY <1>1, <1>2, TrackedSteps DEF T!vars, Ends, Completes

(* Since when the lamp, seen again in a colour, has been suspected of it.  *)
Since(s, state, t) == IF s.candidate = state THEN s.candidateSince ELSE t

(* What one more look at a lamp keeps: red stands until another look ends  *)
(* it, and a suspicion of red until it is confirmed.                       *)
LampOutcome(r, s, state, t) ==
    /\ r.candidate # "none" =>
          r.confirmed = "none" /\ (r.candidateSince = t \/ r.candidateSince = s.candidateSince)
    /\ r.candidate # "none" /\ r.candidateSince # t => s.candidate # "none"
    /\ s.done \subseteq r.done
    /\ state = "red" /\ s.confirmed = "red" => r = s
    /\ state = "red" /\ s.confirmed # "red" =>
          IF t - Since(s, "red", t) >= Stability
          THEN r.confirmed = "red" /\ r.confirmedSince = t
          ELSE r.candidate = "red" /\ r.candidateSince = Since(s, "red", t)
    /\ state # "red" /\ s.confirmed = "red" /\ t > s.confirmedSince =>
          \E d \in r.done : d.state = "red" /\ d.from = s.confirmedSince /\ d.to = t

(* A look that ends a red that was filmed for some time leaves an interval *)
(* of it; one that shows red begins, keeps or confirms the suspicion.      *)
LEMMA LampStepIs ==
  ASSUME NEW s0 \in SignalState, s0.candidate # "none" => s0.confirmed = "none",
         NEW state \in Looks, NEW t \in Nat
  PROVE  LampOutcome(T!SignalStep(s0, state, t), s0, state, t)
<1> DEFINE r == T!SignalStep(s0, state, t)
           broken == s0.confirmed \notin {"none", state}
           s == IF broken THEN Undecided(T!Closed(s0, t), T!NoTime) ELSE s0
           c == IF s.candidate = state THEN s ELSE Suspected(s, state, t)
<1>0. /\ state \in {"unknown", "red", "amber", "green"}
      /\ state # "unknown" => state \in T!LampColours
  BY DEF Looks, T!LampColours
<1> USE <1>0
<1>1. r = IF state = "unknown" THEN Undecided(s, T!NoTime)
          ELSE IF s.confirmed = state THEN s
          ELSE IF t - c.candidateSince >= Stability THEN Confirmed(c, state, t, T!NoTime)
          ELSE c
  BY DEF T!SignalStep, Undecided, Suspected, Confirmed
<1>2. /\ s \in SignalState /\ s0.done \subseteq s.done
      /\ state # "red" /\ s0.confirmed = "red" /\ t > s0.confirmedSince =>
            \E d \in s.done : d.state = "red" /\ d.from = s0.confirmedSince /\ d.to = t
      /\ s.candidate # "none" => s = s0 /\ s.confirmed = "none"
      /\ s.confirmed = "none" \/ s.confirmed = state
      /\ ~broken => s = s0
      /\ broken => s.candidate = "none" /\ s.confirmed = "none"
      /\ broken => s0.candidate = "none"
  <2>1. CASE broken
    <3>1. s = Undecided(T!Closed(s0, t), T!NoTime)
      BY <2>1
    <3>2. /\ T!Closed(s0, t) \in SignalState /\ T!Closed(s0, t).confirmed = "none"
          /\ s0.done \subseteq T!Closed(s0, t).done
          /\ t > s0.confirmedSince =>
               \E d \in T!Closed(s0, t).done :
                  d.state = s0.confirmed /\ d.from = s0.confirmedSince /\ d.to = t
      BY ClosedIs
    <3>3. /\ s \in SignalState /\ s.confirmed = T!Closed(s0, t).confirmed
          /\ s.done = T!Closed(s0, t).done /\ s.candidate = "none"
      <4>1. ASSUME NEW u, u = Undecided(T!Closed(s0, t), T!NoTime)
            PROVE  /\ u \in SignalState /\ u.confirmed = T!Closed(s0, t).confirmed
                   /\ u.done = T!Closed(s0, t).done /\ u.candidate = "none"
        BY <3>2, <4>1, NoTimeIs, UndecidedIs
      <4>2. QED
        BY <3>1, <4>1
    <3>4. QED
      BY <2>1, <3>2, <3>3
  <2>2. CASE ~broken
    BY <2>2
  <2>3. QED
    BY <2>1, <2>2
<1> HIDE DEF s
<1>3. ASSUME state # "unknown"
      PROVE  /\ c \in SignalState /\ c.confirmed = s.confirmed /\ c.done = s.done
             /\ c.candidate = state /\ c.candidateSince = Since(s, state, t)
  BY <1>2, <1>3, SuspectedIs DEF Since
<1>4. s.candidate = s0.candidate => Since(s, state, t) = Since(s0, state, t)
  BY <1>2 DEF Since
<1>5. Since(s, state, t) \in {t, s0.candidateSince} /\ Since(s0, state, t) \in {t, s0.candidateSince}
      /\ (s.candidate # "none" \/ state = "unknown" \/ Since(s, state, t) = t)
  BY <1>2 DEF Since
<1> HIDE DEF r, c
<1>6. CASE state = "unknown"
  <2>1. r = Undecided(s, T!NoTime)
    BY <1>1, <1>6
  <2>2. r.candidate = "none" /\ r.done = s.done
    BY <1>2, <2>1, NoTimeIs, UndecidedIs
  <2>3. QED
    BY <1>2, <1>6, <2>2 DEF LampOutcome, r
<1>7. CASE state # "unknown" /\ s.confirmed = state
  <2>1. r = s /\ s = s0
    BY <1>1, <1>2, <1>7
  <2>2. r.candidate = "none"
    BY <1>2, <1>7, <2>1
  <2>3. QED
    BY <1>2, <1>7, <2>1, <2>2 DEF LampOutcome, r
<1>8. ASSUME state # "unknown", s.confirmed # state
      PROVE  /\ s.confirmed = "none" /\ s.candidate = s0.candidate
             /\ Since(s, state, t) = Since(s0, state, t)
             /\ Since(s0, state, t) = t \/ s0.candidate # "none"
             /\ state = "red" => s0.confirmed # "red"
  <2>1. s.confirmed = "none" /\ s.candidate = s0.candidate
    BY <1>2, <1>8
  <2>2. Since(s0, state, t) = t \/ s0.candidate # "none"
    BY <1>8 DEF Since
  <2>3. state = "red" => s0.confirmed # "red"
    BY <1>2, <1>8
  <2>4. QED
    BY <1>4, <2>1, <2>2, <2>3
<1>9. CASE state # "unknown" /\ s.confirmed # state /\ t - c.candidateSince >= Stability
  <2>1. r = Confirmed(c, state, t, T!NoTime)
    BY <1>1, <1>9
  <2>2. /\ r.confirmed = state /\ r.confirmedSince = t /\ r.candidate = "none"
        /\ r.done = s.done
    BY <1>3, <1>9, <2>1, NoTimeIs, ConfirmedIs
  <2>3. QED
    BY <1>2, <1>3, <1>8, <1>9, <2>2 DEF LampOutcome, r
<1>10. CASE state # "unknown" /\ s.confirmed # state /\ ~(t - c.candidateSince >= Stability)
  <2>1. r = c
    BY <1>1, <1>10
  <2>2. /\ r.confirmed = "none" /\ r.done = s.done /\ r.candidate = state
        /\ r.candidateSince = Since(s0, state, t)
    BY <1>3, <1>8, <1>10, <2>1
  <2>3. QED
    BY <1>2, <1>3, <1>5, <1>8, <1>10, <2>2 DEF LampOutcome, r
<1>11. QED
  BY <1>6, <1>7, <1>9, <1>10

(* A lamp that shows red is suspected of it since no later than the first  *)
(* of those frames, or confirmed; and a red that has lasted long enough is *)
(* confirmed until a later look, or in an interval that a later look ended.*)
RedCounted(r, s) ==
    /\ s.candidate # "none" =>
          s.confirmed = "none" /\ \E q \in 1..Len(seen) : s.candidateSince <= seen[q].t
    /\ \A first \in 1..Len(seen) : RedFrom(r, first, Len(seen)) =>
          \/ s.confirmed = "red"
          \/ s.candidate = "red" /\ s.candidateSince <= seen[first].t
    /\ \A k \in 1..Len(seen) : \A first \in 1..k :
          /\ RedFrom(r, first, k) /\ seen[k].t - seen[first].t >= Stability
          /\ k < Len(seen) => seen[k].t < seen[k + 1].t
          => \/ s.confirmed = "red" /\ s.confirmedSince <= seen[k].t
             \/ /\ k < Len(seen)
                /\ \E d \in s.done :
                      d.state = "red" /\ d.from <= seen[k].t /\ seen[k + 1].t <= d.to

RedsCounted == \A r \in Rois : RedCounted(r, signals[r])

(* One more look at a lamp counts every red that it shows.                 *)
LEMMA RedCounts ==
  ASSUME Watched, NEW f \in Frame, NEW n, n = Len(seen), seen' = Append(seen, f),
         \A k \in 1..n : seen[k].t <= f.t,
         NEW r \in Rois, NEW s0, s0 \in SignalState, SignalIs(r, s0), RedCounted(r, s0),
         NEW state, state = T!Classified(f.lamps[r]),
         NEW s, s = T!SignalStep(s0, state, f.t)
  PROVE  RedCounted(r, s)'
<1>1. /\ n \in Nat /\ Len(seen') = n + 1 /\ seen'[n + 1] = f /\ n + 1 \in 1..(n + 1)
      /\ \A k \in 1..n : seen'[k] = seen[k] /\ k \in 1..(n + 1) /\ seen[k].t \in Int
      /\ f.t \in Nat /\ f.t \in Int /\ Stability \in Int
  BY SeenGrows, SeenAre, ScenesAssumption DEF Frame
<1>2. /\ s0.candidate # "none" =>
            s0.confirmed = "none" /\ \E q \in 1..n : s0.candidateSince <= seen[q].t
      /\ \A first \in 1..n : RedFrom(r, first, n) =>
            \/ s0.confirmed = "red"
            \/ s0.candidate = "red" /\ s0.candidateSince <= seen[first].t
      /\ \A k \in 1..n : \A first \in 1..k :
            /\ RedFrom(r, first, k) /\ seen[k].t - seen[first].t >= Stability
            /\ k < n => seen[k].t < seen[k + 1].t
            => \/ s0.confirmed = "red" /\ s0.confirmedSince <= seen[k].t
               \/ /\ k < n
                  /\ \E d \in s0.done :
                        d.state = "red" /\ d.from <= seen[k].t /\ seen[k + 1].t <= d.to
  BY DEF RedCounted
<1>3. /\ state \in Looks /\ state \in {"unknown", "red", "amber", "green"}
      /\ s0.candidateSince \in Int /\ s0.confirmedSince \in Int
      /\ \A d \in s0.done : d.from \in Int /\ d.to \in Int
  BY ClassifiedIs DEF Looks, T!LampColours, SignalState, Interval
<1>4. LampOutcome(s, s0, state, f.t)
  BY <1>1, <1>2, <1>3, LampStepIs
<1>5. /\ s.candidate # "none" =>
            s.confirmed = "none" /\ (s.candidateSince = f.t \/ s.candidateSince = s0.candidateSince)
      /\ s.candidate # "none" /\ s.candidateSince # f.t => s0.candidate # "none"
      /\ s0.done \subseteq s.done
      /\ state = "red" /\ s0.confirmed = "red" => s = s0
      /\ state = "red" /\ s0.confirmed # "red" =>
            IF f.t - Since(s0, "red", f.t) >= Stability
            THEN s.confirmed = "red" /\ s.confirmedSince = f.t
            ELSE s.candidate = "red" /\ s.candidateSince = Since(s0, "red", f.t)
      /\ state # "red" /\ s0.confirmed = "red" /\ f.t > s0.confirmedSince =>
            \E d \in s.done : d.state = "red" /\ d.from = s0.confirmedSince /\ d.to = f.t
  BY <1>4 DEF LampOutcome
<1>6. \A first, last : RedFrom(r, first, last)' <=>
          \A k \in first..last : T!Classified(seen'[k].lamps[r]) = "red"
  BY DEF RedFrom, T!Classified, T!Leads, T!LampColours
<1>7. ASSUME NEW first \in 1..n, NEW last \in 0..n
      PROVE  RedFrom(r, first, last)' <=> RedFrom(r, first, last)
  <2>1. \A k \in first..last : k \in 1..n
    BY <1>1
  <2>2. QED
    BY <1>1, <1>6, <2>1 DEF RedFrom
<1>8. ASSUME NEW first \in 1..(n + 1), RedFrom(r, first, n + 1)'
      PROVE  state = "red" /\ (first \in 1..n => RedFrom(r, first, n))
  <2>1. n + 1 \in first..(n + 1) /\ \A k \in first..n : k \in first..(n + 1)
    BY <1>1
  <2>2. T!Classified(seen'[n + 1].lamps[r]) = "red"
    BY <1>6, <1>8, <2>1
  <2>3. state = "red"
    BY <1>1, <2>2
  <2>4. first \in 1..n => RedFrom(r, first, n)'
    BY <1>6, <1>8, <2>1
  <2>5. n \in 0..n
    BY <1>1
  <2>6. QED
    BY <1>7, <2>3, <2>4, <2>5
<1>9. /\ s0.confirmed = "red" => s0.confirmedSince <= f.t
      /\ s0.candidate # "none" => s0.candidateSince <= f.t
  <2>1. s0.confirmed = "red" => \E q \in 1..n : seen[q].t = s0.confirmedSince
    BY DEF SignalIs
  <2>2. QED
    BY <1>1, <1>2, <1>3, <2>1
<1>10. ASSUME s.candidate # "none"
       PROVE  s.confirmed = "none" /\ \E q \in 1..(n + 1) : s.candidateSince <= seen'[q].t
  <2>1. s.candidateSince <= f.t
    BY <1>1, <1>3, <1>5, <1>9, <1>10
  <2>2. QED
    BY <1>1, <1>5, <1>10, <2>1
(* Red since a frame: suspected since then at the latest, or confirmed.    *)
<1>11. ASSUME NEW first \in 1..(n + 1), RedFrom(r, first, n + 1)', s0.confirmed # "red"
       PROVE  /\ state = "red"
              /\ Since(s0, "red", f.t) \in Int /\ Since(s0, "red", f.t) <= seen'[first].t
  <2>1. state = "red" /\ (first \in 1..n => RedFrom(r, first, n))
    BY <1>8, <1>11
  <2>2. CASE first = n + 1
    BY <1>1, <1>3, <1>9, <2>1, <2>2 DEF Since
  <2>3. CASE first \in 1..n
    BY <1>1, <1>2, <1>3, <1>11, <2>1, <2>3 DEF Since
  <2>4. first \in 1..n \/ first = n + 1
    BY <1>1
  <2>5. QED
    BY <2>2, <2>3, <2>4
<1>12. ASSUME NEW first \in 1..(n + 1), RedFrom(r, first, n + 1)'
       PROVE  \/ s.confirmed = "red"
              \/ s.candidate = "red" /\ s.candidateSince <= seen'[first].t
  <2>1. CASE s0.confirmed = "red"
    BY <1>5, <1>8, <1>12, <2>1
  <2>2. CASE s0.confirmed # "red"
    BY <1>5, <1>11, <1>12, <2>2
  <2>3. QED
    BY <2>1, <2>2
<1>13. ASSUME NEW k \in 1..(n + 1), NEW first \in 1..k, RedFrom(r, first, k)',
              seen'[k].t - seen'[first].t >= Stability,
              k < n + 1 => seen'[k].t < seen'[k + 1].t
       PROVE  \/ s.confirmed = "red" /\ s.confirmedSince <= seen'[k].t
              \/ /\ k < n + 1
                 /\ \E d \in s.done :
                       d.state = "red" /\ d.from <= seen'[k].t /\ seen'[k + 1].t <= d.to
  <2>1. CASE k = n + 1
    <3>1. first \in 1..(n + 1) /\ RedFrom(r, first, n + 1)' /\ seen'[k].t = f.t
          /\ seen'[first].t \in Int
      BY <1>1, <1>13, <2>1
    <3>2. CASE s0.confirmed = "red"
      BY <1>5, <1>8, <1>9, <3>1, <3>2
    <3>3. CASE s0.confirmed # "red"
      <4>1. f.t - Since(s0, "red", f.t) >= Stability
        BY <1>1, <1>11, <1>13, <3>1, <3>3
      <4>2. s.confirmed = "red" /\ s.confirmedSince = f.t
        BY <1>5, <1>11, <3>1, <3>3, <4>1
      <4>3. QED
        BY <1>1, <3>1, <4>2
    <3>4. QED
      BY <3>2, <3>3
  <2>2. CASE k \in 1..n
    <3>1. /\ first \in 1..n /\ k \in 0..n /\ k < n + 1 /\ k + 1 \in 1..(n + 1)
          /\ seen'[k] = seen[k] /\ seen'[first] = seen[first]
      BY <1>1, <2>2
    <3>2. RedFrom(r, first, k)
      BY <1>7, <1>13, <3>1
    <3>3. k < n => seen[k].t < seen[k + 1].t /\ seen'[k + 1] = seen[k + 1] /\ seen[k + 1].t \in Int
      <4>1. k < n => k + 1 \in 1..n
        BY <1>1, <2>2
      <4>2. QED
        BY <1>1, <1>13, <3>1, <4>1
    <3>4. \/ s0.confirmed = "red" /\ s0.confirmedSince <= seen[k].t
          \/ /\ k < n
             /\ \E d \in s0.done :
                   d.state = "red" /\ d.from <= seen[k].t /\ seen[k + 1].t <= d.to
      BY <1>2, <1>13, <2>2, <3>1, <3>2, <3>3
    <3>5. CASE s0.confirmed = "red" /\ s0.confirmedSince <= seen[k].t
      <4>1. CASE state = "red"
        BY <1>5, <3>1, <3>5, <4>1
      <4>2. CASE state # "red"
        <5>1. seen'[k + 1].t \in Int /\ seen'[k + 1].t <= f.t /\ seen[k].t \in Int
          <6>1. k + 1 \in 1..n \/ k + 1 = n + 1
            BY <1>1, <3>1
          <6>2. QED
            BY <1>1, <2>2, <6>1
        <5>2. seen[k].t < seen'[k + 1].t
          BY <1>13, <3>1
        <5>3. f.t > s0.confirmedSince
          <6>1. \A a, b, c, d \in Int : a <= b /\ b < c /\ c <= d => d > a
            OBVIOUS
          <6>2. f.t \in Int /\ s0.confirmedSince \in Int
            BY <1>1, <1>3
          <6>3. QED
            BY <3>5, <5>1, <5>2, <6>1, <6>2
        <5>4. PICK d \in s.done :
                  d.state = "red" /\ d.from = s0.confirmedSince /\ d.to = f.t
          BY <1>5, <3>5, <4>2, <5>3
        <5>5. d.from <= seen'[k].t /\ seen'[k + 1].t <= d.to
          BY <3>1, <3>5, <5>1, <5>4
        <5>6. QED
          BY <3>1, <5>4, <5>5
      <4>3. QED
        BY <4>1, <4>2
    <3>6. CASE /\ k < n
               /\ \E d \in s0.done :
                     d.state = "red" /\ d.from <= seen[k].t /\ seen[k + 1].t <= d.to
      BY <1>5, <3>1, <3>3, <3>6
    <3>7. QED
      BY <3>4, <3>5, <3>6
  <2>3. k \in 1..n \/ k = n + 1
    BY <1>1
  <2>4. QED
    BY <2>1, <2>2, <2>3
<1>14. QED
  BY <1>1, <1>10, <1>12, <1>13 DEF RedCounted

(* Every step keeps the count of the reds.                                 *)
LEMMA RedsCountedStep ==
  Watched /\ Named /\ Lit /\ RedsCounted /\ [T!Next]_(T!vars) => RedsCounted'
<1> SUFFICES ASSUME Watched, Named, Lit, RedsCounted, [T!Next]_(T!vars) PROVE RedsCounted'
  OBVIOUS
<1>1. CASE seen' = seen /\ signals' = signals
  <2>1. \A r, first, last : RedFrom(r, first, last)' <=> RedFrom(r, first, last)
    BY <1>1 DEF RedFrom, T!Classified, T!Leads, T!LampColours
  <2>2. \A r, s : RedCounted(r, s) => RedCounted(r, s)'
    BY <1>1, <2>1 DEF RedCounted
  <2>3. \A r \in Rois : \A s : s = signals'[r] => RedCounted(r, s)'
    BY <1>1, <2>2 DEF RedsCounted
  <2>4. QED
    BY <2>3 DEF RedsCounted
<1>2. ASSUME NEW sight \in T!Sights, NEW lamps \in scene.lamps, NEW t, Takes(sight, lamps, t)
      PROVE  RedsCounted'
  <2>1. PICK f : f = FrameOf(sight, t, lamps)
    OBVIOUS
  <2>2. PICK n : n = Len(seen)
    OBVIOUS
  <2>3. /\ f \in Frame /\ t \in Nat /\ f.t = t /\ f.lamps = lamps
        /\ \A k \in 1..n : seen[k].t <= f.t
    BY <1>2, <2>1, <2>2, FrameTaken DEF FrameOf
  <2>4. seen' = Append(seen, f)
    BY <1>2, <2>1 DEF Takes
  <2>5. ASSUME NEW r \in Rois, NEW s, s = signals'[r]
        PROVE  RedCounted(r, s)'
    <3>1. PICK s0 : s0 = signals[r]
      OBVIOUS
    <3>2. PICK state : state = T!Classified(f.lamps[r])
      OBVIOUS
    <3>3. s0 \in SignalState /\ SignalIs(r, s0) /\ RedCounted(r, s0)
      BY <3>1 DEF Lit, RedsCounted
    <3>4. s = T!SignalStep(s0, state, f.t)
      BY <1>2, <2>3, <2>5, <3>1, <3>2 DEF Takes
    <3>5. QED
      BY <2>2, <2>3, <2>4, <3>2, <3>3, <3>4, RedCounts
  <2>6. QED
    BY <2>5 DEF RedsCounted
<1>3. QED
  BY <1>1, <1>2, TrackedSteps DEF T!vars, Ends, Completes

(* What the tracks and the lamps have collected leaves nothing out.        *)
CountedInv == engine = "tracked" => Counted /\ RedsCounted

(* The count is right in every state (engine of tracked rules).            *)
LEMMA CountedInvCorrect == ToldTruly => (Spec => []CountedInv)
<1>0. ToldTruly => ToldTruly'
  OBVIOUS
<1>1. Init => CountedInv
  <2> SUFFICES ASSUME T!Init PROVE Counted /\ RedsCounted
    BY DEF Init, CountedInv
  <2>1. Len(seen) = 0 /\ DOMAIN tracks = {} /\ signals = [r \in Rois |-> T!NewSignal]
    BY DEF T!Init
  <2>2. Counted
    BY <2>1 DEF Counted
  <2>3. \A r \in Rois : RedCounted(r, signals[r])
    BY <2>1 DEF RedCounted, T!NewSignal
  <2>4. QED
    BY <2>2, <2>3 DEF RedsCounted
<1>2. ToldTruly /\ TrackedInv /\ CountedInv /\ [Next]_vars => CountedInv'
  BY TrackedStepOnly, CountedStep, RedsCountedStep DEF TrackedInv, CountedInv
<1>3. QED
  BY <1>0, <1>1, <1>2, TrackedInvCorrect, PTL DEF Spec

(* A track whose frames all show one object, never lost between two of     *)
(* them, is steady.                                                        *)
LEMMA SteadyIfWhole ==
  ASSUME Watched, Named, NEW id, NEW obj,
         \A k, l \in 1..Len(seen) :
            k <= l /\ seen[k].id = id /\ seen[l].id = id => T!Unbroken(k, l, obj)
  PROVE  Steady(id)
<1> SUFFICES ASSUME NEW k \in 1..Len(seen), NEW l \in 1..Len(seen),
                    k < l, seen[k].id = id, seen[l].id = id,
                    \A q \in (k + 1)..(l - 1) : seen[q].id # id
             PROVE  seen[l].t - seen[k].t <= RuleGap
  BY DEF Steady
<1>1. Len(seen) \in Nat /\ k <= l
  BY SeenAre
<1>2. T!Unbroken(k, l, obj)
  BY <1>1
<1>3. k \in k..(l - 1) /\ T!Shows(k, obj)
  BY <1>1, <1>2 DEF T!Unbroken
<1>4. PICK q \in (k + 1)..l : T!Shows(q, obj) /\ seen[q].t - seen[k].t <= RuleGap
  BY <1>2, <1>3 DEF T!Unbroken
<1>5. q \in k..l
  BY <1>1, <1>4
<1>6. seen[q].id = id
  BY <1>2, <1>4, <1>5, NumberKept
<1>7. q = l
  BY <1>1, <1>4, <1>6
<1>8. QED
  BY <1>4, <1>7

(* What happens to a steady track is among its episodes: a crossing, ...   *)
LEMMA CrossingFound ==
  ASSUME Watched, Named, Counted, scene.rule # "zone", NEW i \in 1..Len(seen),
         NEW j \in 1..Len(seen), NEW obj, T!Crosses(i, j, obj), NEW id, id = seen[j].id, Steady(id)
  PROVE  /\ id \in DOMAIN tracks
         /\ \E ep \in tracks[id].episodes : ep.from = seen[i].t /\ ep.to = seen[j].t
<1>1. /\ i < j /\ T!Unbroken(i, j, obj) /\ T!SideAt(i) = FromSide /\ T!SideAt(j) = ToSide
      /\ \A k \in (i + 1)..(j - 1) : T!Shows(k, obj) => T!SideAt(k) = 0
  BY DEF T!Crosses
<1>2. /\ Len(seen) \in Nat /\ i \in i..j /\ j \in i..j
      /\ \A k \in (i + 1)..(j - 1) : k \in i..j
  BY <1>1, SeenAre
<1>3. T!Shows(j, obj) /\ seen[j].id # 0
  BY <1>1 DEF T!Unbroken, T!Shows
<1>4. seen[i].id = id
  BY <1>1, <1>2, <1>3, NumberKept
<1>5. InBand(id, i + 1, j - 1)
  BY <1>1, <1>2, <1>4, NumberKept DEF InBand
<1>6. id \in DOMAIN tracks
  BY <1>3 DEF Counted
<1>7. LineCounted(id, tracks[id])
  BY <1>6 DEF Counted, Counts
<1>8. QED
  BY <1>1, <1>4, <1>5, <1>6, <1>7 DEF LineCounted

(* ... and a visit.                                                        *)
LEMMA VisitFound ==
  ASSUME Watched, Named, Counted, scene.rule = "zone", NEW i \in 1..Len(seen),
         NEW j \in 1..Len(seen), NEW obj, T!Visits(i, j, obj), NEW id, id = seen[j].id, Steady(id)
  PROVE  /\ id \in DOMAIN tracks
         /\ \E ep \in tracks[id].episodes : ep.from <= seen[i].t /\ ep.to = seen[j].t
<1>1. /\ i < j /\ T!Unbroken(i, j, obj) /\ ~T!InsideAt(j)
      /\ \A k \in i..(j - 1) : T!Shows(k, obj) => T!InsideAt(k)
  BY DEF T!Visits
<1>2. /\ Len(seen) \in Nat /\ i \in i..j /\ j \in i..j
      /\ \A k \in i..(j - 1) : k \in i..j
  BY <1>1, SeenAre
<1>3. T!Shows(j, obj) /\ seen[j].id # 0
  BY <1>1 DEF T!Unbroken, T!Shows
<1>4. seen[i].id = id
  BY <1>1, <1>2, <1>3, NumberKept
<1>5. InZone(id, i, j - 1)
  BY <1>1, <1>2, <1>4, NumberKept DEF InZone
<1>6. id \in DOMAIN tracks
  BY <1>3 DEF Counted
<1>7. ZoneCounted(id, tracks[id])
  BY <1>6 DEF Counted, Counts
<1>8. QED
  BY <1>1, <1>4, <1>5, <1>6, <1>7 DEF ZoneCounted

(* A completed run has an event of every episode that no rule rejects.     *)
LEMMA EventOf ==
  ASSUME Flushed, pc = "completed", NEW id \in DOMAIN tracks,
         NEW ep \in T!FinalEpisodes(tracks[id], file.duration),
         T!Disposition(ep, T!FinalRed(file.duration)) \in {"supported", "inconclusive"}
  PROVE  \E e \in events : e.id = id /\ e.from = ep.from /\ e.to = ep.to
<1> DEFINE e == [id |-> id, from |-> ep.from, to |-> ep.to,
                 disp |-> T!Disposition(ep, T!FinalRed(file.duration))]
<1>1. e \in T!Candidates(file.duration)
  BY DEF T!Candidates
<1>2. e.disp \in {"supported", "inconclusive"} /\ e.id = id /\ e.from = ep.from /\ e.to = ep.to
  OBVIOUS
<1> HIDE DEF e
<1>3. e \in events
  BY <1>1, <1>2 DEF Flushed
<1>4. QED
  BY <1>2, <1>3

(* A red that lasted long enough between two frames overlaps what happened *)
(* from the one to the other.                                              *)
LEMMA RedOverlaps ==
  ASSUME ToldTruly, Watched, Lit, RedsCounted, NEW i \in 1..Len(seen), NEW j \in 1..Len(seen),
         T!UnderRed(i, j), NEW ep, ep.from = seen[i].t, ep.to = seen[j].t
  PROVE  T!OverlapsRed(T!FinalRed(file.duration), ep)
<1>1. /\ Len(seen) \in Nat /\ file.duration \in Int
      /\ \A k \in 1..Len(seen) : seen[k] \in Frame /\ seen[k].t \in Int
      /\ \A k, l \in 1..Len(seen) : k <= l => seen[k].t <= seen[l].t
  BY SeenAre
<1>2. PICK r \in Rois, k \in i..(j - 1) :
          /\ seen[k].t < seen[k + 1].t /\ seen[k].t < file.duration
          /\ \E first \in 1..k :
                /\ seen[k].t - seen[first].t >= Stability
                /\ \A l \in first..k : Lamps[seen[l].lamps[r]].shows = "red"
  BY DEF T!UnderRed
<1>3. PICK first \in 1..k :
          /\ seen[k].t - seen[first].t >= Stability
          /\ \A l \in first..k : Lamps[seen[l].lamps[r]].shows = "red"
  BY <1>2
<1>4. /\ k \in 1..Len(seen) /\ k + 1 \in 1..Len(seen) /\ i <= k /\ k + 1 <= j
      /\ \A l \in first..k : l \in 1..Len(seen)
  BY <1>1
<1>5. RedFrom(r, first, k)
  <2>1. ASSUME NEW l \in first..k PROVE T!Classified(seen[l].lamps[r]) = "red"
    <3>1. seen[l].lamps \in [Rois -> DOMAIN Lamps]
      BY <1>1, <1>4 DEF Frame
    <3>2. seen[l].lamps[r] \in DOMAIN Lamps
      BY <3>1
    <3>3. QED
      BY <1>3, <3>2 DEF ToldTruly
  <2>2. QED
    BY <2>1 DEF RedFrom
<1>6. PICK s : s = signals[r]
  OBVIOUS
<1>7. s \in SignalState /\ RedCounted(r, s)
  BY <1>6 DEF Lit, RedsCounted
<1>8. /\ seen[i].t \in Int /\ seen[j].t \in Int /\ seen[k].t \in Int /\ seen[k + 1].t \in Int
      /\ seen[i].t <= seen[k].t /\ seen[k + 1].t <= seen[j].t
  BY <1>1, <1>4
<1>9. \/ s.confirmed = "red" /\ s.confirmedSince <= seen[k].t
      \/ \E d \in s.done : d.state = "red" /\ d.from <= seen[k].t /\ seen[k + 1].t <= d.to
  BY <1>2, <1>3, <1>4, <1>5, <1>7 DEF RedCounted
<1>10. ASSUME NEW d, d \in T!SignalEnd(s, file.duration), d.state = "red",
              ep.from < d.to, ep.to > d.from
       PROVE  T!OverlapsRed(T!FinalRed(file.duration), ep)
  <2>1. d \in T!FinalRed(file.duration)
    BY <1>6, <1>10 DEF T!FinalRed
  <2>2. QED
    BY <1>10, <2>1 DEF T!OverlapsRed
<1>11. s.done \subseteq T!SignalEnd(s, file.duration)
  BY <1>1, <1>7, ClosedIs DEF T!SignalEnd
<1>12. CASE s.confirmed = "red" /\ s.confirmedSince <= seen[k].t
  <2>1. s.confirmedSince \in Int
    BY <1>7 DEF SignalState
  <2>2. file.duration > s.confirmedSince
    BY <1>1, <1>2, <1>8, <1>12, <2>1
  <2>3. PICK d \in T!Closed(s, file.duration).done :
            d.state = s.confirmed /\ d.from = s.confirmedSince /\ d.to = file.duration
    BY <1>1, <1>7, <2>2, ClosedIs
  <2>4. d \in T!SignalEnd(s, file.duration)
    BY <1>12 DEF T!SignalEnd
  <2>5. ep.from < d.to /\ ep.to > d.from
    <3>1. seen[i].t < file.duration
      BY <1>1, <1>2, <1>8
    <3>2. seen[j].t > s.confirmedSince
      <4>1. \A u, v, w, x \in Int : u <= v /\ v < w /\ w <= x => x > u
        OBVIOUS
      <4>2. QED
        BY <1>2, <1>8, <1>12, <2>1, <4>1
    <3>3. QED
      BY <2>3, <3>1, <3>2
  <2>6. QED
    BY <1>10, <1>12, <2>3, <2>4, <2>5
<1>13. CASE \E d \in s.done : d.state = "red" /\ d.from <= seen[k].t /\ seen[k + 1].t <= d.to
  <2>1. PICK d \in s.done : d.state = "red" /\ d.from <= seen[k].t /\ seen[k + 1].t <= d.to
    BY <1>13
  <2>2. d.from \in Int /\ d.to \in Int
    BY <1>7 DEF SignalState, Interval
  <2>3. ep.from < d.to /\ ep.to > d.from
    <3>1. seen[i].t < d.to
      BY <1>2, <1>8, <2>1, <2>2
    <3>2. seen[j].t > d.from
      BY <1>2, <1>8, <2>1, <2>2
    <3>3. QED
      BY <3>1, <3>2
  <2>4. QED
    BY <1>10, <1>11, <2>1, <2>3
<1>14. QED
  BY <1>9, <1>12, <1>13

(* A visit is part of one that is reported, however it was merged.         *)
LEMMA VisitReported ==
  ASSUME Watched, Followed, Flushed, pc = "completed", scene.rule = "zone",
         NEW id \in DOMAIN tracks, NEW ep \in tracks[id].episodes
  PROVE  \E fin \in T!FinalEpisodes(tracks[id], file.duration) :
            /\ fin.from \in Int /\ ep.from \in Int /\ ~fin.predicted
            /\ fin.from <= ep.from /\ ep.to <= fin.to
<1>1. PICK rs : rs = T!Persistences(tracks[id], file.duration)
  OBVIOUS
<1>2. PICK hi \in Int : Between(rs, 0, hi)
  BY <1>1, PersistencesBetween
<1>3. PICK q : q = [from |-> ep.from, to |-> ep.to]
  OBVIOUS
<1>4. q \in rs
  BY <1>1, <1>3 DEF T!Persistences
<1>5. MergeGap \in Nat
  BY ScenesAssumption
<1>6. PICK h \in rs : R!Begins(h, rs, MergeGap) /\ q \in R!Joined(h, rs, MergeGap)
  BY <1>2, <1>4, <1>5, JoinedToOne
<1>7. PICK m : m = MergeOf(h, rs, MergeGap)
  OBVIOUS
<1>8. m \in T!MergeRanges(rs, MergeGap)
  BY <1>6, <1>7, MergedIs, MergedAlike
<1>9. m.from = h.from /\ q.to <= m.to
  BY <1>2, <1>5, <1>6, <1>7, MergedOne
<1>10. h.from <= q.from
  BY <1>6 DEF R!Joined
<1>11. PICK fin : fin = T!Episode(m.from, m.to, FALSE)
  OBVIOUS
<1>12. fin \in T!FinalEpisodes(tracks[id], file.duration)
  BY <1>1, <1>8, <1>11 DEF T!FinalEpisodes
<1>13. fin.from = m.from /\ fin.to = m.to /\ fin.predicted = FALSE
  BY <1>11 DEF T!Episode
<1>14. fin.from <= ep.from /\ ep.to <= fin.to
  BY <1>3, <1>9, <1>10, <1>13
<1>15. h \in Span /\ q \in Span
  BY <1>2, <1>4, <1>6 DEF Between
<1>16. fin.from \in Int /\ ep.from \in Int
  BY <1>3, <1>9, <1>13, <1>15 DEF Span
<1>17. QED
  BY <1>12, <1>13, <1>14, <1>16

(* While a track is never lost, whatever its object does is reported:      *)
(* every crossing of a line, every crossing of which some part was under a *)
(* confirmed red, every visit, merged or not (apply_observations, update   *)
(* and flush of ConfirmedSignalIntervals, merge_time_ranges,               *)
(* _red_phase_disposition).                                                *)
THEOREM UnbrokenTracksAreReported == ToldTruly => (Spec => []UnbrokenTracksAreCounted)
<1>0. ToldTruly => ToldTruly'
  OBVIOUS
<1>1. ToldTruly /\ TrackedInv /\ CountedInv => UnbrokenTracksAreCounted
  <2> SUFFICES ASSUME ToldTruly, Watched, Named, Followed, Lit, Flushed, Counted, RedsCounted,
                      pc = "completed", NEW i \in T!Frames, NEW j \in T!Frames, NEW obj,
                      T!Happens(i, j, obj),
                      \A k, l \in T!Frames :
                          k <= l /\ seen[k].id = seen[j].id /\ seen[l].id = seen[j].id
                              => T!Unbroken(k, l, obj)
               PROVE  T!Reported(i, j)
    BY DEF TrackedInv, CountedInv, UnbrokenTracksAreCounted, T!UnbrokenTracksAreCounted
  <2>1. T!Frames = 1..Len(seen)
    BY SeenAre DEF T!Frames
  <2>2. PICK id : id = seen[j].id
    OBVIOUS
  <2>3. Steady(id)
    BY <2>1, <2>2, SteadyIfWhole
  <2>4. scene.rule \in {"line", "red", "zone"}
    BY ScenesAssumption DEF Watched
  <2>5. CASE scene.rule = "zone"
    <3>1. T!Visits(i, j, obj)
      BY <2>5 DEF T!Happens
    <3>2. id \in DOMAIN tracks
      BY <2>1, <2>2, <2>3, <2>5, <3>1, VisitFound
    <3>3. PICK ep \in tracks[id].episodes : ep.from <= seen[i].t /\ ep.to = seen[j].t
      BY <2>1, <2>2, <2>3, <2>5, <3>1, VisitFound
    <3>4. PICK fin \in T!FinalEpisodes(tracks[id], file.duration) :
              /\ fin.from \in Int /\ ep.from \in Int /\ ~fin.predicted
            /\ fin.from <= ep.from /\ ep.to <= fin.to
      BY <2>5, <3>2, VisitReported
    <3>5. T!Disposition(fin, T!FinalRed(file.duration)) = "supported"
      BY <2>5, <3>4 DEF T!Disposition
    <3>6. PICK e \in events : e.id = id /\ e.from = fin.from /\ e.to = fin.to
      BY <3>2, <3>5, EventOf
    <3>7. e.from <= seen[i].t /\ seen[j].t <= e.to
      <4>1. seen[i].t \in Int
        BY <2>1, SeenAre
      <4>2. QED
        BY <3>3, <3>4, <3>6, <4>1
    <3>8. QED
      BY <2>2, <2>5, <3>3, <3>4, <3>6, <3>7 DEF T!Reported
  <2>6. CASE scene.rule \in {"line", "red"}
    <3>1. T!Crosses(i, j, obj) /\ (scene.rule = "red" => T!UnderRed(i, j))
      BY <2>6 DEF T!Happens
    <3>2. id \in DOMAIN tracks
      BY <2>1, <2>2, <2>3, <2>6, <3>1, CrossingFound
    <3>3. PICK ep \in tracks[id].episodes : ep.from = seen[i].t /\ ep.to = seen[j].t
      BY <2>1, <2>2, <2>3, <2>6, <3>1, CrossingFound
    <3>4. ep \in T!FinalEpisodes(tracks[id], file.duration)
      BY <2>6 DEF T!FinalEpisodes
    <3>5. scene.rule = "red" => T!OverlapsRed(T!FinalRed(file.duration), ep)
      BY <2>1, <3>1, <3>3, RedOverlaps
    <3>6. T!Disposition(ep, T!FinalRed(file.duration)) \in {"supported", "inconclusive"}
      BY <3>5 DEF T!Disposition, T!RedPhaseDisposition
    <3>7. PICK e \in events : e.id = id /\ e.from = ep.from /\ e.to = ep.to
      BY <3>2, <3>4, <3>6, EventOf
    <3>8. QED
      BY <2>2, <2>6, <3>3, <3>7 DEF T!Reported
  <2>7. QED
    BY <2>4, <2>5, <2>6
<1>2. QED
  BY <1>0, <1>1, TrackedInvCorrect, CountedInvCorrect, PTL
=============================================================================
