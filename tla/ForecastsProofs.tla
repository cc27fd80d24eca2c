---------------------------- MODULE ForecastsProofs ----------------------------
(***************************************************************************)
(* Two inductive invariants of the forecasts.  The first follows the model *)
(* file: what a scoring has loaded is the file until somebody writes it,   *)
(* and an attempt that loaded nothing has no site it is able to score; so  *)
(* only a training that writes the file from the loading to the            *)
(* fingerprint makes a forecast name another file than its own.  The       *)
(* second follows the drift: the readings are finite and numbered, so the  *)
(* pairs of a window are the comparisons of its hours, one each; a run     *)
(* that nothing has overtaken holds what the tables hold; and the sums of  *)
(* the errors, folds over finite sets, are shown to meet their recursive   *)
(* equation by well-founded induction on the number of pairs.              *)
(***************************************************************************)
EXTENDS Forecasts, FiniteSetTheorems, TLAPS

\* A record of a scoring process, whatever its fields hold.
IsAttempt(r) ==
  r = [step |-> r.step, tries |-> r.tries, instant |-> r.instant, sites |-> r.sites,
       frame |-> r.frame, able |-> r.able, maker |-> r.maker, reference |-> r.reference,
       raced |-> r.raced]

Signs(r, named) == named = r.maker \/ r.raced

\* Only a site that a loaded model can be asked about has a value to be signed.
AttemptOK(r) ==
  /\ IsAttempt(r)
  /\ r.step = "loaded" /\ r.able # {} => Signs(r, model)
  /\ r.step = "insert" /\ r.able # {} => Signs(r, r.reference)

AttemptsOK ==
  /\ scoring = [x \in Starters |-> scoring[x]]
  /\ \A x \in Starters : AttemptOK(scoring[x])

SignaturesOK == AttemptsOK /\ OnlyTrainingsMissign

Kept == <<model, forecast>>

-----------------------------------------------------------------------------

LEMMA SignaturesInit == Init => SignaturesOK
  <1> SUFFICES ASSUME Init
               PROVE  SignaturesOK
    OBVIOUS
  <1>1. \A x \in Starters : scoring[x] = NoScoring
    BY DEF Init
  <1>2. IsAttempt(NoScoring) /\ NoScoring.step = "idle"
    BY DEF IsAttempt, NoScoring
  <1>3. AttemptsOK
    BY <1>1, <1>2 DEF Init, AttemptsOK, AttemptOK
  <1>4. OnlyTrainingsMissign
    <2>1. ASSUME NEW s \in Sites, NEW h \in Hours
          PROVE  forecast[s][h] = None
      BY DEF Init
    <2>2. QED
      BY <2>1 DEF OnlyTrainingsMissign
  <1>5. QED
    BY <1>3, <1>4 DEF SignaturesOK

\* One attempt goes on and writes nothing.
LEMMA AttemptGoes ==
  ASSUME SignaturesOK, NEW x \in Starters, NEW r,
         scoring' = [scoring EXCEPT ![x] = r], AttemptOK(r),
         UNCHANGED Kept
  PROVE  SignaturesOK'
  <1>1. OnlyTrainingsMissign'
    BY DEF SignaturesOK, OnlyTrainingsMissign, Kept
  <1>2. \A y \in Starters : scoring'[y] = IF y = x THEN r ELSE scoring[y]
    BY DEF SignaturesOK, AttemptsOK
  <1>3. \A y \in Starters : AttemptOK(scoring'[y])
    BY <1>2 DEF SignaturesOK, AttemptsOK
  <1>4. \A y \in Starters : AttemptOK(scoring[y])'
    BY <1>3 DEF AttemptOK, Kept, Signs
  <1>5. scoring' = [y \in Starters |-> scoring'[y]]
    BY DEF SignaturesOK, AttemptsOK
  <1>6. QED
    BY <1>1, <1>4, <1>5 DEF SignaturesOK, AttemptsOK

LEMMA NothingStarts ==
  /\ AttemptOK(NoScoring)
  /\ \A i, s, t : /\ AttemptOK([NoScoring EXCEPT !.step = "read", !.instant = i, !.sites = s])
                  /\ AttemptOK([NoScoring EXCEPT !.step = "read", !.instant = i, !.sites = s,
                                                 !.tries = t])
  <1>1. AttemptOK(NoScoring)
    BY DEF AttemptOK, IsAttempt, NoScoring
  <1>2. ASSUME NEW i, NEW s, NEW t
        PROVE  /\ AttemptOK([NoScoring EXCEPT !.step = "read", !.instant = i, !.sites = s])
               /\ AttemptOK([NoScoring EXCEPT !.step = "read", !.instant = i, !.sites = s,
                                              !.tries = t])
    <2>1. PICK q : q = [NoScoring EXCEPT !.step = "read", !.instant = i, !.sites = s]
      OBVIOUS
    <2>2. IsAttempt(q) /\ q.step = "read"
      BY <2>1 DEF IsAttempt, NoScoring
    <2>3. PICK n : n = [NoScoring EXCEPT !.step = "read", !.instant = i, !.sites = s, !.tries = t]
      OBVIOUS
    <2>4. IsAttempt(n) /\ n.step = "read"
      BY <2>3 DEF IsAttempt, NoScoring
    <2>5. QED
      BY <2>1, <2>2, <2>3, <2>4 DEF AttemptOK
  <1>3. QED
    BY <1>1, <1>2

\* The file is written: whoever has loaded it and not named it is marked.
LEMMA FileWritten ==
  ASSUME SignaturesOK, scoring' = Rewritten, UNCHANGED forecast
  PROVE  SignaturesOK'
  <1>1. OnlyTrainingsMissign'
    BY DEF SignaturesOK, OnlyTrainingsMissign
  <1>2. ASSUME NEW x \in Starters
        PROVE  AttemptOK(scoring[x])'
    <2>1. PICK r : r = scoring[x] /\ AttemptOK(r)
      BY DEF SignaturesOK, AttemptsOK
    <2>2. scoring'[x] = [r EXCEPT !.raced = (r.step = "loaded") \/ r.raced]
      BY <2>1 DEF Rewritten
    <2>3. PICK q : /\ q = scoring'[x] /\ IsAttempt(q)
                   /\ q.step = r.step /\ q.able = r.able /\ q.maker = r.maker
                   /\ q.reference = r.reference
                   /\ q.raced = ((r.step = "loaded") \/ r.raced)
      BY <2>1, <2>2 DEF AttemptOK, IsAttempt
    <2>4. q.step = "loaded" /\ q.able # {} => Signs(q, model')
      BY <2>1, <2>3 DEF AttemptOK, Signs
    <2>5. q.step = "insert" /\ q.able # {} => Signs(q, q.reference)
      BY <2>1, <2>3 DEF AttemptOK, Signs
    <2>6. QED
      BY <2>3, <2>4, <2>5 DEF AttemptOK
  <1>3. scoring' = [x \in Starters |-> scoring'[x]]
    BY DEF Rewritten
  <1>4. QED
    BY <1>1, <1>2, <1>3 DEF SignaturesOK, AttemptsOK

-----------------------------------------------------------------------------

LEMMA ScoringKeepsSignatures ==
  ASSUME SignaturesOK, NEW x \in Starters, Score(x) \/ ScoringStep(x)
  PROVE  SignaturesOK'
  <1>1. PICK r : r = scoring[x] /\ AttemptOK(r) /\ IsAttempt(r)
    BY DEF SignaturesOK, AttemptsOK, AttemptOK
  <1>2. CASE Score(x)
    BY <1>2, AttemptGoes, NothingStarts DEF Score, Goes, Kept
  <1>3. CASE LoadRecent(x)
    <2>1. PICK frame, able, step :
            /\ scoring' = [scoring EXCEPT ![x] = [r EXCEPT !.step = step, !.frame = frame,
                                                           !.able = able]]
            /\ step = IF frame = {} THEN "loaded" ELSE "load"
            /\ frame = {} => able = {}
            /\ UNCHANGED Kept
      BY <1>1, <1>3 DEF LoadRecent, Goes, Kept
    <2>2. AttemptOK([r EXCEPT !.step = step, !.frame = frame, !.able = able])
      <3>1. PICK q : q = [r EXCEPT !.step = step, !.frame = frame, !.able = able]
        OBVIOUS
      <3>2. IsAttempt(q) /\ q.step = step /\ q.able = able
        BY <1>1, <3>1 DEF IsAttempt
      <3>3. AttemptOK(q)
        BY <2>1, <3>2 DEF AttemptOK
      <3>4. QED
        BY <3>1, <3>3
    <2>3. QED
      BY <2>1, <2>2, AttemptGoes
  <1>4. CASE LoadModel(x)
    <2>1. PICK m, b : m = model /\ b = (training = "saving")
      OBVIOUS
    <2>2. PICK q : q = [r EXCEPT !.step = "loaded", !.maker = m, !.raced = b]
      OBVIOUS
    <2>3. IsAttempt(q) /\ q.step = "loaded" /\ q.maker = m
      BY <1>1, <2>2 DEF IsAttempt
    <2>4. AttemptOK(q)
      BY <2>1, <2>3 DEF AttemptOK, Signs
    <2>5. scoring' = [scoring EXCEPT ![x] = q] /\ UNCHANGED Kept
      BY <1>1, <1>4, <2>1, <2>2 DEF LoadModel, Goes, Kept
    <2>6. QED
      BY <2>4, <2>5, AttemptGoes
  <1>5. CASE ModelReference(x)
    <2>1. PICK m : m = model
      OBVIOUS
    <2>2. PICK q : q = [r EXCEPT !.step = "insert", !.reference = m]
      OBVIOUS
    <2>3. /\ IsAttempt(q) /\ q.step = "insert" /\ q.reference = m
          /\ q.maker = r.maker /\ q.able = r.able /\ q.raced = r.raced
      BY <1>1, <2>2 DEF IsAttempt
    <2>4. r.step = "loaded"
      BY <1>1, <1>5 DEF ModelReference
    <2>5. AttemptOK(q)
      BY <1>1, <2>1, <2>3, <2>4 DEF AttemptOK, Signs
    <2>6. scoring' = [scoring EXCEPT ![x] = q] /\ UNCHANGED Kept
      BY <1>1, <1>5, <2>1, <2>2 DEF ModelReference, Goes, Kept
    <2>7. QED
      BY <2>5, <2>6, AttemptGoes
  <1>6. CASE WritePredictions(x)
    <2>1. PICK v \in Values :
            forecast' = [s \in Sites |-> [h \in Hours |->
              IF [site |-> s, target |-> h] \in r.frame
              THEN [status |-> IF s \in r.able THEN "available" ELSE "insufficient_data",
                    value |-> IF s \in r.able THEN v ELSE None,
                    reference |-> r.reference, maker |-> r.maker, raced |-> r.raced]
              ELSE forecast[s][h]]]
      BY <1>1, <1>6 DEF WritePredictions
    <2>2. r.step = "insert"
      BY <1>1, <1>6 DEF WritePredictions
    <2>3. ASSUME NEW s \in Sites, NEW h \in Hours,
                 forecast'[s][h] # None, forecast'[s][h].status = "available"
          PROVE  LET f == forecast'[s][h]
                 IN f.reference = f.maker \/ f.raced
      <3>1. CASE [site |-> s, target |-> h] \in r.frame
        <4>1. PICK f : /\ f = forecast'[s][h]
                       /\ f.status = (IF s \in r.able THEN "available" ELSE "insufficient_data")
                       /\ f.reference = r.reference /\ f.maker = r.maker /\ f.raced = r.raced
          BY <2>1, <3>1
        <4>2. s \in r.able
          BY <2>3, <4>1
        <4>3. Signs(r, r.reference)
          BY <1>1, <2>2, <4>2 DEF AttemptOK
        <4>4. QED
          BY <4>1, <4>3 DEF Signs
      <3>2. CASE [site |-> s, target |-> h] \notin r.frame
        <4>1. forecast'[s][h] = forecast[s][h]
          BY <2>1, <3>2
        <4>2. QED
          BY <2>3, <4>1 DEF SignaturesOK, OnlyTrainingsMissign
      <3>3. QED
        BY <3>1, <3>2
    <2>4. OnlyTrainingsMissign'
      BY <2>3 DEF OnlyTrainingsMissign
    <2>5. scoring' = [scoring EXCEPT ![x] = NoScoring] /\ UNCHANGED model
      BY <1>6 DEF WritePredictions, Goes
    <2>6. scoring' = [y \in Starters |-> scoring'[y]]
      BY <2>5 DEF SignaturesOK, AttemptsOK
    <2>7. \A y \in Starters : AttemptOK(scoring'[y])
      BY <2>5, NothingStarts DEF SignaturesOK, AttemptsOK
    <2>8. \A y \in Starters : AttemptOK(scoring[y])'
      BY <2>5, <2>7 DEF AttemptOK, Signs
    <2>9. QED
      BY <2>4, <2>6, <2>8 DEF SignaturesOK, AttemptsOK
  <1>7. CASE FailScoring(x)
    <2>1. PICK q : /\ scoring' = [scoring EXCEPT ![x] = q] /\ AttemptOK(q)
                   /\ UNCHANGED Kept
      <3>1. PICK t, n :
              scoring' = [scoring EXCEPT ![x] =
                            IF t THEN [NoScoring EXCEPT !.step = "read", !.instant = now,
                                                        !.sites = Sites, !.tries = n]
                            ELSE NoScoring]
        BY <1>7 DEF FailScoring, Goes
      <3>2. UNCHANGED Kept
        BY <1>7 DEF FailScoring, Goes, Kept
      <3>3. QED
        BY <3>1, <3>2, NothingStarts
    <2>2. QED
      BY <2>1, AttemptGoes
  <1>8. QED
    BY <1>2, <1>3, <1>4, <1>5, <1>6, <1>7 DEF ScoringStep

LEMMA SignaturesNext ==
  ASSUME SignaturesOK, [Next]_vars
  PROVE  SignaturesOK'
  <1>1. ASSUME UNCHANGED <<model, forecast, scoring>>
        PROVE  SignaturesOK'
    BY <1>1 DEF SignaturesOK, AttemptsOK, AttemptOK, Signs, OnlyTrainingsMissign
  <1>2. CASE BeginSave
    BY <1>2, FileWritten DEF BeginSave
  <1>3. CASE EndSave
    BY <1>3, FileWritten DEF EndSave
  <1>4. CASE Train \/ LogToMlflow \/ FailTraining
    BY <1>1, <1>4 DEF Train, LogToMlflow, FailTraining
  <1>5. CASE Ingest \/ Tick \/ UNCHANGED vars
    BY <1>1, <1>5 DEF Ingest, Tick, vars
  <1>6. CASE \E x \in Starters : Score(x) \/ ScoringStep(x)
    BY <1>6, ScoringKeepsSignatures
  <1>7. CASE \E x \in Starters : Evaluate(x) \/ DriftStep(x) \/ FailDrift(x)
    BY <1>1, <1>7 DEF Evaluate, DriftStep, FailDrift, ReadRecentPairs, ReadFormerPairs, ReadCounts,
                      Record, Watches
  <1>8. QED
    BY <1>2, <1>3, <1>4, <1>5, <1>6, <1>7 DEF Next

\* Whatever trainings, failures and other scorings do, the file a value names is another than the
\* one it comes from only if a training was writing it from the loading to the fingerprint
\* (score.py:65-70, 218-247).
THEOREM Signatures == Spec => []OnlyTrainingsMissign
  <1>1. Init => SignaturesOK
    BY SignaturesInit
  <1>2. SignaturesOK /\ [Next]_vars => SignaturesOK'
    BY SignaturesNext
  <1>3. SignaturesOK => OnlyTrainingsMissign
    BY DEF SignaturesOK
  <1>4. QED
    BY <1>1, <1>2, <1>3, PTL DEF Spec

-----------------------------------------------------------------------------
(* Sums of errors: the fold over a finite set meets its recursive equation. *)

LEMMA LeastNatural ==
  ASSUME NEW T, T \subseteq Nat, T # {}
  PROVE  \E n \in T : \A m \in T : n <= m
  <1> DEFINE R == OpToRel(<, Nat)
  <1>1. IsWellFoundedOn(R, Nat)
    BY NatLessThanWellFounded
  <1>2. \A m, n \in Nat : m < n => <<m, n>> \in R
    BY DEF OpToRel
  <1> HIDE DEF R
  <1>3. \E n \in T : \A m \in T : ~(<<m, n>> \in R)
    BY <1>1, WFMin
  <1>4. PICK n \in T : \A m \in T : ~(<<m, n>> \in R)
    BY <1>3
  <1>5. ASSUME NEW m \in T
        PROVE  n <= m
    <2>1. ~(m < n)
      BY <1>2, <1>4
    <2>2. QED
      BY <2>1
  <1>6. QED
    BY <1>5

Pick(s) == CHOOSE x \in s : TRUE

\* f sums e over the finite subsets of P, one element after another.
Sums(f, e, P) ==
  f = [s \in SUBSET P |-> IF s = {} THEN 0 ELSE e[Pick(s)] + f[s \ {Pick(s)}]]

LEMMA Picks ==
  ASSUME NEW P, IsFiniteSet(P), NEW s \in SUBSET P, s # {}
  PROVE  /\ Pick(s) \in s /\ s \ {Pick(s)} \in SUBSET P
         /\ IsFiniteSet(s) /\ Cardinality(s) \in Nat
         /\ Cardinality(s \ {Pick(s)}) \in Nat
         /\ Cardinality(s \ {Pick(s)}) < Cardinality(s)
  <1>1. Pick(s) \in s
    BY DEF Pick
  <1>2. IsFiniteSet(s)
    BY FS_Subset
  <1> DEFINE x == Pick(s)
  <1>3. IsFiniteSet(s \ {x}) /\ Cardinality(s \ {x}) = Cardinality(s) - 1
    BY <1>1, <1>2, FS_RemoveElement
  <1>4. Cardinality(s) \in Nat /\ Cardinality(s \ {x}) \in Nat
    BY <1>2, <1>3, FS_CardinalityType
  <1>5. QED
    BY <1>1, <1>2, <1>3, <1>4

LEMMA SumsExist ==
  ASSUME NEW P, IsFiniteSet(P), NEW e \in [P -> Int]
  PROVE  \E f : Sums(f, e, P)
  <1> DEFINE Small(n) == {s \in SUBSET P : Cardinality(s) <= n}
             Adds(f, n) == \A s \in Small(n) :
                             f[s] = IF s = {} THEN 0 ELSE e[Pick(s)] + f[s \ {Pick(s)}]
             Bad == {n \in Nat : ~\E f \in [Small(n) -> Int] : Adds(f, n)}
  <1>1. Bad = {}
    <2> SUFFICES ASSUME Bad # {}
                 PROVE  FALSE
      OBVIOUS
    <2>1. PICK n \in Bad : \A m \in Bad : n <= m
      <3> Bad \subseteq Nat
        OBVIOUS
      <3> HIDE DEF Bad
      <3> QED
        BY LeastNatural
    <2>2. CASE n = 0
      <3>1. \A s \in Small(0) : s = {}
        <4>1. \A s \in SUBSET P : IsFiniteSet(s) /\ Cardinality(s) \in Nat
          BY FS_Subset, FS_CardinalityType
        <4>2. QED
          BY <4>1, FS_EmptySet
      <3>2. PICK f : f = [s \in Small(0) |-> 0]
        OBVIOUS
      <3>3. f \in [Small(0) -> Int] /\ Adds(f, 0)
        BY <3>1, <3>2
      <3>4. QED
        BY <2>2, <3>3
    <2>3. CASE n # 0
      <3>1. n \in Nat /\ n - 1 \in Nat /\ n - 1 \notin Bad
        <4>1. n \in Nat
          BY <2>1
        <4> HIDE DEF Bad
        <4>2. QED
          BY <2>1, <2>3, <4>1
      <3>2. PICK g \in [Small(n - 1) -> Int] : Adds(g, n - 1)
        BY <3>1
      <3>3. PICK f : f = [s \in Small(n) |-> IF s = {} THEN 0 ELSE e[Pick(s)] + g[s \ {Pick(s)}]]
        OBVIOUS
      <3>4. \A s \in Small(n) : s # {} =>
              s \ {Pick(s)} \in Small(n - 1) /\ s \ {Pick(s)} \in Small(n) /\ Pick(s) \in P
        BY <3>1, Picks
      <3>5. \A s \in Small(n - 1) : s \in Small(n) /\ f[s] = g[s]
        <4>1. ASSUME NEW s \in Small(n - 1)
              PROVE  s \in Small(n)
          <5>1. IsFiniteSet(s) /\ Cardinality(s) \in Nat
            BY FS_Subset, FS_CardinalityType
          <5>2. QED
            BY <3>1, <5>1
        <4>2. QED
          BY <3>2, <3>3, <4>1
      <3>6. f \in [Small(n) -> Int]
        <4>1. ASSUME NEW s \in Small(n), s # {}
              PROVE  e[Pick(s)] + g[s \ {Pick(s)}] \in Int
          BY <3>4, <4>1
        <4>2. QED
          BY <3>3, <4>1
      <3>7. Adds(f, n)
        BY <3>3, <3>4, <3>5
      <3>8. QED
        BY <2>1, <3>6, <3>7
    <2>4. QED
      BY <2>2, <2>3
  <1>2. Cardinality(P) \in Nat
    BY FS_CardinalityType
  <1>3. PICK f \in [Small(Cardinality(P)) -> Int] : Adds(f, Cardinality(P))
    BY <1>1, <1>2
  <1>4. Small(Cardinality(P)) = SUBSET P
    BY FS_Subset
  <1>5. Sums(f, e, P)
    BY <1>3, <1>4 DEF Sums
  <1>6. QED
    BY <1>5

LEMMA ErrorsAreSums ==
  ASSUME NEW P, IsFiniteSet(P), \A p \in P : p.predicted \in Nat /\ p.actual \in Nat
  PROVE  \E f, g : /\ Sums(f, [p \in P |-> ErrorOf(p)], P)
                   /\ Sums(g, [p \in P |-> SignedErrorOf(p)], P)
                   /\ MapThenSumSet(ErrorOf, P) = f[P]
                   /\ MapThenSumSet(SignedErrorOf, P) = g[P]
  <1> DEFINE e == [p \in P |-> ErrorOf(p)]
             b == [p \in P |-> SignedErrorOf(p)]
             Errors(f) == f = [s \in SUBSET P |->
               IF s = {} THEN 0 ELSE ErrorOf(Pick(s)) + f[s \ {Pick(s)}]]
             SignedErrors(f) == f = [s \in SUBSET P |->
               IF s = {} THEN 0 ELSE SignedErrorOf(Pick(s)) + f[s \ {Pick(s)}]]
  <1>1. e \in [P -> Int] /\ b \in [P -> Int]
    BY DEF ErrorOf, SignedErrorOf, Distance
  <1>2. \A s \in SUBSET P : s # {} => /\ e[Pick(s)] = ErrorOf(Pick(s))
                                      /\ b[Pick(s)] = SignedErrorOf(Pick(s))
    BY Picks
  <1>3. ASSUME NEW f
        PROVE  (Sums(f, e, P) <=> Errors(f)) /\ (Sums(f, b, P) <=> SignedErrors(f))
    <2> HIDE DEF e, b
    <2>1. ASSUME Sums(f, e, P)
          PROVE  Errors(f)
      BY <1>2, <2>1 DEF Sums
    <2>2. ASSUME Errors(f)
          PROVE  Sums(f, e, P)
      BY <1>2, <2>2 DEF Sums
    <2>3. ASSUME Sums(f, b, P)
          PROVE  SignedErrors(f)
      BY <1>2, <2>3 DEF Sums
    <2>4. ASSUME SignedErrors(f)
          PROVE  Sums(f, b, P)
      BY <1>2, <2>4 DEF Sums
    <2> HIDE DEF Errors, SignedErrors
    <2>5. QED
      BY <2>1, <2>2, <2>3, <2>4
  <1>4. (\E f : Sums(f, e, P)) /\ (\E f : Sums(f, b, P))
    <2> HIDE DEF e, b
    <2>1. QED
      BY <1>1, SumsExist
  <1>5. (\E f : Errors(f)) /\ (\E f : SignedErrors(f))
    <2> HIDE DEF e, b, Errors, SignedErrors
    <2>1. QED
      BY <1>3, <1>4
  <1>6. \E f : Errors(f) /\ MapThenSumSet(ErrorOf, P) = f[P]
    <2>1. PICK f : Errors(f)
      BY <1>5
    <2>2. QED
      BY <2>1, Zenon DEF MapThenSumSet, MapThenFoldSet, Pick
  <1>7. \E f : SignedErrors(f) /\ MapThenSumSet(SignedErrorOf, P) = f[P]
    <2>1. PICK f : SignedErrors(f)
      BY <1>5
    <2>2. QED
      BY <2>1, Zenon DEF MapThenSumSet, MapThenFoldSet, Pick
  <1>8. QED
    <2> HIDE DEF e, b, Errors, SignedErrors
    <2>1. PICK f : Sums(f, e, P) /\ MapThenSumSet(ErrorOf, P) = f[P]
      BY <1>3, <1>6
    <2>2. PICK g : Sums(g, b, P) /\ MapThenSumSet(SignedErrorOf, P) = g[P]
      BY <1>3, <1>7
    <2>3. \E h, k : /\ Sums(h, e, P) /\ Sums(k, b, P)
                    /\ MapThenSumSet(ErrorOf, P) = h[P]
                    /\ MapThenSumSet(SignedErrorOf, P) = k[P]
      BY <2>1, <2>2
    <2>4. QED
      BY <2>3 DEF e, b

\* The errors add up to a natural number, and the signed errors to no more than that either way.
LEMMA ErrorsBoundBias ==
  ASSUME NEW P, IsFiniteSet(P), \A p \in P : p.predicted \in Nat /\ p.actual \in Nat
  PROVE  LET e == MapThenSumSet(ErrorOf, P)
             b == MapThenSumSet(SignedErrorOf, P)
         IN  e \in Nat /\ b \in Int /\ Distance(b, 0) <= e
  <1> DEFINE error == [p \in P |-> ErrorOf(p)]
             bias == [p \in P |-> SignedErrorOf(p)]
  <1>1. \A p \in P : /\ error[p] \in Nat /\ bias[p] \in Int
                     /\ -error[p] <= bias[p] /\ bias[p] <= error[p]
    BY DEF ErrorOf, SignedErrorOf, Distance
  <1>2. PICK f, g : /\ Sums(f, error, P) /\ Sums(g, bias, P)
                    /\ MapThenSumSet(ErrorOf, P) = f[P]
                    /\ MapThenSumSet(SignedErrorOf, P) = g[P]
    BY ErrorsAreSums
  <1> HIDE DEF error, bias
  <1> DEFINE Bounded(s) == f[s] \in Nat /\ g[s] \in Int /\ -f[s] <= g[s] /\ g[s] <= f[s]
             Bad == {Cardinality(s) : s \in {s \in SUBSET P : ~Bounded(s)}}
  <1>3. ASSUME Bad # {}
        PROVE  FALSE
    <2>1. Bad \subseteq Nat
      BY FS_Subset, FS_CardinalityType
    <2>2. PICK n \in Bad : \A m \in Bad : n <= m
      <3> HIDE DEF Bad
      <3> QED
        BY <1>3, <2>1, LeastNatural
    <2>3. PICK s \in SUBSET P : n = Cardinality(s) /\ ~Bounded(s)
      BY <2>2
    <2>4. /\ f[s] = IF s = {} THEN 0 ELSE error[Pick(s)] + f[s \ {Pick(s)}]
          /\ g[s] = IF s = {} THEN 0 ELSE bias[Pick(s)] + g[s \ {Pick(s)}]
      BY <1>2 DEF Sums
    <2>5. s # {}
      BY <2>3, <2>4
    <2>6. PICK x, u : x = Pick(s) /\ u = s \ {x}
      OBVIOUS
    <2>7. /\ x \in s /\ u \in SUBSET P
          /\ Cardinality(s) \in Nat /\ Cardinality(u) \in Nat
          /\ Cardinality(u) < Cardinality(s)
      BY <2>5, <2>6, Picks
    <2>8. Bounded(u)
      <3>1. CASE ~Bounded(u)
        <4>1. Cardinality(u) \in Bad
          BY <2>7, <3>1
        <4>2. n <= Cardinality(u)
          <5> HIDE DEF Bad
          <5> QED
            BY <2>2, <4>1
        <4>3. QED
          BY <2>3, <2>7, <4>2
      <3>2. QED
        BY <3>1
    <2>9. f[s] = error[x] + f[u] /\ g[s] = bias[x] + g[u]
      BY <2>4, <2>5, <2>6
    <2>10. /\ error[x] \in Nat /\ bias[x] \in Int
           /\ -error[x] <= bias[x] /\ bias[x] <= error[x]
      BY <1>1, <2>7
    <2>11. Bounded(s)
      BY <2>8, <2>9, <2>10
    <2>12. QED
      BY <2>3, <2>11
  <1>4. Bounded(P)
    BY <1>3
  <1>5. QED
    BY <1>2, <1>4 DEF Distance

-----------------------------------------------------------------------------
(* What the drift reads and reports has its type *)

Pair == [site : Sites, hour : Hours, predicted : Nat, actual : Nat, model : Model]

\* The readings are numbered in the order they came, and none is of an hour to come.
ReadingsOK ==
  /\ mix \in Mixes /\ now \in Nat /\ now <= mix.hours
  /\ IsFiniteSet(reading) /\ reading \subseteq Reading
  /\ \A r \in reading : r.id < Cardinality(reading) /\ r.hour <= now
  /\ \A q, r \in reading : q.id = r.id => q = r

\* A forecast that is available has a value.
ForecastsOK ==
  \A s \in Sites, h \in Hours :
    /\ forecast[s][h] \in Forecast \cup {None}
    /\ forecast[s][h] # None /\ forecast[s][h].status = "available" => forecast[s][h].value \in Nat

LEMMA ImageFinite ==
  ASSUME NEW S, NEW T, NEW f, IsFiniteSet(S), f = [s \in S |-> f[s]], T = {f[s] : s \in S}
  PROVE  IsFiniteSet(T)
  <1>1. f \in Surjection(S, T)
    BY DEF Surjection
  <1>2. QED
    BY <1>1, FS_Surjection

LEMMA PairsTyped ==
  ASSUME ReadingsOK, ForecastsOK, NEW sites \in SUBSET Sites, NEW from \in Int, NEW to \in Int
  PROVE  /\ Pairs(forecast, reading, sites, from, to) \subseteq Pair
         /\ IsFiniteSet(Pairs(forecast, reading, sites, from, to))
  <1> DEFINE S == {r \in reading : /\ r.site \in sites /\ r.hour \in from..(to - 1)
                                   /\ r \in Actual(reading, r.site, r.hour)
                                   /\ forecast[r.site][r.hour] # None
                                   /\ forecast[r.site][r.hour].status = "available"}
             P(r) == [site |-> r.site, hour |-> r.hour,
                      predicted |-> forecast[r.site][r.hour].value, actual |-> r.kwh,
                      model |-> forecast[r.site][r.hour].reference]
             f == [r \in S |-> P(r)]
  <1>1. Pairs(forecast, reading, sites, from, to) = {P(r) : r \in S}
    BY DEF Pairs
  <1>2. ASSUME NEW r \in S
        PROVE  P(r) \in Pair
    <2>1. r \in Reading /\ r.kwh # None
      BY DEF ReadingsOK, Actual
    <2>2. r.site \in Sites /\ r.hour \in Hours /\ r.kwh \in Nat
      BY <2>1 DEF Reading
    <2>3. PICK p : p = forecast[r.site][r.hour]
      OBVIOUS
    <2>4. p # None /\ p.status = "available" /\ p \in Forecast /\ p.value \in Nat
      BY <2>2, <2>3 DEF ForecastsOK
    <2>5. p.reference \in Model
      BY <2>4 DEF Forecast
    <2>6. QED
      BY <2>2, <2>3, <2>4, <2>5 DEF Pair
  <1>3. IsFiniteSet(S)
    <2>1. S \in SUBSET reading
      OBVIOUS
    <2> HIDE DEF S
    <2>2. QED
      BY <2>1, FS_Subset DEF ReadingsOK
  <1>4. {P(r) : r \in S} = {f[r] : r \in S}
    OBVIOUS
  <1>5. IsFiniteSet({f[r] : r \in S})
    <2>1. f = [r \in S |-> f[r]]
      OBVIOUS
    <2> HIDE DEF f, S
    <2>2. QED
      BY <1>3, <2>1, ImageFinite
  <1>6. QED
    BY <1>1, <1>2, <1>4, <1>5

Count == [site : Sites, hour : Hours, status : {"available", "insufficient_data"}]

LEMMA CountsTyped ==
  ASSUME ForecastsOK, NEW sites \in SUBSET Sites, NEW from \in Int, NEW to \in Int
  PROVE  /\ Counts(forecast, sites, from, to) \subseteq Count
         /\ IsFiniteSet(Counts(forecast, sites, from, to))
  <1> DEFINE S == {c \in sites \X (Hours \cap from..(to - 1)) : forecast[c[1]][c[2]] # None}
             K(c) == [site |-> c[1], hour |-> c[2], status |-> forecast[c[1]][c[2]].status]
             f == [c \in S |-> K(c)]
  <1>1. Counts(forecast, sites, from, to) = {K(c) : c \in S}
    BY DEF Counts
  <1>2. ASSUME NEW c \in S
        PROVE  K(c) \in Count
    <2>1. c[1] \in Sites /\ c[2] \in Hours
      OBVIOUS
    <2>2. forecast[c[1]][c[2]] \in Forecast
      BY <2>1 DEF ForecastsOK
    <2>3. forecast[c[1]][c[2]].status \in {"available", "insufficient_data"}
      BY <2>2 DEF Forecast
    <2>4. QED
      BY <2>1, <2>3 DEF Count
  <1>3. IsFiniteSet(S)
    <2>1. IsFiniteSet(Sites) /\ IsFiniteSet(Hours)
      BY ForecastAssumption, FS_Interval DEF Hours
    <2>2. IsFiniteSet(Sites \X Hours)
      BY <2>1, FS_Product
    <2>3. S \in SUBSET (Sites \X Hours)
      OBVIOUS
    <2> HIDE DEF S
    <2>4. QED
      BY <2>2, <2>3, FS_Subset
  <1>4. {K(c) : c \in S} = {f[c] : c \in S}
    OBVIOUS
  <1>5. IsFiniteSet({f[c] : c \in S})
    <2>1. f = [c \in S |-> f[c]]
      OBVIOUS
    <2> HIDE DEF f, S
    <2>2. QED
      BY <1>3, <2>1, ImageFinite
  <1>6. QED
    BY <1>1, <1>2, <1>4, <1>5

LEMMA MeasuredFields ==
  ASSUME NEW P
  PROVE  /\ Measured(P).n = Cardinality(P)
         /\ Measured(P).error = MapThenSumSet(ErrorOf, P)
         /\ Measured(P).bias = MapThenSumSet(SignedErrorOf, P)
         /\ Measured(P).models = {p.model : p \in P}
  <1>1. PICK n, e, b, m : /\ n = Cardinality(P) /\ e = MapThenSumSet(ErrorOf, P)
                          /\ b = MapThenSumSet(SignedErrorOf, P) /\ m = {p.model : p \in P}
    OBVIOUS
  <1>2. Measured(P) = [n |-> n, error |-> e, bias |-> b, models |-> m]
    BY <1>1, Zenon DEF Measured
  <1>3. QED
    BY <1>1, <1>2

LEMMA OneReportTyped ==
  ASSUME NEW s \in Sites \cup {None}, NEW end \in Int,
         NEW P \in SUBSET Pair, NEW F \in SUBSET Pair, NEW C \in SUBSET Count,
         IsFiniteSet(P), IsFiniteSet(F), IsFiniteSet(C)
  PROVE  ReportOn(s, end, P, F, C) \in Report
  <1>1. /\ MapThenSumSet(ErrorOf, P) \in Nat
        /\ MapThenSumSet(SignedErrorOf, P) \in Int
    <2>1. \A p \in P : p.predicted \in Nat /\ p.actual \in Nat
      BY DEF Pair
    <2>2. QED
      BY <2>1, ErrorsBoundBias
  <1>2. Cardinality(P) \in Nat
    BY FS_CardinalityType
  <1>3. {p.model : p \in P} \in SUBSET Model
    BY DEF Pair
  <1>4. Available(C) \in Nat /\ Cardinality(C) - Available(C) \in Nat
    <2>1. PICK A : A = {c \in C : c.status = "available"} /\ A \in SUBSET C
      OBVIOUS
    <2>2. /\ IsFiniteSet(A) /\ Cardinality(A) <= Cardinality(C)
          /\ Cardinality(A) \in Nat /\ Cardinality(C) \in Nat
      BY <2>1, FS_Subset, FS_CardinalityType
    <2>3. Available(C) = Cardinality(A)
      BY <2>1 DEF Available
    <2>4. QED
      BY <2>2, <2>3
  <1>5. PICK m : /\ m = Measured(P)
                 /\ m.n = Cardinality(P) /\ m.error = MapThenSumSet(ErrorOf, P)
                 /\ m.bias = MapThenSumSet(SignedErrorOf, P) /\ m.models = {p.model : p \in P}
    BY MeasuredFields
  <1>6. PICK v : /\ v = Verdict(m, Measured(F), Available(C))
                 /\ v \in {"indetermine", "derive", "stable"}
    BY DEF Verdict
  <1>7. ReportOn(s, end, P, F, C) =
          [site |-> s, end |-> end, n |-> m.n, error |-> m.error, bias |-> m.bias,
           models |-> m.models, available |-> Available(C),
           insufficient |-> Cardinality(C) - Available(C), status |-> v]
    BY <1>5, <1>6 DEF ReportOn
  <1>8. QED
    BY <1>1, <1>2, <1>3, <1>4, <1>5, <1>6, <1>7 DEF Report

LEMMA ReportsTyped ==
  ASSUME NEW end \in Int,
         NEW P \in SUBSET Pair, NEW F \in SUBSET Pair, NEW C \in SUBSET Count,
         IsFiniteSet(P), IsFiniteSet(F), IsFiniteSet(C)
  PROVE  Reports(end, P, F, C) \subseteq Report
  <1>1. ASSUME NEW s \in Sites
        PROVE  ReportOn(s, end, OfSite(P, s), OfSite(F, s), OfSite(C, s)) \in Report
    <2>1. /\ OfSite(P, s) \in SUBSET P /\ OfSite(F, s) \in SUBSET F /\ OfSite(C, s) \in SUBSET C
      BY DEF OfSite
    <2>2. IsFiniteSet(OfSite(P, s)) /\ IsFiniteSet(OfSite(F, s)) /\ IsFiniteSet(OfSite(C, s))
      BY <2>1, FS_Subset
    <2>3. QED
      BY <2>1, <2>2, OneReportTyped
  <1>2. {p.site : p \in P} \cup {c.site : c \in C} \subseteq Sites
    BY DEF Pair, Count
  <1>3. ReportOn(None, end, P, F, C) \in Report
    BY OneReportTyped
  <1>4. QED
    BY <1>1, <1>2, <1>3 DEF Reports

-----------------------------------------------------------------------------
(* Every step keeps the types *)

\* What a drift run has read is finite: there are so many readings.
RunsOK == \A x \in Starters : IsFiniteSet(drift[x].pairs) /\ IsFiniteSet(drift[x].former)

TypesOK == TypeOK /\ ReadingsOK /\ ForecastsOK /\ RunsOK

LEMMA TypesInit == Init => TypesOK
  <1> SUFFICES ASSUME Init
               PROVE  TypesOK
    OBVIOUS
  <1>1. mix \in Mixes /\ mix.trained \in BOOLEAN /\ mix.hours \in Hours \ {MaxHour}
    BY ProcessAssumption DEF Init
  <1>2. NoFile \in Model /\ model \in Model
    BY <1>1 DEF Init, Model, NoFile
  <1>3. 0 \in Hours /\ Retries \in Nat
    BY ForecastAssumption, ProcessAssumption DEF Hours
  <1>4. NoScoring \in Scoring
    BY <1>2, <1>3 DEF NoScoring, Scoring
  <1>5. NoDrift \in Drift
    BY <1>3 DEF NoDrift, Drift
  <1>6. \A s \in Sites, h \in Hours : forecast[s][h] = None
    BY DEF Init
  <1>7. TypeOK
    BY <1>1, <1>2, <1>3, <1>4, <1>5, <1>6 DEF Init, TypeOK
  <1>8. ForecastsOK
    BY <1>6 DEF ForecastsOK
  <1>9. ReadingsOK
    BY <1>1, <1>3, FS_EmptySet DEF Init, ReadingsOK, Hours
  <1>10. RunsOK
    BY FS_EmptySet DEF Init, RunsOK, NoDrift
  <1>11. QED
    BY <1>7, <1>8, <1>9, <1>10 DEF TypesOK

LEMMA OutdatedTyped ==
  ASSUME TypesOK, drift' = Outdated
  PROVE  drift' \in [Starters -> Drift] /\ RunsOK'
  <1>1. ASSUME NEW x \in Starters
        PROVE  drift'[x] \in Drift /\ IsFiniteSet(drift'[x].pairs) /\ IsFiniteSet(drift'[x].former)
    <2>1. PICK r \in Drift : r = drift[x] /\ IsFiniteSet(r.pairs) /\ IsFiniteSet(r.former)
      BY DEF TypesOK, TypeOK, RunsOK
    <2>2. drift'[x] = [r EXCEPT !.fresh = (r.step = "idle")]
      BY <2>1 DEF Outdated
    <2>3. drift'[x] \in Drift /\ drift'[x].pairs = r.pairs /\ drift'[x].former = r.former
      BY <2>1, <2>2 DEF Drift
    <2>4. QED
      BY <2>1, <2>3
  <1>2. QED
    BY <1>1 DEF Outdated, RunsOK

LEMMA RewrittenTyped ==
  ASSUME TypesOK, scoring' = Rewritten
  PROVE  scoring' \in [Starters -> Scoring]
  <1>1. ASSUME NEW x \in Starters
        PROVE  scoring'[x] \in Scoring
    <2>1. PICK r \in Scoring : r = scoring[x]
      BY DEF TypesOK, TypeOK
    <2>2. scoring'[x] = [r EXCEPT !.raced = (r.step = "loaded") \/ r.raced]
      BY <2>1 DEF Rewritten
    <2>3. QED
      BY <2>1, <2>2 DEF Scoring
  <1>2. QED
    BY <1>1 DEF Rewritten

LEMMA IngestTyped ==
  ASSUME TypesOK, Ingest
  PROVE  TypesOK'
  <1>1. PICK m, r :
          /\ m \in mix.readings /\ m.hour <= now
          /\ r = [id |-> Cardinality(reading), site |-> m.site, hour |-> m.hour,
                  csv |-> m.csv, kwh |-> m.kwh]
          /\ reading' = reading \cup {r}
    BY DEF Ingest
  <1>2. Cardinality(reading) \in Nat /\ IsFiniteSet(reading)
    BY FS_CardinalityType DEF TypesOK, ReadingsOK
  <1>3. m \in [site : Sites, hour : Hours, csv : BOOLEAN, kwh : Nat \cup {None}]
    BY <1>1, ProcessAssumption DEF TypesOK, ReadingsOK
  <1>4. r \in Reading /\ r.id = Cardinality(reading) /\ r.hour <= now
    BY <1>1, <1>2, <1>3 DEF Reading
  <1>5. r \notin reading
    BY <1>2, <1>4 DEF TypesOK, ReadingsOK
  <1>6. IsFiniteSet(reading') /\ Cardinality(reading') = Cardinality(reading) + 1
    BY <1>1, <1>2, <1>5, FS_AddElement
  <1>7. \A q \in reading : q.id \in Nat
    BY DEF TypesOK, ReadingsOK, Reading
  <1>8. ReadingsOK'
    <2>1. \A q \in reading' : q.id < Cardinality(reading') /\ q.hour <= now
      BY <1>1, <1>2, <1>4, <1>6, <1>7 DEF TypesOK, ReadingsOK
    <2>2. \A p, q \in reading' : p.id = q.id => p = q
      BY <1>1, <1>2, <1>4, <1>7 DEF TypesOK, ReadingsOK
    <2>3. UNCHANGED <<now, mix>> /\ reading' \subseteq Reading
      BY <1>1, <1>4 DEF Ingest, TypesOK, ReadingsOK
    <2>4. QED
      BY <1>6, <2>1, <2>2, <2>3 DEF TypesOK, ReadingsOK
  <1>9. drift' \in [Starters -> Drift] /\ RunsOK'
    BY OutdatedTyped DEF Ingest
  <1>10. ForecastsOK'
    BY DEF Ingest, TypesOK, ForecastsOK
  <1>11. reading' \subseteq Reading
    BY <1>8 DEF ReadingsOK
  <1>12. TypeOK'
    BY <1>9, <1>11 DEF Ingest, TypesOK, TypeOK
  <1>13. QED
    BY <1>8, <1>9, <1>10, <1>12 DEF TypesOK

LEMMA TrainingTyped ==
  ASSUME TypesOK, Tick \/ Train \/ BeginSave \/ EndSave \/ LogToMlflow \/ FailTraining
  PROVE  TypesOK'
  <1>1. UNCHANGED <<reading, forecast, report, drift, runs, mix>>
    BY DEF Tick, Train, BeginSave, EndSave, LogToMlflow, FailTraining
  <1>2. ForecastsOK' /\ RunsOK'
    BY <1>1 DEF TypesOK, ForecastsOK, RunsOK
  <1>3. mix.hours \in Hours \ {MaxHour}
    BY ProcessAssumption DEF TypesOK, ReadingsOK
  <1>4. now' \in Hours /\ now' \in Nat /\ now' <= mix.hours /\ now <= now' /\ now \in Nat
    <2>1. CASE Tick
      BY <1>3, <2>1, ForecastAssumption DEF Tick, TypesOK, TypeOK, Hours
    <2>2. CASE ~Tick
      BY <1>3, <2>2 DEF Train, BeginSave, EndSave, LogToMlflow, FailTraining, TypesOK, TypeOK,
                        ReadingsOK
    <2>3. QED
      BY <2>1, <2>2
  <1>5. ReadingsOK'
    <2>1. \A r \in reading : r.hour \in Int
      BY DEF TypesOK, ReadingsOK, Reading, Hours
    <2>2. \A r \in reading : r.hour <= now'
      BY <1>4, <2>1 DEF TypesOK, ReadingsOK
    <2>3. QED
      BY <1>1, <1>4, <2>2 DEF TypesOK, ReadingsOK
  <1>6. /\ model' \in Model
        /\ training' \in {"idle", "fitting", "saving", "logging"} /\ failures' \in Nat
    <2>1. /\ model \in Model /\ failures \in Nat
          /\ training \in {"idle", "fitting", "saving", "logging"}
      BY DEF TypesOK, TypeOK
    <2>2. CASE BeginSave \/ EndSave
      <3>1. model' \in Model
        <4>1. CASE BeginSave
          BY <2>1, <4>1 DEF BeginSave, Model
        <4>2. CASE EndSave
          BY <2>1, <4>2 DEF EndSave, Model
        <4>3. QED
          BY <2>2, <4>1, <4>2
      <3>2. QED
        BY <2>1, <2>2, <3>1 DEF BeginSave, EndSave
    <2>3. CASE Tick \/ Train \/ LogToMlflow \/ FailTraining
      BY <2>1, <2>3 DEF Tick, Train, LogToMlflow, FailTraining
    <2>4. QED
      BY <2>2, <2>3
  <1>7. scoring' \in [Starters -> Scoring]
    BY RewrittenTyped DEF Tick, Train, BeginSave, EndSave, LogToMlflow, FailTraining, TypesOK,
                          TypeOK
  <1>8. TypeOK'
    BY <1>1, <1>4, <1>6, <1>7 DEF TypesOK, TypeOK
  <1>9. QED
    BY <1>2, <1>5, <1>8 DEF TypesOK

\* A scoring goes on, and writes nothing.
LEMMA AttemptTyped ==
  ASSUME TypesOK, NEW x \in Starters, NEW r \in Scoring, Goes(x, r),
         UNCHANGED <<forecast, drift>>, failures' \in Nat
  PROVE  TypesOK'
  <1>1. scoring' \in [Starters -> Scoring]
    BY DEF Goes, TypesOK, TypeOK
  <1>2. TypeOK'
    BY <1>1 DEF Goes, TypesOK, TypeOK
  <1>3. ReadingsOK' /\ ForecastsOK' /\ RunsOK'
    BY DEF Goes, TypesOK, ReadingsOK, ForecastsOK, RunsOK
  <1>4. QED
    BY <1>2, <1>3 DEF TypesOK

LEMMA StartsTyped ==
  ASSUME TypesOK, NEW x \in Starters, NEW t \in 0..Retries,
         NEW sites \in IF x = "dag" THEN {Sites} ELSE mix.asked,
         NEW instant \in IF x = "dag" THEN {now} ELSE mix.instants
  PROVE  /\ sites \in SUBSET Sites /\ instant \in Hours
         /\ NoScoring \in Scoring
         /\ [NoScoring EXCEPT !.step = "read", !.instant = instant, !.sites = sites] \in Scoring
         /\ [NoScoring EXCEPT !.step = "read", !.instant = instant, !.sites = sites,
                              !.tries = t] \in Scoring
  <1>1. mix.asked \in SUBSET SUBSET Sites /\ mix.instants \in SUBSET Hours
    BY ProcessAssumption DEF TypesOK, ReadingsOK
  <1>2. sites \in SUBSET Sites /\ instant \in Hours
    BY <1>1 DEF TypesOK, TypeOK
  <1>3. 0 \in Hours /\ 0 \in 0..Retries /\ NoFile \in Model
    BY ForecastAssumption, ProcessAssumption DEF Hours, NoFile, Model
  <1>4. NoScoring \in Scoring
    BY <1>3 DEF NoScoring, Scoring
  <1>5. QED
    BY <1>2, <1>4 DEF Scoring

LEMMA ScoringTyped ==
  ASSUME TypesOK, NEW x \in Starters, Score(x) \/ ScoringStep(x)
  PROVE  TypesOK'
  <1>1. PICK r \in Scoring : r = scoring[x]
    BY DEF TypesOK, TypeOK
  <1>2. failures \in Nat /\ 0 \in 0..Retries
    BY ProcessAssumption DEF TypesOK, TypeOK
  <1>3. CASE Score(x)
    <2>1. PICK sites \in IF x = "dag" THEN {Sites} ELSE mix.asked,
               instant \in IF x = "dag" THEN {now} ELSE mix.instants :
            Goes(x, [NoScoring EXCEPT !.step = "read", !.instant = instant, !.sites = sites])
      BY <1>3 DEF Score
    <2>2. [NoScoring EXCEPT !.step = "read", !.instant = instant, !.sites = sites] \in Scoring
      BY <1>2, StartsTyped
    <2>3. QED
      BY <1>2, <1>3, <2>1, <2>2, AttemptTyped DEF Score
  <1>4. CASE LoadRecent(x)
    <2>1. PICK rows, frame, able, step :
            /\ rows = {q \in Recent(reading, r.instant) : q.site \in r.sites}
            /\ frame = ScoringFrame(rows)
            /\ able = {f.site : f \in {f \in frame : Scorable(rows, f, r.instant)}}
            /\ step = IF frame = {} THEN "loaded" ELSE "load"
            /\ Goes(x, [r EXCEPT !.step = step, !.frame = frame, !.able = able])
      BY <1>1, <1>4 DEF LoadRecent
    <2>2. rows \subseteq reading
      BY <2>1 DEF Recent, Distinct
    <2>3. mix.hours \in Hours \ {MaxHour}
      BY ProcessAssumption DEF TypesOK, ReadingsOK
    <2>4. \A q \in rows : q.site \in Sites /\ q.hour + 1 \in Hours
      <3>1. ASSUME NEW q \in rows
            PROVE  q.site \in Sites /\ q.hour + 1 \in Hours
        <4>1. q \in Reading /\ q.hour <= now /\ now <= mix.hours /\ now \in Nat
          BY <2>2 DEF TypesOK, ReadingsOK
        <4>2. QED
          BY <2>3, <4>1, ForecastAssumption DEF Reading, Hours
      <3>2. QED
        BY <3>1
    <2>5. frame \subseteq [site : Sites, target : Hours]
      BY <2>1, <2>4 DEF ScoringFrame
    <2>6. able \subseteq Sites
      BY <2>1, <2>5
    <2>7. [r EXCEPT !.step = step, !.frame = frame, !.able = able] \in Scoring
      BY <2>1, <2>5, <2>6 DEF Scoring
    <2>8. UNCHANGED <<forecast, drift, failures>>
      BY <1>4 DEF LoadRecent
    <2>9. QED
      BY <1>2, <2>1, <2>7, <2>8, AttemptTyped
  <1>5. CASE LoadModel(x)
    <2>1. /\ Goes(x, [r EXCEPT !.step = "loaded", !.maker = model,
                                !.raced = (training = "saving")])
          /\ UNCHANGED <<forecast, drift, failures>>
      BY <1>1, <1>5 DEF LoadModel
    <2>2. [r EXCEPT !.step = "loaded", !.maker = model, !.raced = (training = "saving")] \in Scoring
      BY DEF TypesOK, TypeOK, Scoring
    <2>3. QED
      BY <1>2, <2>1, <2>2, AttemptTyped
  <1>6. CASE ModelReference(x)
    <2>1. /\ Goes(x, [r EXCEPT !.step = "insert", !.reference = model])
          /\ UNCHANGED <<forecast, drift, failures>>
      BY <1>1, <1>6 DEF ModelReference
    <2>2. [r EXCEPT !.step = "insert", !.reference = model] \in Scoring
      BY DEF TypesOK, TypeOK, Scoring
    <2>3. QED
      BY <1>2, <2>1, <2>2, AttemptTyped
  <1>7. CASE WritePredictions(x)
    <2>1. PICK v \in Values :
            forecast' = [s \in Sites |-> [h \in Hours |->
              IF [site |-> s, target |-> h] \in r.frame
              THEN [status |-> IF s \in r.able THEN "available" ELSE "insufficient_data",
                    value |-> IF s \in r.able THEN v ELSE None,
                    reference |-> r.reference, maker |-> r.maker, raced |-> r.raced]
              ELSE forecast[s][h]]]
      BY <1>1, <1>7 DEF WritePredictions
    <2>2. v \in Nat
      BY ProcessAssumption
    <2>3. ASSUME NEW s \in Sites, NEW h \in Hours
          PROVE  /\ forecast'[s][h] \in Forecast \cup {None}
                 /\ forecast'[s][h] # None /\ forecast'[s][h].status = "available"
                      => forecast'[s][h].value \in Nat
      <3>1. CASE [site |-> s, target |-> h] \in r.frame
        <4>1. PICK f : /\ f = forecast'[s][h]
                       /\ f = [status |-> IF s \in r.able THEN "available" ELSE "insufficient_data",
                               value |-> IF s \in r.able THEN v ELSE None,
                               reference |-> r.reference, maker |-> r.maker, raced |-> r.raced]
          BY <2>1, <3>1
        <4>2. f \in Forecast
          BY <2>2, <4>1 DEF Forecast, Scoring
        <4>3. f.status = "available" => f.value \in Nat
          BY <2>2, <4>1
        <4>4. QED
          BY <4>1, <4>2, <4>3
      <3>2. CASE [site |-> s, target |-> h] \notin r.frame
        <4>1. forecast'[s][h] = forecast[s][h]
          BY <2>1, <3>2
        <4>2. QED
          BY <4>1 DEF TypesOK, ForecastsOK
      <3>3. QED
        BY <3>1, <3>2
    <2>4. ForecastsOK'
      BY <2>3 DEF ForecastsOK
    <2>5. drift' \in [Starters -> Drift] /\ RunsOK'
      BY <1>7, OutdatedTyped DEF WritePredictions
    <2>6. NoScoring \in Scoring
      <3>1. 0 \in Hours /\ NoFile \in Model
        BY ForecastAssumption DEF Hours, NoFile, Model
      <3>2. QED
        BY <1>2, <3>1 DEF NoScoring, Scoring
    <2>7. Goes(x, NoScoring) /\ UNCHANGED failures
      BY <1>7 DEF WritePredictions
    <2>8. scoring' \in [Starters -> Scoring]
      BY <2>6, <2>7 DEF Goes, TypesOK, TypeOK
    <2>9. TypeOK'
      BY <2>3, <2>5, <2>7, <2>8 DEF Goes, TypesOK, TypeOK
    <2>10. ReadingsOK'
      BY <2>7 DEF Goes, TypesOK, ReadingsOK
    <2>11. QED
      BY <2>4, <2>5, <2>9, <2>10 DEF TypesOK
  <1>8. CASE FailScoring(x)
    <2>1. failures' \in Nat /\ UNCHANGED <<forecast, drift>>
      BY <1>2, <1>8 DEF FailScoring
    <2>2. CASE x = "dag" /\ TriesAgain(r)
      <3>1. PICK t : t = r.tries + 1 /\ t \in 0..Retries
        BY <2>2, ProcessAssumption DEF TriesAgain, Scoring
      <3>2. Goes(x, [NoScoring EXCEPT !.step = "read", !.instant = now, !.sites = Sites,
                                      !.tries = t])
        BY <1>1, <1>8, <2>2, <3>1 DEF FailScoring
      <3>3. [NoScoring EXCEPT !.step = "read", !.instant = now, !.sites = Sites,
                              !.tries = t] \in Scoring
        <4>1. Sites \in {Sites} /\ now \in {now}
          OBVIOUS
        <4>2. QED
          BY <2>2, <3>1, <4>1, StartsTyped
      <3>4. QED
        BY <2>1, <3>2, <3>3, AttemptTyped
    <2>3. CASE ~(x = "dag" /\ TriesAgain(r))
      <3>1. Goes(x, NoScoring)
        BY <1>1, <1>8, <2>3 DEF FailScoring
      <3>2. 0 \in Hours /\ NoFile \in Model
        BY ForecastAssumption DEF Hours, NoFile, Model
      <3>3. NoScoring \in Scoring
        BY <1>2, <3>2 DEF NoScoring, Scoring
      <3>4. QED
        BY <2>1, <3>1, <3>3, AttemptTyped
    <2>4. QED
      BY <2>2, <2>3
  <1>9. QED
    BY <1>3, <1>4, <1>5, <1>6, <1>7, <1>8 DEF ScoringStep

\* A drift run goes on.
LEMMA RunTyped ==
  ASSUME TypesOK, NEW x \in Starters, NEW r \in Drift, Watches(x, r),
         IsFiniteSet(r.pairs), IsFiniteSet(r.former),
         report' \subseteq Report, failures' \in Nat, runs' \in Nat
  PROVE  TypesOK'
  <1>1. drift' \in [Starters -> Drift]
    BY DEF Watches, TypesOK, TypeOK
  <1>2. \A y \in Starters : drift'[y] = IF y = x THEN r ELSE drift[y]
    BY DEF Watches, TypesOK, TypeOK
  <1>3. RunsOK'
    BY <1>2 DEF TypesOK, RunsOK
  <1>4. TypeOK'
    BY <1>1 DEF Watches, TypesOK, TypeOK
  <1>5. ReadingsOK' /\ ForecastsOK'
    BY DEF Watches, TypesOK, ReadingsOK, ForecastsOK
  <1>6. QED
    BY <1>3, <1>4, <1>5 DEF TypesOK

LEMMA DriftTyped ==
  ASSUME TypesOK, NEW x \in Starters, Evaluate(x) \/ DriftStep(x) \/ FailDrift(x)
  PROVE  TypesOK'
  <1>1. PICK r \in Drift : r = drift[x] /\ IsFiniteSet(r.pairs) /\ IsFiniteSet(r.former)
    BY DEF TypesOK, TypeOK, RunsOK
  <1>2. report \subseteq Report /\ failures \in Nat /\ runs \in Nat /\ ForecastsOK /\ ReadingsOK
    BY DEF TypesOK, TypeOK
  <1>3. NoDrift \in Drift /\ IsFiniteSet(NoDrift.pairs) /\ IsFiniteSet(NoDrift.former)
    <2>1. 0 \in Hours
      BY ForecastAssumption DEF Hours
    <2>2. QED
      BY <2>1, FS_EmptySet DEF NoDrift, Drift
  <1>4. r.sites \in SUBSET Sites /\ End(r) \in Int /\ From(r) \in Int /\ From(r) - Window \in Int
    BY ForecastAssumption DEF Drift, End, From, Hours
  <1>5. CASE Evaluate(x)
    <2>1. PICK sites \in IF x = "dag" THEN {Sites} ELSE mix.asked,
               instant \in IF x = "dag" THEN {now} ELSE mix.instants :
            Watches(x, [NoDrift EXCEPT !.step = "recent", !.instant = instant, !.sites = sites])
      BY <1>5 DEF Evaluate
    <2>2. 0 \in 0..Retries
      BY ProcessAssumption
    <2>3. sites \in SUBSET Sites /\ instant \in Hours
      BY <2>2, StartsTyped
    <2>4. PICK q : q = [NoDrift EXCEPT !.step = "recent", !.instant = instant, !.sites = sites]
      OBVIOUS
    <2>5. q \in Drift /\ IsFiniteSet(q.pairs) /\ IsFiniteSet(q.former)
      BY <1>3, <2>3, <2>4 DEF NoDrift, Drift
    <2>6. UNCHANGED <<report, failures>> /\ runs' \in Nat
      <3>1. UNCHANGED <<report, failures>> /\ runs' = runs + 1
        BY <1>5, Zenon DEF Evaluate
      <3>2. QED
        BY <1>2, <3>1
    <2>7. QED
      BY <1>2, <2>1, <2>4, <2>5, <2>6, RunTyped
  <1>6. CASE ReadRecentPairs(x)
    <2>1. PICK p : /\ p = Pairs(forecast, reading, r.sites, From(r), End(r))
                   /\ p \subseteq Pair /\ IsFiniteSet(p)
      BY <1>2, <1>4, PairsTyped
    <2>2. PICK q : q = [r EXCEPT !.step = "former", !.pairs = p]
      OBVIOUS
    <2>3. q \in Drift /\ IsFiniteSet(q.pairs) /\ IsFiniteSet(q.former)
      BY <1>1, <2>1, <2>2 DEF Drift, Pair
    <2>4. Watches(x, q) /\ UNCHANGED <<report, runs, failures>>
      BY <1>1, <1>6, <2>1, <2>2 DEF ReadRecentPairs
    <2>5. QED
      BY <1>2, <2>3, <2>4, RunTyped
  <1>7. CASE ReadFormerPairs(x)
    <2>1. PICK p : /\ p = Pairs(forecast, reading, r.sites, From(r) - Window, From(r))
                   /\ p \subseteq Pair /\ IsFiniteSet(p)
      BY <1>2, <1>4, PairsTyped
    <2>2. PICK q : q = [r EXCEPT !.step = "counts", !.former = p]
      OBVIOUS
    <2>3. q \in Drift /\ IsFiniteSet(q.pairs) /\ IsFiniteSet(q.former)
      BY <1>1, <2>1, <2>2 DEF Drift, Pair
    <2>4. Watches(x, q) /\ UNCHANGED <<report, runs, failures>>
      BY <1>1, <1>7, <2>1, <2>2 DEF ReadFormerPairs
    <2>5. QED
      BY <1>2, <2>3, <2>4, RunTyped
  <1>8. CASE ReadCounts(x)
    <2>1. PICK c : /\ c = Counts(forecast, r.sites, From(r), End(r))
                   /\ c \in SUBSET Count /\ IsFiniteSet(c)
      BY <1>2, <1>4, CountsTyped
    <2>2. r.pairs \in SUBSET Pair /\ r.former \in SUBSET Pair
      BY DEF Drift, Pair
    <2>3. PICK w : w = Reports(End(r), r.pairs, r.former, c) /\ w \subseteq Report
      BY <1>1, <1>4, <2>1, <2>2, ReportsTyped
    <2>4. PICK q : q = [r EXCEPT !.step = "insert", !.pairs = {}, !.former = {}, !.rows = w]
      OBVIOUS
    <2>5. q \in Drift /\ IsFiniteSet(q.pairs) /\ IsFiniteSet(q.former)
      BY <2>3, <2>4, FS_EmptySet DEF Drift
    <2>6. Watches(x, q) /\ UNCHANGED <<report, runs, failures>>
      BY <1>1, <1>8, <2>1, <2>3, <2>4 DEF ReadCounts
    <2>7. QED
      BY <1>2, <2>5, <2>6, RunTyped
  <1>9. CASE Record(x)
    <2>1. r.rows \subseteq Report
      BY DEF Drift
    <2>2. report' \subseteq Report
      BY <1>1, <1>2, <1>9, <2>1 DEF Record
    <2>3. QED
      BY <1>2, <1>3, <1>9, <2>2, RunTyped DEF Record
  <1>10. CASE FailDrift(x)
    BY <1>2, <1>3, <1>10, RunTyped DEF FailDrift
  <1>11. QED
    BY <1>5, <1>6, <1>7, <1>8, <1>9, <1>10 DEF DriftStep

LEMMA TypesNext ==
  ASSUME TypesOK, [Next]_vars
  PROVE  TypesOK'
  <1>1. CASE UNCHANGED vars
    BY <1>1 DEF vars, TypesOK, TypeOK, ReadingsOK, ForecastsOK, RunsOK
  <1>2. QED
    BY <1>1, IngestTyped, TrainingTyped, ScoringTyped, DriftTyped DEF Next

-----------------------------------------------------------------------------
(* What a report counts, and what it should count *)

LEMMA GreatestReading ==
  ASSUME ReadingsOK, NEW R \in SUBSET reading, R # {}
  PROVE  \E r \in R : \A q \in R : q.id <= r.id
  <1> DEFINE n == Cardinality(reading)
             T == {n - r.id : r \in R}
  <1>1. n \in Nat /\ \A r \in R : r.id \in Nat /\ r.id < n
    BY FS_CardinalityType DEF ReadingsOK, Reading
  <1>2. T \subseteq Nat /\ T # {}
    BY <1>1
  <1>3. PICK m \in T : \A k \in T : m <= k
    <2> HIDE DEF T
    <2> QED
      BY <1>2, LeastNatural
  <1>4. PICK r \in R : m = n - r.id
    BY <1>3
  <1>5. ASSUME NEW q \in R
        PROVE  q.id <= r.id
    <2>1. m <= n - q.id
      BY <1>3
    <2> HIDE DEF n
    <2>2. QED
      BY <1>1, <1>4, <2>1
  <1>6. QED
    BY <1>5

\* The reading a pair is made of is the last measure: no two have one number.
LEMMA LastIsActual ==
  ASSUME ReadingsOK, NEW s, NEW h, NEW r \in Actual(reading, s, h)
  PROVE  r = LastMeasure(s, h)
  <1> DEFINE M == {q \in reading : q.site = s /\ q.hour = h /\ q.kwh # None}
  <1>1. r \in M /\ \A q \in M : q.id <= r.id
    BY DEF Actual
  <1>2. LastMeasure(s, h) \in M /\ \A q \in M : q.id <= LastMeasure(s, h).id
    BY <1>1 DEF LastMeasure
  <1>3. r.id = LastMeasure(s, h).id
    <2>1. \A q \in M : q.id \in Nat
      BY DEF ReadingsOK, Reading
    <2>2. QED
      BY <1>1, <1>2, <2>1
  <1>4. QED
    BY <1>1, <1>2, <1>3 DEF ReadingsOK

\* The hours of a window in which the sites of A have a forecast, and those that were measured.
Slots(A, end) ==
  {c \in A \X (Hours \cap (end - Window)..(end - 1)) : forecast[c[1]][c[2]] # None}

Seen(A, end) == {c \in Slots(A, end) : Verified(c[1], c[2])}

LEMMA SlotsFinite ==
  ASSUME NEW A \in SUBSET Sites, NEW end \in Int
  PROVE  /\ IsFiniteSet(Slots(A, end)) /\ Cardinality(Slots(A, end)) \in Nat
         /\ IsFiniteSet(Seen(A, end)) /\ Cardinality(Seen(A, end)) \in Nat
  <1>1. IsFiniteSet(Sites) /\ IsFiniteSet(Hours)
    BY ForecastAssumption, FS_Interval DEF Hours
  <1>2. IsFiniteSet(Sites \X Hours)
    BY <1>1, FS_Product
  <1>3. Slots(A, end) \in SUBSET (Sites \X Hours)
    BY DEF Slots
  <1>4. Seen(A, end) \in SUBSET (Sites \X Hours)
    BY DEF Seen, Slots
  <1>5. QED
    BY <1>2, <1>3, <1>4, FS_Subset, FS_CardinalityType

\* Each hour that was measured makes one pair, that of the last measure.
LEMMA PairsAreSeen ==
  ASSUME ReadingsOK, ForecastsOK, NEW A \in SUBSET Sites, NEW end \in Int
  PROVE  LET P == Pairs(forecast, reading, A, end - Window, end)
         IN  /\ P = {Compared(c) : c \in Seen(A, end)}
             /\ Cardinality(P) = Cardinality(Seen(A, end))
             /\ {p.model : p \in P} = {forecast[c[1]][c[2]].reference : c \in Seen(A, end)}
  <1> DEFINE P == Pairs(forecast, reading, A, end - Window, end)
             f == [p \in P |-> <<p.site, p.hour>>]
  <1>1. \A p \in P : \E r \in reading :
          /\ r.site \in A /\ r.hour \in (end - Window)..(end - 1)
          /\ r \in Actual(reading, r.site, r.hour)
          /\ forecast[r.site][r.hour] # None
          /\ forecast[r.site][r.hour].status = "available"
          /\ p = [site |-> r.site, hour |-> r.hour,
                  predicted |-> forecast[r.site][r.hour].value, actual |-> r.kwh,
                  model |-> forecast[r.site][r.hour].reference]
    BY DEF Pairs
  <1>2. ASSUME NEW p \in P
        PROVE  /\ <<p.site, p.hour>> \in Seen(A, end)
               /\ p.model = forecast[p.site][p.hour].reference
               /\ p = Compared(<<p.site, p.hour>>)
    <2>1. PICK r \in reading :
          /\ r.site \in A /\ r.hour \in (end - Window)..(end - 1)
          /\ r \in Actual(reading, r.site, r.hour)
          /\ forecast[r.site][r.hour] # None
          /\ forecast[r.site][r.hour].status = "available"
          /\ p = [site |-> r.site, hour |-> r.hour,
                  predicted |-> forecast[r.site][r.hour].value, actual |-> r.kwh,
                  model |-> forecast[r.site][r.hour].reference]
      BY <1>1
    <2>2. r.hour \in Hours /\ r.kwh # None
      BY <2>1 DEF ReadingsOK, Reading, Actual
    <2>3. Verified(r.site, r.hour)
      BY <2>1, <2>2 DEF Verified
    <2>4. p.site = r.site /\ p.hour = r.hour /\ p.model = forecast[r.site][r.hour].reference
      BY <2>1
    <2>5. <<r.site, r.hour>> \in Seen(A, end)
      BY <2>1, <2>2, <2>3 DEF Seen, Slots
    <2>6. r = LastMeasure(r.site, r.hour)
      BY <2>1, LastIsActual
    <2>7. p = Compared(<<r.site, r.hour>>)
      BY <2>1, <2>6 DEF Compared
    <2>8. QED
      BY <2>4, <2>5, <2>7
  <1>3. ASSUME NEW p \in P, NEW q \in P, p.site = q.site, p.hour = q.hour
        PROVE  p = q
    <2>1. PICK r \in reading :
          /\ r \in Actual(reading, r.site, r.hour)
          /\ p = [site |-> r.site, hour |-> r.hour,
                  predicted |-> forecast[r.site][r.hour].value, actual |-> r.kwh,
                  model |-> forecast[r.site][r.hour].reference]
      BY <1>1
    <2>2. PICK u \in reading :
          /\ u \in Actual(reading, u.site, u.hour)
          /\ q = [site |-> u.site, hour |-> u.hour,
                  predicted |-> forecast[u.site][u.hour].value, actual |-> u.kwh,
                  model |-> forecast[u.site][u.hour].reference]
      BY <1>1
    <2>3. r.site = u.site /\ r.hour = u.hour
      BY <1>3, <2>1, <2>2
    <2>4. r.id <= u.id /\ u.id <= r.id
      BY <2>1, <2>2, <2>3 DEF Actual
    <2>5. r.id = u.id
      BY <2>4 DEF ReadingsOK, Reading
    <2>6. QED
      BY <2>1, <2>2, <2>5 DEF ReadingsOK
  <1>4. ASSUME NEW c \in Seen(A, end)
        PROVE  \E p \in P : c = <<p.site, p.hour>>
    <2>1. PICK s \in A, h \in Hours :
            /\ c = <<s, h>> /\ h \in (end - Window)..(end - 1)
            /\ forecast[s][h] # None /\ Verified(s, h)
      BY DEF Seen, Slots
    <2>2. PICK R : R = {r \in reading : r.site = s /\ r.hour = h /\ r.kwh # None} /\ R # {}
      BY <2>1 DEF Verified
    <2>3. PICK r \in R : \A q \in R : q.id <= r.id
      BY <2>2, GreatestReading
    <2>4. r \in reading /\ r.site = s /\ r.hour = h /\ r.kwh # None
      BY <2>2
    <2>5. r \in Actual(reading, s, h)
      BY <2>2, <2>3, <2>4 DEF Actual
    <2>6. forecast[s][h].status = "available"
      BY <2>1 DEF Verified
    <2>7. [site |-> r.site, hour |-> r.hour,
           predicted |-> forecast[r.site][r.hour].value, actual |-> r.kwh,
           model |-> forecast[r.site][r.hour].reference] \in P
      BY <2>1, <2>4, <2>5, <2>6 DEF Pairs
    <2>8. QED
      BY <2>1, <2>4, <2>7
  <1>5. IsFiniteSet(P)
    BY PairsTyped, ForecastAssumption
  <1> HIDE DEF P
  <1>6. f \in Bijection(P, Seen(A, end))
    BY <1>2, <1>3, <1>4 DEF Bijection, Injection, Surjection, IsInjective
  <1>7. Cardinality(P) = Cardinality(Seen(A, end))
    BY <1>5, <1>6, FS_Bijection DEF ExistsBijection
  <1>8. {p.model : p \in P} = {forecast[c[1]][c[2]].reference : c \in Seen(A, end)}
    <2>1. ASSUME NEW c \in Seen(A, end)
          PROVE  forecast[c[1]][c[2]].reference \in {p.model : p \in P}
      <3>1. PICK p \in P : c = <<p.site, p.hour>>
        BY <1>4
      <3>2. p.model = forecast[c[1]][c[2]].reference
        BY <1>2, <3>1
      <3>3. QED
        BY <3>2
    <2>2. ASSUME NEW p \in P
          PROVE  p.model \in {forecast[c[1]][c[2]].reference : c \in Seen(A, end)}
      <3>1. PICK c \in Seen(A, end) : c = <<p.site, p.hour>>
        BY <1>2
      <3>2. p.model = forecast[c[1]][c[2]].reference
        BY <1>2, <3>1
      <3>3. QED
        BY <3>2
    <2>3. QED
      BY <2>1, <2>2
  <1>9. P = {Compared(c) : c \in Seen(A, end)}
    <2>1. ASSUME NEW c \in Seen(A, end)
          PROVE  Compared(c) \in P
      <3>1. PICK p \in P : c = <<p.site, p.hour>>
        BY <1>4
      <3>2. QED
        BY <1>2, <3>1
    <2>2. ASSUME NEW p \in P
          PROVE  p \in {Compared(c) : c \in Seen(A, end)}
      BY <1>2
    <2>3. QED
      BY <2>1, <2>2
  <1>10. QED
    BY <1>7, <1>8, <1>9 DEF P

\* Each hour that has a forecast counts once, and those that were measured are available.
LEMMA CountsAreSlots ==
  ASSUME ReadingsOK, ForecastsOK, NEW A \in SUBSET Sites, NEW end \in Int
  PROVE  LET C == Counts(forecast, A, end - Window, end)
         IN  /\ Cardinality(C) = Cardinality(Slots(A, end))
             /\ Available(C) \in Nat /\ Cardinality(Seen(A, end)) <= Available(C)
  <1> DEFINE K(c) == [site |-> c[1], hour |-> c[2], status |-> forecast[c[1]][c[2]].status]
             C == Counts(forecast, A, end - Window, end)
             S == Slots(A, end)
             f == [c \in S |-> K(c)]
             g == [c \in Seen(A, end) |-> K(c)]
             V == {c \in C : c.status = "available"}
  <1>1. C = {K(c) : c \in S}
    BY DEF Counts, Slots
  <1>2. \A c \in S : c = <<c[1], c[2]>>
    BY DEF Slots
  <1>3. \A c \in S : /\ K(c).site = c[1] /\ K(c).hour = c[2]
                     /\ K(c).status = forecast[c[1]][c[2]].status
    OBVIOUS
  <1>4. /\ Seen(A, end) \subseteq S
        /\ \A c \in Seen(A, end) : forecast[c[1]][c[2]].status = "available"
    BY DEF Seen, Verified
  <1>5. \A c \in Seen(A, end) : K(c) \in V
    BY <1>1, <1>3, <1>4
  <1>6. IsFiniteSet(C) /\ IsFiniteSet(S) /\ IsFiniteSet(Seen(A, end))
    BY SlotsFinite, CountsTyped, ForecastAssumption
  <1> HIDE DEF K, C, S
  <1>7. f \in Bijection(S, C)
    <2>1. \A c, d \in S : K(c) = K(d) => c = d
      BY <1>2, <1>3
    <2>2. QED
      BY <1>1, <2>1 DEF Bijection, Injection, Surjection, IsInjective
  <1>8. Cardinality(C) = Cardinality(S)
    BY <1>6, <1>7, FS_Bijection DEF ExistsBijection
  <1>9. IsFiniteSet(V) /\ Cardinality(V) \in Nat
    <2>1. V \in SUBSET C
      OBVIOUS
    <2>2. QED
      BY <1>6, <2>1, FS_Subset, FS_CardinalityType
  <1>10. g \in Injection(Seen(A, end), V)
    <2>1. \A c, d \in Seen(A, end) : K(c) = K(d) => c = d
      BY <1>2, <1>3, <1>4
    <2> HIDE DEF V
    <2>2. QED
      BY <1>5, <2>1 DEF Injection, IsInjective
  <1>11. Cardinality(Seen(A, end)) <= Cardinality(V)
    <2> HIDE DEF V, g
    <2>1. QED
      BY <1>9, <1>10, FS_Injection
  <1>12. QED
    BY <1>8, <1>9, <1>11 DEF Available, C, S

\* Of one site s, or of all of them when s is None.
LEMMA ReportIsExact ==
  ASSUME ReadingsOK, ForecastsOK, NEW s \in Sites \cup {None},
         NEW end \in Int, NEW A, A = IF s = None THEN Sites ELSE {s},
         NEW F \in SUBSET Pair, IsFiniteSet(F)
  PROVE  Exact(ReportOn(s, end, Pairs(forecast, reading, A, end - Window, end), F,
                        Counts(forecast, A, end - Window, end)))
  <1>1. A \in SUBSET Sites
    OBVIOUS
  <1>2. /\ Window \in Nat /\ MinObservations \in Nat \ {0} /\ BiasThreshold \in Nat
        /\ end - Window \in Int
    BY ForecastAssumption
  <1>3. PICK P, C : /\ P = Pairs(forecast, reading, A, end - Window, end)
                    /\ C = Counts(forecast, A, end - Window, end)
    OBVIOUS
  <1>4. P \in SUBSET Pair /\ IsFiniteSet(P)
    BY <1>1, <1>2, <1>3, PairsTyped
  <1>5. /\ P = {Compared(c) : c \in Seen(A, end)}
        /\ Cardinality(P) = Cardinality(Seen(A, end))
        /\ {p.model : p \in P} = {forecast[c[1]][c[2]].reference : c \in Seen(A, end)}
    BY <1>1, <1>3, PairsAreSeen
  <1>6. /\ Cardinality(C) = Cardinality(Slots(A, end))
        /\ Available(C) \in Nat /\ Cardinality(Seen(A, end)) <= Available(C)
    BY <1>1, <1>3, CountsAreSlots
  <1>7. Cardinality(Slots(A, end)) \in Nat /\ Cardinality(Seen(A, end)) \in Nat
    BY <1>1, SlotsFinite
  <1>8. PICK m : /\ m = Measured(P)
                 /\ m.n = Cardinality(P) /\ m.models = {p.model : p \in P}
                 /\ m.error = MapThenSumSet(ErrorOf, P) /\ m.bias = MapThenSumSet(SignedErrorOf, P)
                 /\ m.error \in Nat /\ m.bias \in Int /\ Distance(m.bias, 0) <= m.error
    <2>1. \A p \in P : p.predicted \in Nat /\ p.actual \in Nat
      BY <1>4 DEF Pair
    <2>2. QED
      BY <1>4, <2>1, MeasuredFields, ErrorsBoundBias
  <1>9. PICK ref : ref = Measured(F) /\ ref.n \in Nat /\ ref.error \in Nat
    <2>1. \A p \in F : p.predicted \in Nat /\ p.actual \in Nat
      BY DEF Pair
    <2>2. QED
      BY <2>1, MeasuredFields, ErrorsBoundBias, FS_CardinalityType
  <1>10. PICK n, a, v : /\ n = m.n /\ a = Available(C) /\ v = Verdict(m, ref, a)
                        /\ n \in Nat /\ a \in Nat /\ n <= a
    BY <1>5, <1>6, <1>7, <1>8
  <1>11. PICK w : /\ w = ReportOn(s, end, P, F, C)
                  /\ w.site = s /\ w.end = end /\ w.n = n /\ w.error = m.error
                  /\ w.bias = m.bias /\ w.models = m.models /\ w.available = a
                  /\ w.insufficient = Cardinality(C) - a /\ w.status = v
    <2>1. ReportOn(s, end, P, F, C) =
            [site |-> s, end |-> end, n |-> n, error |-> m.error, bias |-> m.bias,
             models |-> m.models, available |-> a, insufficient |-> Cardinality(C) - a,
             status |-> v]
      BY <1>8, <1>9, <1>10 DEF ReportOn
    <2>2. QED
      BY <2>1
  <1>12. v = "indetermine" <=> n < MinObservations
    BY <1>10 DEF Verdict
  <1>13. v = "stable" => 10 * n >= 8 * a
    <2>1. ASSUME v = "stable"
          PROVE  ~PoorlyCovered(n, a)
      BY <1>10, <2>1 DEF Verdict
    <2>2. QED
      BY <1>10, <2>1 DEF PoorlyCovered
  <1>14. v = "derive" => m.error > 0 \/ n < a
    <2>1. SUFFICES ASSUME v = "derive", m.error = 0
                   PROVE  n < a
      BY <1>8, <1>10
    <2>2. PoorlyCovered(n, a) \/ Worse(m, ref) \/ Biased(m)
      BY <1>10, <2>1 DEF Verdict
    <2>3. PoorlyCovered(n, a) => n < a
      BY <1>10 DEF PoorlyCovered
    <2>4. ~Worse(m, ref)
      <3>1. 5 * ref.error * n \in Nat
        BY <1>9, <1>10
      <3>2. 4 * m.error * ref.n = 0
        BY <1>9, <2>1
      <3>3. QED
        BY <1>10, <3>1, <3>2 DEF Worse
    <2>5. ~Biased(m)
      <3>1. Distance(m.bias, 0) <= 0
        BY <1>8, <2>1
      <3>2. BiasThreshold * n \in Nat
        BY <1>2, <1>10
      <3>3. Distance(m.bias, 0) \in Int
        BY <1>8 DEF Distance
      <3>4. QED
        BY <1>10, <3>1, <3>2, <3>3 DEF Biased
    <2>6. QED
      BY <2>2, <2>3, <2>4, <2>5
  <1>15. /\ Slots(A, end) = {c \in (IF w.site = None THEN Sites ELSE {w.site}) \X
                                     (Hours \cap (w.end - Window)..(w.end - 1)) :
                               forecast[c[1]][c[2]] # None}
         /\ Seen(A, end) = {c \in Slots(A, end) : Verified(c[1], c[2])}
    BY <1>11 DEF Slots, Seen
  <1>16. /\ w.n = Cardinality(Seen(A, end)) /\ w.n <= w.available
         /\ w.available + w.insufficient = Cardinality(Slots(A, end))
    <2>1. w.n = Cardinality(P) /\ w.available = a /\ w.insufficient = Cardinality(C) - a
      BY <1>8, <1>10, <1>11
    <2>2. QED
      BY <1>5, <1>6, <1>7, <1>10, <1>11, <2>1
  <1>17. w.models = {forecast[c[1]][c[2]].reference : c \in Seen(A, end)}
    BY <1>5, <1>8, <1>11
  <1>18. /\ w.error = MapThenSumSet(ErrorOf, {Compared(c) : c \in Seen(A, end)})
         /\ w.bias = MapThenSumSet(SignedErrorOf, {Compared(c) : c \in Seen(A, end)})
    BY <1>5, <1>8, <1>11, Zenon
  <1>19. Exact(w)
    BY <1>11, <1>12, <1>13, <1>14, <1>15, <1>16, <1>17, <1>18 DEF Exact
  <1>20. QED
    BY <1>3, <1>11, <1>19

\* The rows of a run that has read the tables as they are.
FreshRows(sites, end) ==
  Reports(end, Pairs(forecast, reading, sites, end - Window, end),
          Pairs(forecast, reading, sites, end - Window - Window, end - Window),
          Counts(forecast, sites, end - Window, end))

LEMMA OfOneSite ==
  ASSUME ForecastsOK, ReadingsOK, NEW sites \in SUBSET Sites, NEW s \in sites, NEW from, NEW to
  PROVE  /\ OfSite(Pairs(forecast, reading, sites, from, to), s)
              = Pairs(forecast, reading, {s}, from, to)
         /\ OfSite(Counts(forecast, sites, from, to), s) = Counts(forecast, {s}, from, to)
  <1>1. OfSite(Pairs(forecast, reading, sites, from, to), s)
              = Pairs(forecast, reading, {s}, from, to)
    BY DEF OfSite, Pairs
  <1>2. OfSite(Counts(forecast, sites, from, to), s) = Counts(forecast, {s}, from, to)
    BY DEF OfSite, Counts
  <1>3. QED
    BY <1>1, <1>2

LEMMA FreshRowsExact ==
  ASSUME ReadingsOK, ForecastsOK, NEW sites \in SUBSET Sites, NEW end \in Int,
         NEW w \in FreshRows(sites, end), w.site # None \/ sites = Sites
  PROVE  Exact(w)
  <1> DEFINE P == Pairs(forecast, reading, sites, end - Window, end)
             F == Pairs(forecast, reading, sites, end - Window - Window, end - Window)
             C == Counts(forecast, sites, end - Window, end)
  <1>1. Window \in Nat /\ end - Window \in Int /\ end - Window - Window \in Int
    BY ForecastAssumption
  <1>2. F \in SUBSET Pair /\ IsFiniteSet(F) /\ P \in SUBSET Pair /\ C \in SUBSET Count
    BY <1>1, PairsTyped, CountsTyped
  <1>3. ASSUME NEW s \in sites
        PROVE  Exact(ReportOn(s, end, OfSite(P, s), OfSite(F, s), OfSite(C, s)))
    <2>1. s # None
      BY ForecastAssumption
    <2>2. OfSite(P, s) = Pairs(forecast, reading, {s}, end - Window, end)
      BY OfOneSite
    <2>3. OfSite(C, s) = Counts(forecast, {s}, end - Window, end)
      BY OfOneSite
    <2>4. OfSite(F, s) \in SUBSET F
      BY DEF OfSite
    <2>5. OfSite(F, s) \in SUBSET Pair /\ IsFiniteSet(OfSite(F, s))
      BY <1>2, <2>4, FS_Subset
    <2> HIDE DEF F
    <2>6. PICK f : f = OfSite(F, s) /\ f \in SUBSET Pair /\ IsFiniteSet(f)
      BY <2>5
    <2>7. Exact(ReportOn(s, end, Pairs(forecast, reading, {s}, end - Window, end), f,
                         Counts(forecast, {s}, end - Window, end)))
      BY <2>1, <2>6, ReportIsExact
    <2>8. QED
      BY <2>2, <2>3, <2>6, <2>7
  <1>4. ASSUME sites = Sites
        PROVE  Exact(ReportOn(None, end, P, F, C))
    <2> HIDE DEF F
    <2>1. QED
      BY <1>2, <1>4, ReportIsExact
  <1>5. {p.site : p \in P} \cup {c.site : c \in C} \subseteq sites
    <2>1. \A p \in P : p.site \in sites
      BY DEF Pairs
    <2>2. \A c \in C : c.site \in sites
      BY DEF Counts
    <2> HIDE DEF P, C
    <2>3. QED
      BY <2>1, <2>2
  <1>6. QED
    <2>1. w \in Reports(end, P, F, C)
      BY DEF FreshRows
    <2>2. ReportOn(None, end, P, F, C).site = None
      BY DEF ReportOn
    <2> HIDE DEF P, F, C
    <2>3. QED
      BY <1>3, <1>4, <1>5, <2>1, <2>2 DEF Reports

\* There is a row for each site that has a forecast in the window, and one for all of them.
LEMMA FreshRowsComplete ==
  ASSUME NEW sites, NEW end, NEW s \in sites \cup {None},
         s = None \/ \E h \in Hours : h \in (end - Window)..(end - 1) /\ forecast[s][h] # None
  PROVE  \E w \in FreshRows(sites, end) : w.site = s /\ w.end = end
  <1> DEFINE P == Pairs(forecast, reading, sites, end - Window, end)
             F == Pairs(forecast, reading, sites, end - Window - Window, end - Window)
             C == Counts(forecast, sites, end - Window, end)
  <1>1. \A p, f, c : ReportOn(s, end, p, f, c).site = s /\ ReportOn(s, end, p, f, c).end = end
    BY DEF ReportOn
  <1>2. CASE s = None
    <2>1. ReportOn(s, end, P, F, C) \in FreshRows(sites, end)
      BY <1>2 DEF FreshRows, Reports
    <2>2. QED
      BY <1>1, <2>1
  <1>3. CASE s # None
    <2>1. PICK h \in Hours : h \in (end - Window)..(end - 1) /\ forecast[s][h] # None /\ s \in sites
      BY <1>3
    <2>2. [site |-> s, hour |-> h, status |-> forecast[s][h].status] \in C
      <3>1. <<s, h>> \in {c \in sites \X (Hours \cap (end - Window)..(end - 1)) :
                            forecast[c[1]][c[2]] # None}
        BY <2>1
      <3>2. QED
        BY <3>1 DEF Counts
    <2>3. s \in {c.site : c \in C}
      <3> HIDE DEF C
      <3>1. QED
        BY <2>2
    <2>4. ReportOn(s, end, OfSite(P, s), OfSite(F, s), OfSite(C, s)) \in FreshRows(sites, end)
      <3>1. FreshRows(sites, end) = Reports(end, P, F, C)
        BY DEF FreshRows
      <3> HIDE DEF P, F, C
      <3>2. QED
        BY <2>3, <3>1 DEF Reports
    <2>5. QED
      BY <1>1, <2>4
  <1>4. QED
    BY <1>2, <1>3

\* What a run has read is what the tables hold, as long as nothing is written.
FreshRead(r) ==
  r.fresh =>
    /\ r.step \in {"former", "counts"} =>
         r.pairs = Pairs(forecast, reading, r.sites, From(r), End(r))
    /\ r.step = "counts" =>
         r.former = Pairs(forecast, reading, r.sites, From(r) - Window, From(r))
    /\ r.step = "insert" => r.rows = FreshRows(r.sites, End(r))

FreshOK == \A x \in Starters : FreshRead(drift[x])

ReportsOK == TypesOK /\ FreshOK

LEMMA OutdatedFresh ==
  ASSUME TypesOK, drift' = Outdated
  PROVE  FreshOK'
  <1>1. ASSUME NEW x \in Starters
        PROVE  drift'[x].fresh => drift'[x].step = "idle"
    <2>1. PICK r \in Drift : r = drift[x]
      BY DEF TypesOK, TypeOK
    <2>2. drift'[x] = [r EXCEPT !.fresh = (r.step = "idle")]
      BY <2>1 DEF Outdated
    <2>3. drift'[x].fresh = (r.step = "idle") /\ drift'[x].step = r.step
      BY <2>2 DEF Drift
    <2>4. QED
      BY <2>3
  <1>2. QED
    BY <1>1 DEF FreshOK, FreshRead

LEMMA SameTablesFresh ==
  ASSUME UNCHANGED <<forecast, reading>>, NEW r, FreshRead(r)
  PROVE  FreshRead(r)'
  BY DEF FreshRead, FreshRows, From, End

LEMMA RunFresh ==
  ASSUME ReportsOK, NEW x \in Starters, NEW r \in Drift, Watches(x, r), FreshRead(r)
  PROVE  FreshOK'
  <1>1. \A y \in Starters : drift'[y] = IF y = x THEN r ELSE drift[y]
    BY DEF Watches, ReportsOK, TypesOK, TypeOK
  <1>2. \A y \in Starters : FreshRead(drift'[y])
    BY <1>1 DEF ReportsOK, FreshOK
  <1>3. UNCHANGED <<forecast, reading>>
    BY DEF Watches
  <1>4. QED
    BY <1>2, <1>3 DEF FreshOK, FreshRead, FreshRows, From, End

LEMMA DriftKeepsReports ==
  ASSUME ReportsOK, NEW x \in Starters, Evaluate(x) \/ DriftStep(x) \/ FailDrift(x)
  PROVE  ReportsOK'
  <1>1. PICK r \in Drift : r = drift[x] /\ FreshRead(r)
    BY DEF ReportsOK, TypesOK, TypeOK, FreshOK
  <1>2. TypesOK /\ ForecastsOK /\ ReadingsOK
    BY DEF ReportsOK, TypesOK
  <1>3. TypesOK'
    BY <1>2, DriftTyped
  <1>4. drift' \in [Starters -> Drift] /\ drift \in [Starters -> Drift]
    BY <1>2, <1>3 DEF TypesOK, TypeOK
  <1>5. ASSUME NEW q, Watches(x, q), FreshRead(q)
        PROVE  ReportsOK'
    <2>1. q \in Drift
      BY <1>4, <1>5 DEF Watches
    <2>2. QED
      BY <1>3, <1>5, <2>1, RunFresh DEF ReportsOK
  <1>6. CASE Evaluate(x)
    <2>1. PICK sites, instant :
            Watches(x, [NoDrift EXCEPT !.step = "recent", !.instant = instant, !.sites = sites])
      BY <1>6 DEF Evaluate
    <2>2. PICK q : q = [NoDrift EXCEPT !.step = "recent", !.instant = instant, !.sites = sites]
      OBVIOUS
    <2>3. q.step = "recent"
      BY <2>2 DEF NoDrift
    <2>4. QED
      BY <1>5, <2>1, <2>2, <2>3 DEF FreshRead
  <1>7. CASE ReadRecentPairs(x)
    <2>1. PICK p : p = Pairs(forecast, reading, r.sites, From(r), End(r))
      OBVIOUS
    <2>2. PICK q : q = [r EXCEPT !.step = "former", !.pairs = p]
      OBVIOUS
    <2>3. q.step = "former" /\ q.pairs = p /\ q.sites = r.sites /\ q.instant = r.instant
      BY <2>2 DEF Drift
    <2>4. FreshRead(q)
      BY <2>1, <2>3 DEF FreshRead, From, End
    <2>5. QED
      BY <1>1, <1>5, <1>7, <2>1, <2>2, <2>4 DEF ReadRecentPairs
  <1>8. CASE ReadFormerPairs(x)
    <2>1. PICK p : p = Pairs(forecast, reading, r.sites, From(r) - Window, From(r))
      OBVIOUS
    <2>2. PICK q : q = [r EXCEPT !.step = "counts", !.former = p]
      OBVIOUS
    <2>3. /\ q.step = "counts" /\ q.former = p /\ q.pairs = r.pairs
          /\ q.sites = r.sites /\ q.instant = r.instant /\ q.fresh = r.fresh
      BY <2>2 DEF Drift
    <2>4. r.step = "former"
      BY <1>1, <1>8 DEF ReadFormerPairs
    <2>5. FreshRead(q)
      BY <1>1, <2>1, <2>3, <2>4 DEF FreshRead, From, End
    <2>6. QED
      BY <1>1, <1>5, <1>8, <2>1, <2>2, <2>5 DEF ReadFormerPairs
  <1>9. CASE ReadCounts(x)
    <2>1. PICK w : w = Reports(End(r), r.pairs, r.former,
                               Counts(forecast, r.sites, From(r), End(r)))
      OBVIOUS
    <2>2. PICK q : q = [r EXCEPT !.step = "insert", !.pairs = {}, !.former = {}, !.rows = w]
      OBVIOUS
    <2>3. /\ q.step = "insert" /\ q.rows = w
          /\ q.sites = r.sites /\ q.instant = r.instant /\ q.fresh = r.fresh
      BY <2>2 DEF Drift
    <2>4. r.step = "counts"
      BY <1>1, <1>9 DEF ReadCounts
    <2>5. r.fresh => w = FreshRows(r.sites, End(r))
      BY <1>1, <2>1, <2>4 DEF FreshRead, FreshRows, From
    <2>6. FreshRead(q)
      BY <2>3, <2>5 DEF FreshRead, End
    <2>7. QED
      BY <1>1, <1>5, <1>9, <2>1, <2>2, <2>6 DEF ReadCounts
  <1>10. CASE Record(x) \/ FailDrift(x)
    <2>1. FreshRead(NoDrift)
      BY DEF FreshRead, NoDrift
    <2>2. Watches(x, NoDrift)
      BY <1>10 DEF Record, FailDrift
    <2>3. QED
      BY <1>5, <2>1, <2>2
  <1>11. QED
    BY <1>6, <1>7, <1>8, <1>9, <1>10 DEF DriftStep

LEMMA ReportsNext ==
  ASSUME ReportsOK, [Next]_vars
  PROVE  ReportsOK'
  <1>1. TypesOK /\ TypesOK'
    BY TypesNext DEF ReportsOK
  <1>2. ASSUME UNCHANGED <<forecast, reading, drift>>
        PROVE  ReportsOK'
    BY <1>1, <1>2 DEF ReportsOK, FreshOK, FreshRead, FreshRows, From, End
  <1>3. CASE Ingest \/ \E x \in Starters : WritePredictions(x)
    <2>1. drift' = Outdated
      BY <1>3 DEF Ingest, WritePredictions
    <2>2. QED
      BY <1>1, <2>1, OutdatedFresh DEF ReportsOK
  <1>4. CASE Tick \/ Train \/ BeginSave \/ EndSave \/ LogToMlflow \/ FailTraining \/ UNCHANGED vars
    BY <1>2, <1>4 DEF Tick, Train, BeginSave, EndSave, LogToMlflow, FailTraining, vars
  <1>5. CASE \E x \in Starters : Score(x) \/ LoadRecent(x) \/ LoadModel(x) \/ ModelReference(x)
                                   \/ FailScoring(x)
    BY <1>2, <1>5 DEF Score, LoadRecent, LoadModel, ModelReference, FailScoring, Goes
  <1>6. CASE \E x \in Starters : Evaluate(x) \/ DriftStep(x) \/ FailDrift(x)
    BY <1>6, DriftKeepsReports
  <1>7. QED
    BY <1>3, <1>4, <1>5, <1>6 DEF Next, ScoringStep

LEMMA ReportsInvariance == Spec => []ReportsOK
  <1>1. Init => ReportsOK
    BY TypesInit DEF ReportsOK, FreshOK, FreshRead, Init, NoDrift
  <1>2. ReportsOK /\ [Next]_vars => ReportsOK'
    BY ReportsNext
  <1>3. QED
    BY <1>1, <1>2, PTL DEF Spec

\* Every table, file and process holds what it is meant to hold; the sums of a report are
\* numbers whatever the pairs, and no scoring looks for an hour the clock has not.
THEOREM TypeCorrect == Spec => []TypeOK
  BY ReportsInvariance, PTL DEF ReportsOK, TypesOK

\* A drift run during which nothing was written leaves an exact row for each of its sites that has
\* a forecast, sums of errors included, and a global row, exact if it was asked for all sites,
\* whatever scorings, trainings and other runs went before
\* (services/drift.py:96-175, repositories/drift.py:104-170).
THEOREM ReportsAreExact == Spec => FreshReportsAreExact
  <1>1. ASSUME ReportsOK, NEW x \in Starters, Record(x), drift[x].fresh
        PROVE  /\ \A w \in report' \ report :
                    w.site # None \/ drift[x].sites = Sites => Exact(w)
               /\ \A s \in drift[x].sites \cup {None} :
                    (s = None \/ \E h \in Hours : h \in From(drift[x])..(End(drift[x]) - 1)
                                                    /\ forecast[s][h] # None)
                      => \E w \in report' : w.site = s /\ w.end = End(drift[x])
    <2>1. PICK r \in Drift : r = drift[x] /\ FreshRead(r)
      BY <1>1 DEF ReportsOK, TypesOK, TypeOK, FreshOK
    <2>2. r.step = "insert" /\ r.fresh /\ report' = report \cup
            {w \in r.rows : ~\E k \in report : k.site = w.site /\ k.end = w.end}
      BY <1>1, <2>1 DEF Record
    <2>3. r.rows = FreshRows(r.sites, End(r))
      BY <2>1, <2>2 DEF FreshRead
    <2>4. r.sites \in SUBSET Sites /\ End(r) \in Int /\ From(r) = End(r) - Window
      BY ForecastAssumption DEF Drift, End, From, Hours
    <2>5. \A w \in report' \ report : w.site # None \/ r.sites = Sites => Exact(w)
      BY <1>1, <2>2, <2>3, <2>4, FreshRowsExact DEF ReportsOK, TypesOK
    <2>6. ASSUME NEW s \in r.sites \cup {None},
                 s = None \/ \E h \in Hours : h \in From(r)..(End(r) - 1) /\ forecast[s][h] # None
          PROVE  \E w \in report' : w.site = s /\ w.end = End(r)
      <3>1. PICK sites, end : /\ sites = r.sites /\ end = End(r)
                              /\ sites \in SUBSET Sites /\ end \in Int /\ From(r) = end - Window
        BY <2>4
      <3>2. /\ s \in sites \cup {None}
            /\ s = None \/ \E h \in Hours : h \in (end - Window)..(end - 1) /\ forecast[s][h] # None
        BY <2>6, <3>1
      <3>3. \E w \in FreshRows(sites, end) : w.site = s /\ w.end = end
        BY <3>2, FreshRowsComplete
      <3>4. PICK w \in r.rows : w.site = s /\ w.end = End(r)
        BY <2>3, <3>1, <3>3
      <3>5. QED
        BY <2>2, <3>4
    <2>7. QED
      BY <2>1, <2>5, <2>6
  <1>2. ReportsOK /\ [Next]_vars =>
          [\A x \in Starters :
             Record(x) /\ drift[x].fresh =>
               /\ \A w \in report' \ report :
                    w.site # None \/ drift[x].sites = Sites => Exact(w)
               /\ \A s \in drift[x].sites \cup {None} :
                    (s = None \/ \E h \in Hours : h \in From(drift[x])..(End(drift[x]) - 1)
                                                    /\ forecast[s][h] # None)
                      => \E w \in report' : w.site = s /\ w.end = End(drift[x])]_vars
    BY <1>1
  <1>3. QED
    BY <1>2, ReportsInvariance, PTL DEF Spec, FreshReportsAreExact
=============================================================================
