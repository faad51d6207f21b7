------------------------- MODULE MemoryReviewProofs -------------------------
(***************************************************************************)
(* Proofs about MemoryReview, for any roles and drafters, any plan of      *)
(* documents, any number of runs, acceptances and feedback, with exits,    *)
(* failed launches, restarts and the user's switches and retries.  RInv is *)
(* the invariant of the review, its runs, jobs and retrospectives; TInv    *)
(* adds, for a user and an engineer who are not faster than the hooks      *)
(* (~Hasty), how the record of a retrospective follows its review.         *)
(***************************************************************************)
EXTENDS MemoryReview, WellFoundedInduction, TLAPS

(***************************************************************************)
(* The document that is next: the operators of the library it is made of.  *)
(***************************************************************************)
LEMMA LeastExists ==
  ASSUME NEW S, S \subseteq Nat, S # {}
  PROVE  \E x \in S : \A y \in S : x =< y
<1>1. \E x \in S : \A y \in S : ~(<<y, x>> \in OpToRel(<, Nat))
  BY WFMin, NatLessThanWellFounded
<1>2. PICK x \in S : \A y \in S : ~(<<y, x>> \in OpToRel(<, Nat))
  BY <1>1
<1>3. \A y \in S : <<y, x>> \in OpToRel(<, Nat) <=> y < x
  BY DEF OpToRel
<1>4. x \in Nat
  OBVIOUS
<1>5. ASSUME NEW y \in S PROVE x =< y
  <2>1. y \in Nat /\ ~(y < x)
    BY <1>2, <1>3
  <2>. QED
    BY <2>1, <1>4
<1>. QED
  BY <1>5

LEMMA MinIsLeast ==
  ASSUME NEW S, S \subseteq Nat, S # {}
  PROVE  Min(S) \in S /\ \A y \in S : Min(S) =< y
BY LeastExists DEF Min

(* currentDurableDocAssignment finds a document that is not over, if there *)
(* is one.                                                                 *)
LEMMA CurrentDocFinds ==
  ASSUME NEW docs, docs \in Seq(Doc)
  PROVE  /\ CurrentDoc(docs) \in 0..Len(docs)
         /\ CurrentDoc(docs) # 0 => docs[CurrentDoc(docs)].status \in {"running", "resolving", "pending", "waiting"}
         /\ CurrentDoc(docs) = 0 => \A i \in 1..Len(docs) : docs[i].status \in {"completed", "failed"}
<1> DEFINE A == {i \in 1..Len(docs) : docs[i].status \in {"running", "resolving"}}
           B == {i \in 1..Len(docs) : docs[i].status \in {"pending", "waiting"}}
<1>1. A # {} => Min(A) \in A
  <2>1. A \subseteq Nat
    OBVIOUS
  <2>. HIDE DEF A
  <2>. QED
    BY <2>1, MinIsLeast
<1>2. B # {} => Min(B) \in B
  <2>1. B \subseteq Nat
    OBVIOUS
  <2>. HIDE DEF B
  <2>. QED
    BY <2>1, MinIsLeast
<1>3. CurrentDoc(docs) = LET now == IF A # {} THEN Min(A) ELSE 0
                         IN IF now # 0 THEN now ELSE IF B # {} THEN Min(B) ELSE 0
  BY DEF CurrentDoc, SelectInSeq
<1>4. A \subseteq 1..Len(docs) /\ B \subseteq 1..Len(docs)
  OBVIOUS
<1>5. /\ \A i \in A : docs[i].status \in {"running", "resolving"}
      /\ \A i \in B : docs[i].status \in {"pending", "waiting"}
  OBVIOUS
<1>6. ASSUME NEW i \in 1..Len(docs), i \notin A, i \notin B
      PROVE  docs[i].status \in {"completed", "failed"}
  <2>1. docs[i] \in Doc
    OBVIOUS
  <2>. QED
    BY <2>1, <1>6 DEF Doc
<1>7. Len(docs) \in Nat
  OBVIOUS
<1>. HIDE DEF A, B
<1>. DEFINE c == CurrentDoc(docs)
<1>8. CASE A # {}
  <2>0. Min(A) \in 1..Len(docs)
    BY <1>1, <1>4, <1>8
  <2>1. Min(A) \in 1..Len(docs) /\ Min(A) # 0
    BY <2>0, <1>7
  <2>2. c = Min(A)
    BY <1>3, <2>1, <1>8
  <2>3. docs[Min(A)].status \in {"running", "resolving", "pending", "waiting"}
    BY <1>1, <1>5, <1>8
  <2>4. c \in 0..Len(docs) /\ c # 0
    BY <2>1, <2>2, <1>7
  <2>5. docs[c].status \in {"running", "resolving", "pending", "waiting"}
    BY <2>2, <2>3
  <2>. QED
    BY <2>4, <2>5
<1>9. CASE A = {} /\ B # {}
  <2>0. Min(B) \in 1..Len(docs)
    BY <1>2, <1>4, <1>9
  <2>1. Min(B) \in 1..Len(docs) /\ Min(B) # 0
    BY <2>0, <1>7
  <2>2. c = Min(B)
    BY <1>3, <2>1, <1>9
  <2>3. docs[Min(B)].status \in {"running", "resolving", "pending", "waiting"}
    BY <1>2, <1>5, <1>9
  <2>4. c \in 0..Len(docs) /\ c # 0
    BY <2>1, <2>2, <1>7
  <2>5. docs[c].status \in {"running", "resolving", "pending", "waiting"}
    BY <2>2, <2>3
  <2>. QED
    BY <2>4, <2>5
<1>10. CASE A = {} /\ B = {}
  BY <1>3, <1>6, <1>7, <1>10
<1>. QED
  BY <1>8, <1>9, <1>10

(***************************************************************************)
(* The stored review, its run and the dispatch under way.                  *)
(***************************************************************************)
Statuses == {"idle", "collecting", "reviewing", "documenting", "failed"}
Reviewed == {"applied", "reverted"}
RunStatuses == {"collecting", "reviewing", "failed", "removed"} \cup Reviewed
Review == [run : Nat, status : Statuses, done : Nat, sent : BOOLEAN, report : Nat,
           docs : Seq(Doc)]
Run(V) == [status : RunStatuses, acceptance : V, before : V, after : V, docs : Seq(Doc)]
AnyCaller == Agents \cup {"tick", "user", "request", "none"}
Job == [caller : AnyCaller, kind : {"none", "draft", "doc"}, review : Review]
Start == [step : {"idle", "check", "prepare", "ask"}, acceptance : Nat, run : Nat,
          items : SUBSET Nat]

(* The runs are records; the versions of memory in them are any values.    *)
RunsTyped(rs) == \E V : rs \in Seq(Run(V))

Typed == /\ review \in Review /\ job \in Job /\ start \in [Callers -> Start]
         /\ RunsTyped(runs) /\ result.plan \in Seq(Roles \cup {NoRole})
         /\ acceptance \in Nat /\ inbox \subseteq Nat /\ reported \in Nat

DocsOver(docs) == \A i \in DOMAIN docs : docs[i].status = "completed"

(* The active review is that of the newest run.                            *)
Newest(rv, rs) == rv.run \in {0, Len(rs)} /\ (rv.run = 0 <=> rv = NoReview)
(* The run has the documents of the review, and every other run none left. *)
DocsStored(rv, rs) ==
  /\ rv.run # 0 => rs[rv.run].docs = rv.docs
  /\ \A i \in 1..Len(rs) : i # rv.run => DocsOver(rs[i].docs)
  /\ rv.docs # <<>> => rv.status \in {"documenting", "failed"}
(* A dispatch has read the review as it still is, unless the review has    *)
(* been discarded behind a draft.                                          *)
JobIsCurrent(rv, rs, jb) ==
  /\ jb.kind = "none" => jb = NoJob
  /\ jb.kind # "none" => jb.review.run = Len(rs) /\ Len(rs) # 0
  /\ jb.kind = "doc" => /\ rv = jb.review /\ rv.status = "documenting"
                        /\ CurrentDoc(rv.docs) # 0
  /\ jb.kind = "draft" => /\ jb.review.docs = <<>> /\ jb.review.status = "collecting"
                          /\ rs[Len(rs)].docs = <<>> /\ rv \in {NoReview, jb.review}
                          /\ jb.caller # HE
(* ReviewedOnce, of these runs.                                            *)
Once(rs) == \A i, j \in 1..Len(rs) :
              i < j /\ rs[i].acceptance = rs[j].acceptance => rs[i].status \notin Reviewed

RInv == /\ Typed /\ Newest(review, runs) /\ DocsStored(review, runs)
        /\ JobIsCurrent(review, runs, job) /\ Once(runs)

(***************************************************************************)
(* What becomes of the runs.                                               *)
(***************************************************************************)
LEMMA RunsRead ==
  ASSUME NEW rs, RunsTyped(rs)
  PROVE  /\ Len(rs) \in Nat /\ DOMAIN rs = 1..Len(rs)
         /\ \A i \in 1..Len(rs) : rs[i].docs \in Seq(Doc) /\ rs[i].status \in RunStatuses
<1>1. PICK V : rs \in Seq(Run(V))
  BY DEF RunsTyped
<1>2. \A i \in 1..Len(rs) : rs[i] \in Run(V)
  BY <1>1
<1>. QED
  BY <1>1, <1>2 DEF Run

LEMMA IsRuns ==
  ASSUME NEW S, NEW n \in Nat, NEW f, f = [i \in 1..n |-> f[i]], \A i \in 1..n : f[i] \in S
  PROVE  f \in Seq(S) /\ Len(f) = n
<1>1. f \in [1..n -> S]
  OBVIOUS
<1>. QED
  BY <1>1

PutStatus(rs, k, s) == [rs EXCEPT ![k].status = s]
PutDocs(rs, k, docs) == [rs EXCEPT ![k].docs = docs]
PutResult(rs, k, docs, m) ==
  [rs EXCEPT ![k].status = "applied", ![k].after = m, ![k].docs = docs]

LEMMA RunChanges ==
  ASSUME NEW rs, RunsTyped(rs), NEW k, NEW s \in RunStatuses
  PROVE  LET ns == PutStatus(rs, k, s) IN
         /\ RunsTyped(ns) /\ Len(ns) = Len(rs)
         /\ \A i \in 1..Len(rs) : /\ ns[i].status = IF i = k THEN s ELSE rs[i].status
                                  /\ ns[i].acceptance = rs[i].acceptance
                                  /\ ns[i].docs = rs[i].docs
<1>1. PICK V : rs \in Seq(Run(V))
  BY DEF RunsTyped
<1>. DEFINE ns == PutStatus(rs, k, s)
<1>2. ASSUME NEW i \in 1..Len(rs)
      PROVE  /\ ns[i] \in Run(V) /\ ns[i].status = IF i = k THEN s ELSE rs[i].status
             /\ ns[i].acceptance = rs[i].acceptance /\ ns[i].docs = rs[i].docs
  <2>1. rs[i] \in Run(V)
    BY <1>1
  <2>2. ns[i] = IF i = k THEN [rs[i] EXCEPT !.status = s] ELSE rs[i]
    BY <1>1 DEF PutStatus
  <2>. QED
    BY <2>1, <2>2 DEF Run
<1>3. ns \in Seq(Run(V)) /\ Len(ns) = Len(rs)
  <2>1. Len(rs) \in Nat /\ DOMAIN rs = 1..Len(rs) /\ ns = [i \in 1..Len(rs) |-> ns[i]]
    BY <1>1 DEF PutStatus
  <2>. QED
    BY <1>2, <2>1, IsRuns
<1>. QED
  BY <1>2, <1>3 DEF RunsTyped

LEMMA RunStores ==
  ASSUME NEW rs, RunsTyped(rs), NEW k, NEW docs \in Seq(Doc)
  PROVE  LET ns == PutDocs(rs, k, docs) IN
         /\ RunsTyped(ns) /\ Len(ns) = Len(rs)
         /\ \A i \in 1..Len(rs) : /\ ns[i].docs = IF i = k THEN docs ELSE rs[i].docs
                                  /\ ns[i].acceptance = rs[i].acceptance
                                  /\ ns[i].status = rs[i].status
<1>1. PICK V : rs \in Seq(Run(V))
  BY DEF RunsTyped
<1>. DEFINE ns == PutDocs(rs, k, docs)
<1>2. ASSUME NEW i \in 1..Len(rs)
      PROVE  /\ ns[i] \in Run(V) /\ ns[i].docs = IF i = k THEN docs ELSE rs[i].docs
             /\ ns[i].acceptance = rs[i].acceptance /\ ns[i].status = rs[i].status
  <2>1. rs[i] \in Run(V)
    BY <1>1
  <2>2. ns[i] = IF i = k THEN [rs[i] EXCEPT !.docs = docs] ELSE rs[i]
    BY <1>1 DEF PutDocs
  <2>. QED
    BY <2>1, <2>2 DEF Run
<1>3. ns \in Seq(Run(V)) /\ Len(ns) = Len(rs)
  <2>1. Len(rs) \in Nat /\ DOMAIN rs = 1..Len(rs) /\ ns = [i \in 1..Len(rs) |-> ns[i]]
    BY <1>1 DEF PutDocs
  <2>. QED
    BY <1>2, <2>1, IsRuns
<1>. QED
  BY <1>2, <1>3 DEF RunsTyped

LEMMA RunIsApplied ==
  ASSUME NEW rs, RunsTyped(rs), NEW k, NEW docs \in Seq(Doc), NEW m
  PROVE  LET ns == PutResult(rs, k, docs, m)
         IN /\ RunsTyped(ns) /\ Len(ns) = Len(rs)
            /\ \A i \in 1..Len(rs) : /\ ns[i].docs = IF i = k THEN docs ELSE rs[i].docs
                                     /\ ns[i].acceptance = rs[i].acceptance
                                     /\ ns[i].status = IF i = k THEN "applied" ELSE rs[i].status
<1>1. PICK U : rs \in Seq(Run(U))
  BY DEF RunsTyped
<1>. DEFINE ns == [rs EXCEPT ![k].status = "applied", ![k].after = m, ![k].docs = docs]
            V == U \cup {m}
            r1 == [rs EXCEPT ![k].status = "applied"]
            r2 == [r1 EXCEPT ![k].after = m]
<1>a. ns = [r2 EXCEPT ![k].docs = docs]
  OBVIOUS
<1>b. Len(rs) \in Nat /\ DOMAIN rs = 1..Len(rs) /\ rs = [i \in 1..Len(rs) |-> rs[i]]
  BY <1>1
<1>c. /\ DOMAIN r1 = 1..Len(rs)
      /\ \A i \in 1..Len(rs) : r1[i] = IF i = k THEN [rs[i] EXCEPT !.status = "applied"] ELSE rs[i]
  BY <1>b
<1>. HIDE DEF ns, r1
<1>d. /\ DOMAIN r2 = 1..Len(rs)
      /\ \A i \in 1..Len(rs) : r2[i] = IF i = k THEN [r1[i] EXCEPT !.after = m] ELSE r1[i]
  BY <1>b, <1>c
<1>. HIDE DEF r2
<1>e. /\ DOMAIN ns = 1..Len(rs) /\ ns = [i \in 1..Len(rs) |-> ns[i]]
      /\ \A i \in 1..Len(rs) : ns[i] = IF i = k THEN [r2[i] EXCEPT !.docs = docs] ELSE r2[i]
  BY <1>a, <1>b, <1>d
<1>2. ASSUME NEW i \in 1..Len(rs)
      PROVE  /\ ns[i] \in Run(V) /\ ns[i].docs = IF i = k THEN docs ELSE rs[i].docs
             /\ ns[i].acceptance = rs[i].acceptance
             /\ ns[i].status = IF i = k THEN "applied" ELSE rs[i].status
  <2>1. rs[i] \in Run(U)
    BY <1>1
  <2>2. ns[i] = IF i = k THEN [rs[i] EXCEPT !.status = "applied", !.after = m, !.docs = docs]
                ELSE rs[i]
    BY <1>c, <1>d, <1>e
  <2>3. /\ rs[i].docs \in Seq(Doc) /\ rs[i].status \in RunStatuses
        /\ rs[i].acceptance \in U /\ rs[i].before \in U /\ rs[i].after \in U
        /\ rs[i] = [status |-> rs[i].status, acceptance |-> rs[i].acceptance,
                    before |-> rs[i].before, after |-> rs[i].after, docs |-> rs[i].docs]
    BY <2>1 DEF Run
  <2>4. CASE i = k
    <3>1. ns[i] = [status |-> "applied", acceptance |-> rs[i].acceptance,
                   before |-> rs[i].before, after |-> m, docs |-> docs]
      BY <2>2, <2>3, <2>4
    <3>2. "applied" \in RunStatuses
      BY DEF RunStatuses, Reviewed
    <3>. QED
      BY <2>3, <2>4, <3>1, <3>2 DEF Run
  <2>5. CASE i # k
    BY <2>2, <2>3, <2>5 DEF Run
  <2>. QED
    BY <2>4, <2>5
<1>3. ns \in Seq(Run(V)) /\ Len(ns) = Len(rs)
  BY <1>2, <1>b, <1>e, IsRuns
<1>. QED
  BY <1>2, <1>3 DEF RunsTyped, ns, PutResult

PutReverted(rs, k, n) ==
  [j \in DOMAIN rs |-> IF j = k THEN [rs[j] EXCEPT !.status = "reverted"]
                       ELSE IF j = n THEN [rs[j] EXCEPT !.status = "removed"] ELSE rs[j]]

LEMMA RunIsAppended ==
  ASSUME NEW rs, RunsTyped(rs), NEW a, NEW m
  PROVE  LET new == [status |-> "collecting", acceptance |-> a, before |-> m, after |-> m,
                     docs |-> <<>>]
             ns == Append(rs, new)
         IN /\ RunsTyped(ns) /\ Len(ns) = Len(rs) + 1 /\ ns[Len(rs) + 1] = new
            /\ \A i \in 1..Len(rs) : ns[i] = rs[i]
<1>1. PICK U : rs \in Seq(Run(U))
  BY DEF RunsTyped
<1>. DEFINE new == [status |-> "collecting", acceptance |-> a, before |-> m, after |-> m,
                    docs |-> <<>>]
            ns == Append(rs, new)
            V == U \cup {m, a}
<1>2. new \in Run(V)
  BY DEF Run, RunStatuses
<1>3. rs \in Seq(Run(V))
  <2>1. Run(U) \subseteq Run(V)
    BY DEF Run
  <2>2. /\ Len(rs) \in Nat /\ rs = [i \in 1..Len(rs) |-> rs[i]]
        /\ \A i \in 1..Len(rs) : rs[i] \in Run(U)
    BY <1>1
  <2>. QED
    BY <2>1, <2>2, IsRuns
<1>. HIDE DEF V, new
<1>4. ns \in Seq(Run(V)) /\ Len(ns) = Len(rs) + 1 /\ ns[Len(rs) + 1] = new
      /\ \A i \in 1..Len(rs) : ns[i] = rs[i]
  BY <1>2, <1>3
<1>. QED
  BY <1>4 DEF RunsTyped, new

LEMMA RunIsReverted ==
  ASSUME NEW rs, RunsTyped(rs), NEW k, NEW n
  PROVE  LET ns == PutReverted(rs, k, n)
         IN /\ RunsTyped(ns) /\ Len(ns) = Len(rs)
            /\ \A i \in 1..Len(rs) :
                 /\ ns[i].docs = rs[i].docs /\ ns[i].acceptance = rs[i].acceptance
                 /\ ns[i].status = IF i = k THEN "reverted" ELSE IF i = n THEN "removed"
                                   ELSE rs[i].status
<1>1. PICK V : rs \in Seq(Run(V))
  BY DEF RunsTyped
<1>. DEFINE ns == [j \in DOMAIN rs |->
                IF j = k THEN [rs[j] EXCEPT !.status = "reverted"]
                ELSE IF j = n THEN [rs[j] EXCEPT !.status = "removed"] ELSE rs[j]]
<1>2. ASSUME NEW i \in 1..Len(rs)
      PROVE  /\ ns[i] \in Run(V)
             /\ ns[i].docs = rs[i].docs /\ ns[i].acceptance = rs[i].acceptance
             /\ ns[i].status = IF i = k THEN "reverted" ELSE IF i = n THEN "removed"
                               ELSE rs[i].status
  <2>1. rs[i] \in Run(V)
    BY <1>1
  <2>2. ns[i] = IF i = k THEN [rs[i] EXCEPT !.status = "reverted"]
                ELSE IF i = n THEN [rs[i] EXCEPT !.status = "removed"] ELSE rs[i]
    BY <1>1
  <2>. QED
    BY <2>1, <2>2 DEF Run, RunStatuses, Reviewed
<1>3. ns \in Seq(Run(V)) /\ Len(ns) = Len(rs)
  <2>1. Len(rs) \in Nat /\ DOMAIN rs = 1..Len(rs) /\ ns = [i \in 1..Len(rs) |-> ns[i]]
    BY <1>1
  <2>. HIDE DEF ns
  <2>. QED
    BY <1>2, <2>1, IsRuns
<1>. QED
  BY <1>2, <1>3 DEF RunsTyped, PutReverted
(***************************************************************************)
(* What a step may do to the review and its runs.                          *)
(***************************************************************************)
\* The runs go on: none is added, only the newest becomes applied, and only
\* the run k gets other documents.
GoOn(rs, ns, k) ==
  /\ RunsTyped(ns) /\ Len(ns) = Len(rs)
  /\ \A i \in 1..Len(rs) : /\ ns[i].acceptance = rs[i].acceptance
                           /\ i # k => ns[i].docs = rs[i].docs
                           /\ ns[i].status \in Reviewed => rs[i].status \in Reviewed \/ i = Len(rs)
\* What RInv says of the review, the runs and the job.
RGood(rv, rs, jb) == Newest(rv, rs) /\ DocsStored(rv, rs) /\ JobIsCurrent(rv, rs, jb) /\ Once(rs)

LEMMA RInvIs == RInv <=> Typed /\ RGood(review, runs, job)
BY DEF RInv, RGood

LEMMA ConstantsTyped ==
  /\ NoReview \in Review /\ NoJob \in Job /\ NoStart \in Start
  /\ NoReview.run = 0 /\ NoReview.docs = <<>> /\ NoReview.status = "idle" /\ NoReview.report = 0
  /\ NoJob.kind = "none" /\ NoStart.run = 0 /\ NoStart.step = "idle"
BY DEF NoReview, Review, Statuses, NoJob, Job, AnyCaller, NoStart, Start

LEMMA StaysAsItIs ==
  ASSUME NEW rs, RunsTyped(rs)
  PROVE  GoOn(rs, rs, 0)
BY DEF GoOn

LEMMA OnceGoesOn ==
  ASSUME NEW rs, RunsTyped(rs), Once(rs), NEW ns, NEW k, GoOn(rs, ns, k)
  PROVE  Once(ns)
<1>. SUFFICES ASSUME NEW i \in 1..Len(rs), NEW j \in 1..Len(rs), i < j,
                     ns[i].acceptance = ns[j].acceptance, ns[i].status \in Reviewed
              PROVE  FALSE
  BY DEF Once, GoOn
<1>1. Len(rs) \in Nat
  BY RunsRead
<1>2. i # Len(rs)
  BY <1>1
<1>3. rs[i].acceptance = rs[j].acceptance /\ rs[i].status \in Reviewed
  BY <1>2 DEF GoOn
<1>. QED
  BY <1>3 DEF Once

LEMMA NoJobIsCurrent ==
  ASSUME NEW rv, NEW rs
  PROVE  JobIsCurrent(rv, rs, NoJob)
BY ConstantsTyped DEF JobIsCurrent

LEMMA ReviewEnds ==
  ASSUME RInv, NEW ns, GoOn(runs, ns, 0), review.docs = <<>>
  PROVE  Newest(NoReview, ns) /\ DocsStored(NoReview, ns) /\ Once(ns)
<1>1. Once(ns)
  BY OnceGoesOn DEF RInv, Typed
<1>2. Newest(NoReview, ns)
  BY ConstantsTyped DEF Newest
<1>3. Len(runs) \in Nat
  BY RunsRead DEF RInv, Typed
<1>4. ASSUME NEW i \in 1..Len(runs) PROVE DocsOver(ns[i].docs)
  <2>1. ns[i].docs = runs[i].docs
    BY <1>3 DEF GoOn
  <2>2. CASE i = review.run
    <3>1. runs[i].docs = <<>>
      BY <2>2, <1>3 DEF RInv, DocsStored
    <3>. QED
      BY <2>1, <3>1 DEF DocsOver
  <2>3. CASE i # review.run
    BY <2>1, <2>3 DEF RInv, DocsStored
  <2>. QED
    BY <2>2, <2>3
<1>. QED
  BY <1>1, <1>2, <1>4, ConstantsTyped DEF DocsStored, GoOn

LEMMA ReviewStays ==
  ASSUME RInv, NEW ns, GoOn(runs, ns, 0), NEW rv, rv.run = review.run, rv.docs = review.docs,
         rv = NoReview <=> review = NoReview,
         rv.docs # <<>> => rv.status \in {"documenting", "failed"}
  PROVE  Newest(rv, ns) /\ DocsStored(rv, ns) /\ Once(ns)
<1>1. Once(ns)
  BY OnceGoesOn DEF RInv, Typed
<1>2. Newest(rv, ns)
  BY DEF RInv, Newest, GoOn
<1>3. Len(runs) \in Nat
  BY RunsRead DEF RInv, Typed
<1>4. ASSUME NEW i \in 1..Len(runs) PROVE ns[i].docs = runs[i].docs
  BY <1>3 DEF GoOn
<1>5. rv.run # 0 => rv.run \in 1..Len(runs)
  BY <1>3 DEF RInv, Newest
<1>. QED
  BY <1>1, <1>2, <1>4, <1>5 DEF RInv, DocsStored, GoOn

LEMMA ReviewStores ==
  ASSUME RInv, NEW ns, NEW rv, rv.run = Len(runs), Len(runs) # 0, GoOn(runs, ns, rv.run),
         rv # NoReview, ns[rv.run].docs = rv.docs, rv.docs # <<>> => rv.status \in {"documenting", "failed"}
  PROVE  Newest(rv, ns) /\ DocsStored(rv, ns) /\ Once(ns)
<1>1. Once(ns)
  BY OnceGoesOn DEF RInv, Typed
<1>2. Newest(rv, ns)
  BY DEF RInv, Newest, GoOn
<1>3. ASSUME NEW i \in 1..Len(runs), i # rv.run PROVE DocsOver(ns[i].docs)
  <2>1. i # review.run
    BY <1>3, RunsRead DEF RInv, Newest, Typed
  <2>. QED
    BY <1>3, <2>1 DEF GoOn, RInv, DocsStored
<1>. QED
  BY <1>1, <1>2, <1>3 DEF DocsStored, GoOn

LEMMA DocsEnd ==
  ASSUME RInv, NEW ns, Len(runs) # 0, GoOn(runs, ns, Len(runs)), DocsOver(ns[Len(runs)].docs)
  PROVE  Newest(NoReview, ns) /\ DocsStored(NoReview, ns) /\ Once(ns)
<1>1. Once(ns)
  BY OnceGoesOn DEF RInv, Typed
<1>2. Newest(NoReview, ns)
  BY ConstantsTyped DEF Newest
<1>3. ASSUME NEW i \in 1..Len(runs), i # Len(runs) PROVE DocsOver(ns[i].docs)
  <2>1. i # review.run
    BY <1>3, RunsRead DEF RInv, Newest, Typed
  <2>. QED
    BY <1>3, <2>1 DEF GoOn, RInv, DocsStored
<1>. QED
  BY <1>1, <1>2, <1>3, ConstantsTyped DEF DocsStored, GoOn
(***************************************************************************)
(* The operations that store the review and go on.                         *)
(***************************************************************************)
\* How hooks, starts and the marker follow the end of an operation.
Resumes(caller) ==
  /\ \/ hook' = hook
     \/ caller \in Agents /\ \/ hook' = [hook EXCEPT ![caller].step = "marker"]
                             \/ hook' = [hook EXCEPT ![caller] = NoHook]
  /\ \/ start' = start
     \/ caller \in Callers /\ \/ start' = [start EXCEPT ![caller].step = "check"]
                              \/ start' = [start EXCEPT ![caller] = NoStart]
  /\ UNCHANGED marker \/ CompleteWaiting(review'.status)
\* The documents go on, or are over.
DocsMove(n) == \/ review' = NoReview
               \/ review'.run = n /\ review'.status \in {"documenting", "failed"}
Stored == review' \in Review /\ job' \in Job /\ RunsTyped(runs') /\ RGood(review', runs', job')

\* How the active review moves on: it goes, it has documents to be written or
\* fails, it goes on collecting, a dispatch stores the one it has read, or a
\* new one begins.
Moved ==
  \/ review' = review \/ review' = NoReview
  \/ review'.run = review.run /\ review'.status \in {"documenting", "failed"}
  \/ /\ review.status = "collecting" /\ review'.run = review.run
     /\ review'.status \in {"collecting", "reviewing"}
  \/ /\ job.kind = "draft" /\ review'.run = job.review.run
     /\ review'.status \in {"collecting", "failed"}
  \/ review'.run = Len(runs) + 1 /\ review'.status = "collecting"
\* The review a proposal is asked for.
JobMoved ==
  job'.kind = "draft" => \/ job' = job
                         \/ job'.review.run = review.run /\ review.status = "collecting"
                         \/ job'.review.run = Len(runs) + 1
Operates(caller) ==
  Stored /\ Resumes(caller) /\ Moved /\ JobMoved /\ Len(runs) =< Len(runs')

LEMMA OperationsResume ==
  ASSUME NEW caller
  PROVE  /\ Continue(caller) => Resumes(caller) /\ job' = NoJob
         /\ Abort(caller) => Resumes(caller) /\ job' = NoJob
         /\ \A kind, rv : Dispatch(caller, kind, rv) =>
              Resumes(caller) /\ job' = [caller |-> caller, kind |-> kind, review |-> rv]
<1>1. Continue(caller) => Resumes(caller) /\ job' = NoJob
  BY DEF Continue, Goes, Resumes
<1>2. Abort(caller) => Resumes(caller) /\ job' = NoJob
  BY DEF Abort, Resumes
<1>3. \A kind, rv : Dispatch(caller, kind, rv) =>
        Resumes(caller) /\ job' = [caller |-> caller, kind |-> kind, review |-> rv]
  BY DEF Dispatch, Resumes
<1>. QED
  BY <1>1, <1>2, <1>3

LEMMA Persisted ==
  ASSUME RInv, NEW rv \in Review, rv.run = Len(runs), Len(runs) # 0,
         rv.status \in {"documenting", "failed"}, Persist(rv)
  PROVE  /\ review' = rv /\ RunsTyped(runs') /\ GoOn(runs, runs', rv.run)
         /\ Newest(review', runs') /\ DocsStored(review', runs') /\ Once(runs')
<1>1. rv.docs \in Seq(Doc) /\ RunsTyped(runs) /\ Len(runs) \in Nat /\ rv # NoReview
  BY RunsRead, ConstantsTyped DEF Review, RInv, Typed
<1>2. runs' = PutDocs(runs, rv.run, rv.docs) /\ review' = rv
  BY DEF Persist, PutDocs
<1>3. /\ RunsTyped(runs') /\ Len(runs') = Len(runs)
      /\ \A i \in 1..Len(runs) : /\ runs'[i].docs = IF i = rv.run THEN rv.docs ELSE runs[i].docs
                                 /\ runs'[i].acceptance = runs[i].acceptance
                                 /\ runs'[i].status = runs[i].status
  BY <1>1, <1>2, RunStores
<1>4. GoOn(runs, runs', rv.run) /\ runs'[rv.run].docs = rv.docs
  BY <1>1, <1>3 DEF GoOn
<1>5. rv.docs # <<>> => rv.status \in {"documenting", "failed"}
  OBVIOUS
<1>6. Newest(rv, runs') /\ DocsStored(rv, runs') /\ Once(runs')
  BY <1>1, <1>4, <1>5, ReviewStores
<1>. QED
  BY <1>2, <1>3, <1>4, <1>6

LEMMA DocsFinished ==
  ASSUME RInv, NEW caller \in AnyCaller, NEW rv \in Review, rv.run = Len(runs), Len(runs) # 0,
         CurrentDoc(rv.docs) = 0, FinishDocs(caller, rv)
  PROVE  Stored /\ Resumes(caller) /\ DocsMove(Len(runs)) /\ job' = NoJob /\ Len(runs') = Len(runs)
<1>1. rv.docs \in Seq(Doc) /\ RunsTyped(runs) /\ Len(runs) \in Nat
  BY RunsRead DEF Review, RInv, Typed
<1>2. \A i \in DOMAIN rv.docs : rv.docs[i].status \in {"completed", "failed"}
  BY <1>1, CurrentDocFinds
<1>3. Resumes(caller) /\ job' = NoJob
  BY OperationsResume DEF FinishDocs
<1>4. CASE \E i \in DOMAIN rv.docs : rv.docs[i].status = "failed"
  <2>. DEFINE failed == [rv EXCEPT !.status = "failed"]
  <2>1. failed \in Review /\ failed.run = Len(runs) /\ failed.status = "failed"
    BY DEF Review, Statuses
  <2>2. Persist(failed)
    BY <1>4 DEF FinishDocs
  <2>. HIDE DEF failed
  <2>3. /\ review' = failed /\ RunsTyped(runs') /\ Len(runs') = Len(runs)
        /\ Newest(review', runs') /\ DocsStored(review', runs') /\ Once(runs')
    BY <2>1, <2>2, Persisted DEF GoOn
  <2>. QED
    BY <1>3, <2>1, <2>3, NoJobIsCurrent, ConstantsTyped DEF Stored, RGood, DocsMove
<1>5. CASE ~ \E i \in DOMAIN rv.docs : rv.docs[i].status = "failed"
  <2>1. DocsOver(rv.docs)
    BY <1>2, <1>5 DEF DocsOver
  <2>2. review' = NoReview /\ runs' = PutDocs(runs, rv.run, rv.docs)
    BY <1>5 DEF FinishDocs, PutDocs
  <2>3. /\ RunsTyped(runs') /\ Len(runs') = Len(runs)
        /\ \A i \in 1..Len(runs) : /\ runs'[i].docs = IF i = rv.run THEN rv.docs ELSE runs[i].docs
                                   /\ runs'[i].acceptance = runs[i].acceptance
                                   /\ runs'[i].status = runs[i].status
    BY <1>1, <2>2, RunStores
  <2>4. GoOn(runs, runs', Len(runs))
    BY <1>1, <2>3 DEF GoOn
  <2>6. Len(runs) \in 1..Len(runs)
    BY <1>1
  <2>7. DocsOver(runs'[Len(runs)].docs)
    BY <2>1, <2>3, <2>6
  <2>5. Newest(NoReview, runs') /\ DocsStored(NoReview, runs') /\ Once(runs')
    BY <2>4, <2>7, DocsEnd
  <2>. QED
    BY <1>3, <2>2, <2>3, <2>5, NoJobIsCurrent, ConstantsTyped DEF Stored, RGood, DocsMove
<1>. QED
  BY <1>4, <1>5

\* A document is assigned: its dispatch has read what is stored.
LEMMA DocAssigned ==
  ASSUME RInv, NEW caller \in AnyCaller, NEW rv \in Review, rv.run = Len(runs), Len(runs) # 0,
         rv.status = "documenting", CurrentDoc(rv.docs) # 0, Persist(rv), Dispatch(caller, "doc", rv)
  PROVE  /\ Stored /\ Resumes(caller) /\ DocsMove(Len(runs)) /\ job'.kind = "doc"
         /\ Len(runs') = Len(runs)
<1>1. /\ review' = rv /\ RunsTyped(runs') /\ Len(runs') = Len(runs)
      /\ Newest(review', runs') /\ DocsStored(review', runs') /\ Once(runs')
  BY Persisted DEF GoOn
<1>2. Resumes(caller) /\ job' = [caller |-> caller, kind |-> "doc", review |-> rv]
  BY OperationsResume
<1>3. job' \in Job
  BY <1>2 DEF Job
<1>4. JobIsCurrent(review', runs', job')
  BY <1>1, <1>2 DEF JobIsCurrent
<1>. QED
  BY <1>1, <1>2, <1>3, <1>4 DEF Stored, RGood, DocsMove

LEMMA DocsDispatched ==
  ASSUME RInv, NEW caller \in AnyCaller, NEW rv \in Review, rv.run = Len(runs), Len(runs) # 0,
         rv.status = "documenting", DispatchDocs(caller, rv)
  PROVE  /\ Stored /\ Resumes(caller) /\ DocsMove(Len(runs)) /\ job'.kind \in {"none", "doc"}
         /\ Len(runs') = Len(runs)
<1>. DEFINE i == CurrentDoc(rv.docs)
            queued == [rv EXCEPT !.docs[i] = Queued(rv.docs[i])]
<1>1. rv.docs \in Seq(Doc)
  BY DEF Review
<1>2. CASE i = 0
  BY <1>2, DocsFinished, ConstantsTyped DEF DispatchDocs
<1>3. CASE i # 0 /\ rv.docs[i].status \in {"running", "resolving"} /\ Busy(DocRole(rv.docs[i]))
  <2>1. Persist(rv) /\ Continue(caller)
    BY <1>3 DEF DispatchDocs
  <2>2. /\ review' = rv /\ RunsTyped(runs') /\ Len(runs') = Len(runs)
        /\ Newest(review', runs') /\ DocsStored(review', runs') /\ Once(runs')
    BY <2>1, Persisted DEF GoOn
  <2>. QED
    BY <2>1, <2>2, OperationsResume, NoJobIsCurrent, ConstantsTyped DEF Stored, RGood, DocsMove
<1>4. CASE i # 0 /\ ~(rv.docs[i].status \in {"running", "resolving"} /\ Busy(DocRole(rv.docs[i])))
  <2>1. Persist(queued) /\ Dispatch(caller, "doc", queued)
    BY <1>4 DEF DispatchDocs
  <2>2. i \in 1..Len(rv.docs) /\ rv.docs[i] \in Doc
    BY <1>1, <1>4, CurrentDocFinds
  <2>3. Queued(rv.docs[i]) \in Doc /\ Queued(rv.docs[i]).status \in {"waiting", "pending"}
    BY <2>2 DEF Queued, Doc
  <2>4. /\ queued \in Review /\ queued.run = rv.run /\ queued.status = rv.status
        /\ queued.docs = [rv.docs EXCEPT ![i] = Queued(rv.docs[i])]
    BY <1>1, <2>2, <2>3 DEF Review
  <2>5. queued.docs \in Seq(Doc) /\ queued.docs[i].status \in {"waiting", "pending"}
        /\ i \in 1..Len(queued.docs)
    BY <1>1, <2>2, <2>3, <2>4
  <2>6. CurrentDoc(queued.docs) # 0
    BY <2>5, CurrentDocFinds
  <2>. HIDE DEF queued
  <2>. QED
    BY <2>1, <2>4, <2>6, DocAssigned
<1>. QED
  BY <1>2, <1>3, <1>4
(***************************************************************************)
(* Discards, failures, and what an operation reads.                        *)
(***************************************************************************)
RestTyped == /\ start \in [Callers -> Start] /\ result.plan \in Seq(Roles \cup {NoRole})
             /\ acceptance \in Nat /\ inbox \subseteq Nat /\ reported \in Nat

LEMMA StoredIsKept ==
  /\ RInv => RestTyped
  /\ Stored /\ RestTyped' => RInv'
BY DEF RInv, Typed, RestTyped, Stored, RGood

LEMMA StartsResumed ==
  ASSUME RInv, NEW caller, Resumes(caller)
  PROVE  start' \in [Callers -> Start]
<1>1. start \in [Callers -> Start]
  BY DEF RInv, Typed
<1>2. CASE start' = start
  BY <1>1, <1>2
<1>3. CASE caller \in Callers /\ start' = [start EXCEPT ![caller].step = "check"]
  <2>1. start[caller] \in Start
    BY <1>1, <1>3
  <2>2. [start[caller] EXCEPT !.step = "check"] \in Start
    BY <2>1 DEF Start
  <2>. QED
    BY <1>1, <1>3, <2>2
<1>4. CASE caller \in Callers /\ start' = [start EXCEPT ![caller] = NoStart]
  BY <1>1, <1>4, ConstantsTyped
<1>. QED
  BY <1>2, <1>3, <1>4 DEF Resumes

LEMMA ReviewIsLast ==
  ASSUME RInv
  PROVE  /\ review \in Review /\ Len(runs) \in Nat /\ RunsTyped(runs)
         /\ review # NoReview => review.run = Len(runs) /\ Len(runs) # 0
         /\ review.status # "idle" => review # NoReview
         /\ review.docs # <<>> => review.status \in {"documenting", "failed"}
<1>1. review \in Review /\ Len(runs) \in Nat /\ RunsTyped(runs)
  BY RunsRead DEF RInv, Typed
<1>2. review # NoReview => review.run = Len(runs) /\ Len(runs) # 0
  BY <1>1 DEF RInv, Newest, Review
<1>3. review.status # "idle" => review # NoReview
  BY ConstantsTyped
<1>. QED
  BY <1>1, <1>2, <1>3 DEF RInv, DocsStored

LEMMA DocsOperate ==
  ASSUME RInv, NEW caller, Stored, Resumes(caller), DocsMove(Len(runs)), Len(runs') = Len(runs),
         job'.kind \in {"none", "doc"}, review # NoReview
  PROVE  Operates(caller)
<1>1. review.run = Len(runs) /\ Len(runs) \in Nat
  BY ReviewIsLast
<1>2. Moved
  BY <1>1 DEF Moved, DocsMove
<1>3. JobMoved
  BY DEF JobMoved
<1>. QED
  BY <1>1, <1>2, <1>3 DEF Operates

LEMMA UnlockedOperates ==
  ASSUME RInv, NEW caller, Stored, Resumes(caller), job' = NoJob, Len(runs') = Len(runs), Moved
  PROVE  Operates(caller)
<1>1. Len(runs) \in Nat
  BY ReviewIsLast
<1>2. JobMoved
  BY ConstantsTyped DEF JobMoved
<1>. QED
  BY <1>1, <1>2 DEF Operates

LEMMA NoDocsAreOver == CurrentDoc(<<>>) = 0
<1>1. <<>> \in Seq(Doc) /\ Len(<<>>) = 0
  OBVIOUS
<1>2. ASSUME NEW docs, docs \in Seq(Doc), Len(docs) = 0 PROVE CurrentDoc(docs) = 0
  <2>1. CurrentDoc(docs) \in 0..0
    BY <1>2, CurrentDocFinds
  <2>. QED
    BY <2>1
<1>. QED
  BY <1>1, <1>2

(* discardActiveReview                                                     *)
Discarded == /\ review' = NoReview /\ runs' = PutStatus(runs, review.run, "removed")
             /\ review.docs = <<>> /\ review # NoReview
             /\ ~(review.status = "reviewing" /\ review.report # 0)

LEMMA DiscardIsDiscarded ==
  /\ Discardable(review) /\ Discard => Discarded
  /\ DiscardIfOff => Discarded \/ (review' = review /\ runs' = runs)
BY DEF Discardable, Discard, Discarded, DiscardIfOff, Preserved, PutStatus, reviewVars

LEMMA DiscardKeeps ==
  ASSUME RInv, Discarded
  PROVE  /\ review' \in Review /\ RunsTyped(runs') /\ Len(runs') = Len(runs)
         /\ RGood(review', runs', job) /\ RGood(review', runs', NoJob)
<1>1. /\ RunsTyped(runs') /\ Len(runs') = Len(runs)
      /\ \A i \in 1..Len(runs) :
           /\ runs'[i].status = IF i = review.run THEN "removed" ELSE runs[i].status
           /\ runs'[i].acceptance = runs[i].acceptance /\ runs'[i].docs = runs[i].docs
  <2>1. "removed" \in RunStatuses
    BY DEF RunStatuses
  <2>. QED
    BY <2>1, ReviewIsLast, RunChanges DEF Discarded
<1>2. GoOn(runs, runs', 0)
  BY <1>1 DEF GoOn, Reviewed
<1>3. Newest(review', runs') /\ DocsStored(review', runs') /\ Once(runs')
  BY <1>2, ReviewEnds DEF Discarded
<1>4. JobIsCurrent(review', runs', job)
  <2>1. job.kind # "doc"
    BY NoDocsAreOver DEF RInv, JobIsCurrent, Discarded
  <2>2. Len(runs) # 0 => Len(runs) \in 1..Len(runs)
    BY ReviewIsLast
  <2>3. job.kind = "draft" => runs'[Len(runs')].docs = <<>>
    BY <1>1, <2>2 DEF RInv, JobIsCurrent
  <2>. QED
    BY <1>1, <2>1, <2>3 DEF RInv, JobIsCurrent, Discarded
<1>. QED
  BY <1>1, <1>3, <1>4, NoJobIsCurrent, ConstantsTyped DEF RGood, Discarded

LEMMA FailKeeps ==
  ASSUME RInv, NEW caller, NEW rv \in Review, rv.run = Len(runs), Len(runs) # 0,
         rv.docs = runs[Len(runs)].docs, Fail(caller, rv)
  PROVE  /\ Stored /\ Resumes(caller) /\ Len(runs') = Len(runs) /\ job' = NoJob
         /\ review'.run = rv.run /\ review'.status = "failed" /\ review'.docs = rv.docs
<1>. DEFINE failed == [rv EXCEPT !.status = "failed"]
<1>1. /\ failed \in Review /\ failed.run = rv.run /\ failed.status = "failed"
      /\ failed.docs = rv.docs
  BY DEF Review, Statuses
<1>2. review' = failed
  BY DEF Fail
<1>3. runs' = runs \/ runs' = PutStatus(runs, rv.run, "failed")
  BY DEF Fail, PutStatus
<1>4. Resumes(caller) /\ job' = NoJob
  BY OperationsResume DEF Fail
<1>. HIDE DEF failed
<1>5. RunsTyped(runs) /\ Len(runs) \in Nat
  BY ReviewIsLast
<1>6. GoOn(runs, runs', rv.run) /\ runs'[rv.run].docs = rv.docs
  <2>1. CASE runs' = runs
    BY <1>5, <2>1 DEF GoOn
  <2>2. CASE runs' = PutStatus(runs, rv.run, "failed")
    <3>1. "failed" \in RunStatuses /\ "failed" \notin Reviewed
      BY DEF RunStatuses, Reviewed
    <3>2. /\ RunsTyped(runs') /\ Len(runs') = Len(runs)
          /\ \A i \in 1..Len(runs) :
               /\ runs'[i].status = IF i = rv.run THEN "failed" ELSE runs[i].status
               /\ runs'[i].acceptance = runs[i].acceptance /\ runs'[i].docs = runs[i].docs
      BY <1>5, <2>2, <3>1, RunChanges
    <3>3. GoOn(runs, runs', rv.run)
      BY <3>1, <3>2 DEF GoOn
    <3>. QED
      BY <1>5, <3>2, <3>3
  <2>. QED
    BY <1>3, <2>1, <2>2
<1>7. failed # NoReview
  BY <1>1, ConstantsTyped
<1>8. Newest(failed, runs') /\ DocsStored(failed, runs') /\ Once(runs')
  BY <1>1, <1>6, <1>7, ReviewStores
<1>. QED
  BY <1>1, <1>2, <1>4, <1>6, <1>8, NoJobIsCurrent, ConstantsTyped DEF Stored, RGood, GoOn

(* The review is stored with another progress.                             *)
LEMMA ProgressKeeps ==
  ASSUME RInv, NEW rv \in Review, rv.run = Len(runs), Len(runs) # 0, rv.docs = runs[Len(runs)].docs,
         rv.docs # <<>> => rv.status \in {"documenting", "failed"}, review' = rv, runs' = runs
  PROVE  /\ review' \in Review /\ RunsTyped(runs') /\ Newest(review', runs')
         /\ DocsStored(review', runs') /\ Once(runs')
<1>1. GoOn(runs, runs, rv.run) /\ RunsTyped(runs)
  BY ReviewIsLast DEF GoOn
<1>2. rv # NoReview
  BY ConstantsTyped
<1>3. Newest(rv, runs) /\ DocsStored(rv, runs) /\ Once(runs)
  BY <1>1, <1>2, ReviewStores
<1>. QED
  BY <1>1, <1>3

(* What is stored while nobody holds the lock.                             *)
LEMMA UnlockedKeeps ==
  ASSUME RInv, review' = review, runs' = runs, job' = NoJob
  PROVE  Stored /\ Len(runs') = Len(runs)
<1>1. review' \in Review /\ job' \in Job /\ RunsTyped(runs')
  BY ReviewIsLast, ConstantsTyped
<1>2. Newest(review', runs') /\ DocsStored(review', runs') /\ Once(runs')
  BY DEF RInv
<1>. QED
  BY <1>1, <1>2, NoJobIsCurrent DEF Stored, RGood

LEMMA OthersKeep ==
  ASSUME RInv, review' = review, runs' = runs, job' = job
  PROVE  Stored /\ Len(runs') = Len(runs)
<1>1. review' \in Review /\ job' \in Job /\ RunsTyped(runs')
  BY ReviewIsLast DEF RInv, Typed
<1>. QED
  BY <1>1 DEF Stored, RGood, RInv
LEMMA DiscardOperates ==
  ASSUME RInv, NEW caller, DiscardIfOff, Resumes(caller), job' = NoJob
  PROVE  Operates(caller)
<1>1. CASE Discarded
  <2>1. Stored /\ Len(runs') = Len(runs) /\ review' = NoReview
    BY <1>1, DiscardKeeps, ConstantsTyped DEF Stored, Discarded
  <2>. QED
    BY <2>1, UnlockedOperates DEF Moved
<1>2. CASE review' = review /\ runs' = runs
  BY <1>2, UnlockedKeeps, UnlockedOperates DEF Moved
<1>. QED
  BY <1>1, <1>2, DiscardIsDiscarded

(***************************************************************************)
(* The operations that reconcile a task.                                   *)
(***************************************************************************)

LEMMA CallersDiffer ==
  /\ Callers \subseteq AnyCaller /\ "request" \in AnyCaller /\ Roles \subseteq AnyCaller
  /\ HE \in AnyCaller /\ HE \notin Callers /\ HE # "request" /\ HE \notin Roles
  /\ Callers \cap Agents = {} /\ "request" \notin Agents /\ "request" \notin Callers
  /\ NoRole \notin Agents
BY RolesAssumption DEF Callers, AnyCaller, Agents

\* createRun: the new review is that of the new run.
LEMMA ReviewBegins ==
  ASSUME RInv, RestTyped, review = NoReview, ~Completed(acceptance),
         NEW caller \in Callers,
         NEW rv, rv = [NoReview EXCEPT !.run = Len(runs) + 1, !.status = "collecting"],
         runs' = Append(runs, NewRun), review' = rv, Dispatch(caller, "draft", rv)
  PROVE  Stored /\ Resumes(caller) /\ Len(runs') = Len(runs) + 1 /\ job'.kind = "draft"
         /\ job'.review = rv
<1>1. RunsTyped(runs) /\ Len(runs) \in Nat
  BY ReviewIsLast
<1>2. /\ RunsTyped(runs') /\ Len(runs') = Len(runs) + 1
      /\ runs'[Len(runs) + 1].status = "collecting" /\ runs'[Len(runs) + 1].docs = <<>>
      /\ runs'[Len(runs) + 1].acceptance = acceptance
      /\ \A i \in 1..Len(runs) : runs'[i] = runs[i]
  <2>. DEFINE new == [status |-> "collecting", acceptance |-> acceptance, before |-> memory,
                      after |-> memory, docs |-> <<>>]
              ns == Append(runs, new)
  <2>1. /\ RunsTyped(ns) /\ Len(ns) = Len(runs) + 1 /\ ns[Len(runs) + 1] = new
        /\ \A i \in 1..Len(runs) : ns[i] = runs[i]
    BY <1>1, RunIsAppended
  <2>2. runs' = ns
    BY DEF NewRun
  <2>3. new.status = "collecting" /\ new.docs = <<>> /\ new.acceptance = acceptance
    OBVIOUS
  <2>. HIDE DEF new, ns
  <2>. QED
    BY <2>1, <2>2, <2>3
<1>3. /\ rv \in Review /\ rv.run = Len(runs) + 1 /\ rv.status = "collecting" /\ rv.docs = <<>>
      /\ rv # NoReview
  <2>1. rv = [run |-> Len(runs) + 1, status |-> "collecting", done |-> 0, sent |-> FALSE,
              report |-> 0, docs |-> <<>>]
    BY DEF NoReview
  <2>2. Len(runs) + 1 \in Nat /\ Len(runs) + 1 # 0 /\ 0 \in Nat /\ <<>> \in Seq(Doc)
        /\ "collecting" \in Statuses
    BY <1>1 DEF Statuses
  <2>. QED
    BY <2>1, <2>2, ConstantsTyped DEF Review
<1>4. Newest(rv, runs')
  BY <1>1, <1>2, <1>3 DEF Newest
<1>5. DocsStored(rv, runs')
  <2>1. ASSUME NEW i \in 1..Len(runs'), i # rv.run PROVE DocsOver(runs'[i].docs)
    <3>1. i \in 1..Len(runs) /\ i # 0
      BY <1>1, <1>2, <1>3, <2>1
    <3>2. review.run = 0
      BY ConstantsTyped
    <3>. QED
      BY <1>2, <3>1, <3>2 DEF RInv, DocsStored
  <2>. QED
    BY <1>2, <1>3, <2>1 DEF DocsStored
<1>6. Once(runs')
  <2>. SUFFICES ASSUME NEW i \in 1..Len(runs'), NEW j \in 1..Len(runs'), i < j,
                       runs'[i].acceptance = runs'[j].acceptance, runs'[i].status \in Reviewed
                PROVE  FALSE
    BY DEF Once
  <2>1. i \in 1..Len(runs) /\ runs'[i] = runs[i]
    BY <1>1, <1>2
  <2>2. CASE j = Len(runs) + 1
    <3>1. runs[i].acceptance = acceptance /\ runs[i].status \in {"applied", "reverted"}
      BY <1>2, <2>1, <2>2 DEF Reviewed
    <3>2. i \in DOMAIN runs
      BY <1>1, <2>1, RunsRead
    <3>. QED
      BY <3>1, <3>2 DEF Completed
  <2>3. CASE j # Len(runs) + 1
    <3>1. j \in 1..Len(runs)
      BY <1>1, <1>2, <2>3
    <3>2. runs'[j] = runs[j]
      BY <1>2, <3>1
    <3>. QED
      BY <2>1, <3>1, <3>2 DEF RInv, Once
  <2>. QED
    BY <2>2, <2>3
<1>7. Resumes(caller) /\ job' = [caller |-> caller, kind |-> "draft", review |-> rv]
  BY OperationsResume
<1>8. job' \in Job
  BY <1>3, <1>7, CallersDiffer DEF Job
<1>9. JobIsCurrent(rv, runs', job')
  <2>1. /\ job'.kind = "draft" /\ job'.review = rv /\ job'.caller # HE
        /\ Len(runs') # 0 /\ rv.run = Len(runs')
    BY <1>1, <1>2, <1>3, <1>7, CallersDiffer
  <2>2. runs'[Len(runs')].docs = <<>>
    BY <1>2
  <2>. QED
    BY <1>3, <2>1, <2>2 DEF JobIsCurrent
<1>. QED
  BY <1>2, <1>3, <1>4, <1>5, <1>6, <1>7, <1>8, <1>9 DEF Stored, RGood

\* dispatchCurrentDraft, for a review that still collects proposals.
LEMMA DraftAssigned ==
  ASSUME RInv, NEW caller \in AnyCaller, caller # HE,
         NEW rv \in Review, rv.run = Len(runs), Len(runs) # 0,
         rv.docs = <<>>, rv.status = "collecting", review.docs = <<>>, review # NoReview,
         review' = rv, runs' = runs, Dispatch(caller, "draft", rv)
  PROVE  Stored /\ Resumes(caller) /\ job'.kind = "draft" /\ job'.review = rv
<1>1. runs[Len(runs)].docs = <<>>
  BY ReviewIsLast DEF RInv, DocsStored
<1>2. /\ review' \in Review /\ RunsTyped(runs') /\ Newest(review', runs')
      /\ DocsStored(review', runs') /\ Once(runs')
  BY <1>1, ProgressKeeps
<1>3. Resumes(caller) /\ job' = [caller |-> caller, kind |-> "draft", review |-> rv]
  BY OperationsResume
<1>4. job' \in Job
  BY <1>3 DEF Job
<1>5. JobIsCurrent(review', runs', job')
  BY <1>1, <1>3 DEF JobIsCurrent
<1>. QED
  BY <1>2, <1>3, <1>4, <1>5 DEF Stored, RGood

LEMMA ReconcileOperates ==
  ASSUME RInv, NEW caller \in Callers, Reconcile(caller)
  PROVE  Operates(caller)
<1>1. RestTyped /\ review \in Review /\ Len(runs) \in Nat
  BY StoredIsKept, ReviewIsLast
<1>2. caller \in AnyCaller /\ caller # HE
  BY CallersDiffer DEF Callers
<1>3. CASE review.status = "documenting"
  <2>1. DispatchDocs(caller, review)
    BY <1>3 DEF Reconcile
  <2>2. review.run = Len(runs) /\ Len(runs) # 0 /\ review # NoReview
    BY <1>3, ReviewIsLast
  <2>3. /\ Stored /\ Resumes(caller) /\ DocsMove(Len(runs)) /\ job'.kind \in {"none", "doc"}
        /\ Len(runs') = Len(runs)
    BY <1>1, <1>2, <1>3, <2>1, <2>2, DocsDispatched
  <2>. QED
    BY <2>2, <2>3, DocsOperate
<1>4. CASE review.status = "collecting" /\ enabled /\ ~review.sent
  <2>1. Dispatch(caller, "draft", review) /\ review' = review /\ runs' = runs
    BY <1>4 DEF Reconcile, reviewVars
  <2>2. /\ review.run = Len(runs) /\ Len(runs) # 0 /\ review.docs = <<>>
        /\ review # NoReview
    BY <1>4, ReviewIsLast
  <2>3. Stored /\ Resumes(caller) /\ job'.kind = "draft" /\ job'.review = review
    BY <1>1, <1>2, <1>4, <2>1, <2>2, DraftAssigned
  <2>. QED
    BY <1>1, <1>4, <2>1, <2>3 DEF Operates, Moved, JobMoved
<1>5. CASE /\ review.status # "documenting"
           /\ ~(review.status = "collecting" /\ enabled /\ ~review.sent)
           /\ enabled /\ BeginsReview(caller)
  <2>. DEFINE rv == [NoReview EXCEPT !.run = Len(runs) + 1, !.status = "collecting"]
  <2>1. runs' = Append(runs, NewRun) /\ review' = rv /\ Dispatch(caller, "draft", rv)
    BY <1>5 DEF Reconcile
  <2>2. review = NoReview /\ ~Completed(acceptance)
    BY <1>5 DEF BeginsReview
  <2>3. rv.run = Len(runs) + 1 /\ rv.status = "collecting"
    BY DEF NoReview
  <2>. HIDE DEF rv
  <2>4. Stored /\ Resumes(caller) /\ Len(runs') = Len(runs) + 1 /\ job'.review = rv
    BY <1>1, <2>1, <2>2, ReviewBegins DEF rv
  <2>. QED
    BY <1>1, <2>1, <2>3, <2>4 DEF Operates, Moved, JobMoved
<1>6. CASE /\ review.status # "documenting"
           /\ ~(review.status = "collecting" /\ enabled /\ ~review.sent)
           /\ ~(enabled /\ BeginsReview(caller))
  <2>1. DiscardIfOff /\ Continue(caller)
    BY <1>6 DEF Reconcile
  <2>2. Resumes(caller) /\ job' = NoJob
    BY <2>1, OperationsResume
  <2>. QED
    BY <2>1, <2>2, DiscardOperates
<1>. QED
  BY <1>3, <1>4, <1>5, <1>6

LEMMA ReconcileKeeps ==
  ASSUME RInv, NEW caller \in Callers, Reconcile(caller)
  PROVE  RInv'
<1>1. RestTyped
  BY StoredIsKept
<1>3. Stored /\ Resumes(caller)
  BY ReconcileOperates DEF Operates
<1>4. start' \in [Callers -> Start]
  BY <1>3, StartsResumed
<1>5. result' = result \/ result' = NoResult
  <2>1. CASE review.status = "documenting"
    BY <2>1 DEF Reconcile, workVars
  <2>2. CASE review.status # "documenting" /\ review.status = "collecting" /\ enabled /\ ~review.sent
    BY <2>2 DEF Reconcile, workVars
  <2>3. CASE /\ review.status # "documenting"
             /\ ~(review.status = "collecting" /\ enabled /\ ~review.sent)
             /\ enabled /\ BeginsReview(caller)
    BY <2>3 DEF Reconcile
  <2>4. CASE /\ review.status # "documenting"
             /\ ~(review.status = "collecting" /\ enabled /\ ~review.sent)
             /\ ~(enabled /\ BeginsReview(caller))
    BY <2>4 DEF Reconcile, workVars
  <2>. QED
    BY <2>1, <2>2, <2>3, <2>4
<1>6. result'.plan \in Seq(Roles \cup {NoRole})
  <2>1. NoResult.plan = <<>> /\ <<>> \in Seq(Roles \cup {NoRole})
    BY DEF NoResult
  <2>. QED
    BY <1>1, <1>5, <2>1 DEF RestTyped
<1>7. UNCHANGED <<inbox, acceptance, reported>>
  BY DEF Reconcile
<1>. QED
  BY <1>1, <1>3, <1>4, <1>6, <1>7, StoredIsKept DEF RestTyped
(***************************************************************************)
(* The starts of a retrospective, and the dispatches.                      *)
(***************************************************************************)
LEMMA StartsChange ==
  ASSUME RInv, NEW c \in Callers, NEW st \in Start, start' = [start EXCEPT ![c] = st]
  PROVE  start' \in [Callers -> Start]
BY DEF RInv, Typed

LEMMA ChecksKeeps ==
  ASSUME RInv, NEW caller \in Callers, Checks(caller)
  PROVE  RInv'
<1>1. RestTyped
  BY StoredIsKept
<1>2. review' = review /\ runs' = runs /\ job' = job /\ UNCHANGED <<inbox, acceptance, reported, result>>
  BY DEF Checks, reviewVars, retroVars, worldVars, workVars
<1>3. Stored
  BY <1>2, OthersKeep
<1>4. start' \in [Callers -> Start]
  <2>. DEFINE st == [NoStart EXCEPT !.step = "prepare", !.acceptance = acceptance]
  <2>1. st \in Start
    BY <1>1 DEF NoStart, Start, RestTyped
  <2>2. start' = [start EXCEPT ![caller] = st] \/ start' = [start EXCEPT ![caller] = NoStart]
    BY DEF Checks, GivesUp
  <2>. HIDE DEF st
  <2>. QED
    BY <2>1, <2>2, StartsChange, ConstantsTyped
<1>. QED
  BY <1>1, <1>2, <1>3, <1>4, StoredIsKept DEF RestTyped

\* The review of a retrospective is noted in it while the review waits for it.
LEMMA ReportNoted ==
  ASSUME RInv, review.status = "reviewing", NEW a \in Nat,
         review' = [review EXCEPT !.report = a], runs' = runs, job' = job
  PROVE  /\ Stored /\ review'.run = review.run /\ review'.status = "reviewing"
         /\ review'.report = a /\ review'.docs = <<>>
<1>1. /\ review \in Review /\ review.run = Len(runs) /\ Len(runs) # 0 /\ review.docs = <<>>
      /\ Len(runs) \in Nat /\ review # NoReview
  BY ReviewIsLast
<1>. DEFINE rv == [review EXCEPT !.report = a]
<1>2. /\ rv \in Review /\ rv.run = review.run /\ rv.docs = <<>> /\ rv.status = "reviewing"
      /\ rv.report = a
  BY <1>1 DEF Review
<1>. HIDE DEF rv
<1>3. runs[Len(runs)].docs = <<>>
  BY <1>1 DEF RInv, DocsStored
<1>4. review' = rv
  BY DEF rv
<1>5. /\ review' \in Review /\ RunsTyped(runs') /\ Newest(review', runs')
      /\ DocsStored(review', runs') /\ Once(runs')
  BY <1>1, <1>2, <1>3, <1>4, ProgressKeeps
<1>6. job = NoJob
  BY ConstantsTyped, <1>1 DEF RInv, JobIsCurrent, Typed, Job
<1>. QED
  BY <1>2, <1>4, <1>5, <1>6, NoJobIsCurrent, ConstantsTyped DEF Stored, RGood

LEMMA PreparesKeeps ==
  ASSUME RInv, NEW caller \in Callers, Prepares(caller)
  PROVE  RInv'
<1>1. RestTyped /\ review \in Review
  BY StoredIsKept, ReviewIsLast
<1>. DEFINE st == [start[caller] EXCEPT !.step = "ask", !.items = inbox,
                                        !.run = IF enabled /\ review # NoReview THEN review.run ELSE 0]
<1>2. start[caller] \in Start
  BY <1>1 DEF RestTyped
<1>3. st \in Start
  BY <1>1, <1>2 DEF Start, Review, RestTyped
<1>4. runs' = runs /\ job' = job /\ UNCHANGED <<inbox, acceptance, reported, result>>
  BY DEF Prepares, retroVars, worldVars, workVars
<1>5. \/ start' = [start EXCEPT ![caller] = NoStart] /\ review' = review
      \/ start' = [start EXCEPT ![caller] = st] /\ review' = review
      \/ /\ start' = [start EXCEPT ![caller] = st] /\ review.status = "reviewing"
         /\ review' = [review EXCEPT !.report = start[caller].acceptance]
  BY DEF Prepares, GivesUp
<1>. HIDE DEF st
<1>6. start' \in [Callers -> Start]
  BY <1>3, <1>5, StartsChange, ConstantsTyped
<1>7. Stored
  <2>1. CASE review' = review
    BY <1>4, <2>1, OthersKeep
  <2>2. CASE review.status = "reviewing" /\ review' = [review EXCEPT !.report = start[caller].acceptance]
    <3>1. start[caller].acceptance \in Nat
      BY <1>2 DEF Start
    <3>. QED
      BY <1>4, <2>2, <3>1, ReportNoted
  <2>. QED
    BY <1>5, <2>1, <2>2
<1>. QED
  BY <1>1, <1>4, <1>6, <1>7, StoredIsKept DEF RestTyped

LEMMA AsksKeeps ==
  ASSUME RInv, NEW caller \in Callers, Asks(caller)
  PROVE  RInv'
<1>1. RestTyped
  BY StoredIsKept
<1>2. start' \in [Callers -> Start]
  BY StartsChange, ConstantsTyped DEF Asks, GivesUp
<1>3. runs' = runs /\ job' = job /\ UNCHANGED <<inbox, acceptance, reported, result>>
  BY DEF Asks, worldVars, workVars
<1>4. review' = review \/ (review.status = "reviewing" /\ review' = [review EXCEPT !.report = 0])
  BY DEF Asks
<1>5. Stored
  BY <1>3, <1>4, OthersKeep, ReportNoted
<1>. QED
  BY <1>1, <1>2, <1>3, <1>5, StoredIsKept DEF RestTyped

\* What the dispatch under way has read.
LEMMA JobReads ==
  ASSUME RInv, ~Unlocked
  PROVE  /\ job.review \in Review /\ job.review.run = Len(runs) /\ Len(runs) # 0
         /\ job.caller \in AnyCaller /\ job.kind \in {"draft", "doc"}
         /\ job.review.docs = runs[Len(runs)].docs
         /\ job.kind = "doc" => /\ review = job.review /\ job.review.status = "documenting"
                                /\ CurrentDoc(job.review.docs) \in 1..Len(job.review.docs)
                                /\ job.review.docs \in Seq(Doc)
         /\ job.kind = "draft" => /\ job.review.status = "collecting" /\ job.review.docs = <<>>
                                  /\ job.caller # HE
<1>1. job \in Job /\ JobIsCurrent(review, runs, job)
  BY DEF RInv, Typed
<1>2. /\ job.review \in Review /\ job.review.run = Len(runs) /\ Len(runs) # 0
      /\ job.caller \in AnyCaller /\ job.kind \in {"draft", "doc"}
  BY <1>1 DEF Job, JobIsCurrent, Unlocked
<1>3. CASE job.kind = "draft"
  BY <1>1, <1>2, <1>3 DEF JobIsCurrent
<1>4. CASE job.kind = "doc"
  <2>1. review = job.review /\ review.status = "documenting" /\ CurrentDoc(review.docs) # 0
    BY <1>1, <1>4 DEF JobIsCurrent
  <2>2. review.docs \in Seq(Doc)
    BY <1>2, <2>1 DEF Review
  <2>3. CurrentDoc(review.docs) \in 0..Len(review.docs) /\ Len(review.docs) \in Nat
    BY <2>2, CurrentDocFinds
  <2>4. CurrentDoc(review.docs) \in 1..Len(review.docs)
    BY <2>1, <2>3
  <2>5. runs[review.run].docs = review.docs
    BY <1>2, <2>1 DEF RInv, DocsStored
  <2>. QED
    BY <1>2, <1>4, <2>1, <2>2, <2>4, <2>5
<1>. QED
  BY <1>2, <1>3, <1>4

LEMMA RestUnchanged ==
  ASSUME RInv, Stored, start' \in [Callers -> Start], UNCHANGED <<inbox, acceptance, reported, result>>
  PROVE  RInv'
BY StoredIsKept DEF RestTyped

LEMMA JobSubmitsOperates ==
  ASSUME RInv, JobSubmits
  PROVE  Operates(job.caller)
<1>. DEFINE rv == job.review
            i == CurrentDoc(rv.docs)
<1>1. ~Unlocked /\ Continue(job.caller)
  BY DEF JobSubmits
<1>2. /\ rv \in Review /\ rv.run = Len(runs) /\ Len(runs) # 0 /\ rv.docs = runs[Len(runs)].docs
      /\ job.kind \in {"draft", "doc"}
  BY <1>1, JobReads
<1>3. Resumes(job.caller) /\ job' = NoJob
  BY <1>1, OperationsResume
<1>5. CASE review' = review /\ runs' = runs
  BY <1>3, <1>5, UnlockedKeeps, UnlockedOperates DEF Moved
<1>6. CASE job.kind = "draft" /\ review' = [rv EXCEPT !.sent = TRUE] /\ runs' = runs
  <2>. DEFINE sent == [rv EXCEPT !.sent = TRUE]
  <2>1. /\ sent \in Review /\ sent.run = rv.run /\ sent.run = Len(runs) /\ sent.docs = rv.docs
        /\ sent.docs = <<>> /\ sent.status = "collecting"
    BY <1>1, <1>2, <1>6, JobReads DEF Review
  <2>2. review' = sent
    BY <1>6
  <2>. HIDE DEF sent
  <2>3. /\ review' \in Review /\ RunsTyped(runs') /\ Newest(review', runs')
        /\ DocsStored(review', runs') /\ Once(runs')
    BY <1>2, <1>6, <2>1, <2>2, ProgressKeeps
  <2>4. Stored
    BY <1>3, <2>3, NoJobIsCurrent, ConstantsTyped DEF Stored, RGood
  <2>5. Moved
    BY <1>6, <2>1, <2>2 DEF Moved
  <2>. QED
    BY <1>3, <1>6, <2>4, <2>5, UnlockedOperates
<1>7. CASE job.kind = "doc" /\ \E s \in {"resolving", "running"} : Persist([rv EXCEPT !.docs[i].status = s])
  <2>1. PICK s \in {"resolving", "running"} : Persist([rv EXCEPT !.docs[i].status = s])
    BY <1>7
  <2>2. rv.docs \in Seq(Doc) /\ i \in 1..Len(rv.docs) /\ rv.status = "documenting"
    BY <1>1, <1>7, JobReads
  <2>. DEFINE next == [rv EXCEPT !.docs[i].status = s]
  <2>3. rv.docs[i] \in Doc
    BY <2>2
  <2>4. [rv.docs[i] EXCEPT !.status = s] \in Doc
    BY <2>3 DEF Doc
  <2>5. next \in Review /\ next.run = rv.run /\ next.status = "documenting"
    BY <1>2, <2>2, <2>4 DEF Review
  <2>6. Persist(next)
    BY <2>1
  <2>. HIDE DEF next
  <2>7. /\ review' = next /\ RunsTyped(runs') /\ Len(runs') = Len(runs)
        /\ Newest(review', runs') /\ DocsStored(review', runs') /\ Once(runs')
    BY <1>2, <2>5, <2>6, Persisted DEF GoOn
  <2>8. Stored
    BY <1>3, <2>5, <2>7, NoJobIsCurrent, ConstantsTyped DEF Stored, RGood
  <2>9. review = rv
    BY <1>1, <1>7, JobReads
  <2>10. Moved
    BY <2>5, <2>7, <2>9 DEF Moved
  <2>. QED
    BY <1>3, <2>7, <2>8, <2>10, UnlockedOperates
<1>8. \/ review' = review /\ runs' = runs
      \/ job.kind = "draft" /\ review' = [rv EXCEPT !.sent = TRUE] /\ runs' = runs
      \/ job.kind # "draft" /\ \E s \in {"resolving", "running"} : Persist([rv EXCEPT !.docs[i].status = s])
  BY DEF JobSubmits, reviewVars
<1>. QED
  BY <1>2, <1>5, <1>6, <1>7, <1>8

LEMMA DocReplaced ==
  ASSUME NEW rv \in Review, NEW i \in 1..Len(rv.docs), NEW d \in Doc
  PROVE  LET next == [rv EXCEPT !.docs[i] = d]
         IN next \in Review /\ next.run = rv.run /\ next.status = rv.status
BY DEF Review

LEMMA JobFailsOperates ==
  ASSUME RInv, JobFails
  PROVE  Operates(job.caller)
<1>. DEFINE rv == job.review
            i == CurrentDoc(rv.docs)
            failed == [rv EXCEPT !.docs[i].status = "failed"]
<1>1. ~Unlocked
  BY DEF JobFails
<1>2. /\ rv \in Review /\ rv.run = Len(runs) /\ Len(runs) # 0 /\ rv.docs = runs[Len(runs)].docs
      /\ job.kind \in {"draft", "doc"} /\ job.caller \in AnyCaller
  BY <1>1, JobReads
<1>3. \/ job.kind = "draft" /\ Fail(job.caller, rv)
      \/ job.kind # "draft" /\ CurrentDoc(failed.docs) = 0 /\ FinishDocs(job.caller, failed)
      \/ /\ job.kind # "draft" /\ CurrentDoc(failed.docs) # 0
         /\ Persist(failed) /\ Dispatch(job.caller, "doc", failed)
  BY DEF JobFails
<1>4. job.kind # "draft" => failed \in Review /\ failed.run = Len(runs) /\ failed.status = "documenting"
  <2>1. SUFFICES ASSUME job.kind # "draft"
                 PROVE  failed \in Review /\ failed.run = Len(runs) /\ failed.status = "documenting"
    OBVIOUS
  <2>2. rv.docs \in Seq(Doc) /\ i \in 1..Len(rv.docs) /\ rv.status = "documenting"
    BY <1>1, <1>2, <2>1, JobReads
  <2>3. rv.docs[i] \in Doc
    BY <2>2
  <2>. DEFINE d == [rv.docs[i] EXCEPT !.status = "failed"]
  <2>4. d \in Doc
    BY <2>3 DEF Doc
  <2>a. failed = [rv EXCEPT !.docs[i] = d]
    OBVIOUS
  <2>. HIDE DEF d, failed
  <2>5. failed \in Review /\ failed.run = rv.run /\ failed.status = rv.status
    BY <1>2, <2>2, <2>4, <2>a, DocReplaced
  <2>. QED
    BY <1>2, <2>2, <2>5
<1>. HIDE DEF failed
<1>5. CASE job.kind = "draft" /\ Fail(job.caller, rv)
  <2>1. /\ Stored /\ Resumes(job.caller) /\ Len(runs') = Len(runs) /\ job' = NoJob
        /\ review'.run = rv.run /\ review'.status = "failed"
    BY <1>2, <1>5, FailKeeps
  <2>2. Moved
    BY <1>5, <2>1 DEF Moved
  <2>. QED
    BY <2>1, <2>2, UnlockedOperates
<1>6. CASE job.kind # "draft" /\ CurrentDoc(failed.docs) = 0 /\ FinishDocs(job.caller, failed)
  <2>1. /\ Stored /\ Resumes(job.caller) /\ DocsMove(Len(runs)) /\ job'.kind = "none"
        /\ Len(runs') = Len(runs)
    BY <1>2, <1>4, <1>6, DocsFinished, ConstantsTyped
  <2>2. review # NoReview
    BY <1>1, <1>2, <1>6, JobReads, ConstantsTyped
  <2>. QED
    BY <2>1, <2>2, DocsOperate
<1>7. CASE /\ job.kind # "draft" /\ CurrentDoc(failed.docs) # 0
           /\ Persist(failed) /\ Dispatch(job.caller, "doc", failed)
  <2>1. /\ Stored /\ Resumes(job.caller) /\ DocsMove(Len(runs)) /\ job'.kind = "doc"
        /\ Len(runs') = Len(runs)
    BY <1>2, <1>4, <1>7, DocAssigned
  <2>2. review # NoReview
    BY <1>1, <1>2, <1>7, JobReads, ConstantsTyped
  <2>. QED
    BY <2>1, <2>2, DocsOperate
<1>. QED
  BY <1>3, <1>5, <1>6, <1>7

LEMMA JobStepsKeep ==
  ASSUME RInv, JobSubmits \/ JobFails
  PROVE  RInv'
<1>1. Operates(job.caller)
  BY JobSubmitsOperates, JobFailsOperates
<1>2. UNCHANGED <<inbox, acceptance, reported, result>>
  <2>1. CASE JobSubmits
    BY <2>1 DEF JobSubmits, workVars, worldVars
  <2>2. CASE JobFails
    BY <2>2 DEF JobFails, workVars
  <2>. QED
    BY <2>1, <2>2
<1>3. start' \in [Callers -> Start]
  BY <1>1, StartsResumed DEF Operates
<1>. QED
  BY <1>1, <1>2, <1>3, RestUnchanged DEF Operates

(***************************************************************************)
(* The hooks.                                                              *)
(***************************************************************************)
\* The review goes on, and its run with it, unless the run is gone.
LEMMA StatusKeeps ==
  ASSUME RInv, NEW rv \in Review, rv.run = Len(runs), Len(runs) # 0, rv.docs = runs[Len(runs)].docs,
         rv.docs # <<>> => rv.status \in {"documenting", "failed"}, review' = rv,
         NEW s \in RunStatuses \ Reviewed, runs' = runs \/ runs' = PutStatus(runs, rv.run, s)
  PROVE  /\ review' \in Review /\ RunsTyped(runs') /\ Newest(review', runs')
         /\ DocsStored(review', runs') /\ Once(runs') /\ Len(runs') = Len(runs)
<1>1. RunsTyped(runs) /\ Len(runs) \in Nat
  BY ReviewIsLast
<1>2. GoOn(runs, runs', rv.run) /\ runs'[rv.run].docs = rv.docs
  <2>1. CASE runs' = runs
    BY <1>1, <2>1 DEF GoOn
  <2>2. CASE runs' = PutStatus(runs, rv.run, s)
    <3>1. /\ RunsTyped(runs') /\ Len(runs') = Len(runs)
          /\ \A i \in 1..Len(runs) :
               /\ runs'[i].status = IF i = rv.run THEN s ELSE runs[i].status
               /\ runs'[i].acceptance = runs[i].acceptance /\ runs'[i].docs = runs[i].docs
      BY <1>1, <2>2, RunChanges
    <3>2. GoOn(runs, runs', rv.run)
      BY <3>1 DEF GoOn
    <3>. QED
      BY <1>1, <3>1, <3>2
  <2>. QED
    BY <2>1, <2>2
<1>3. rv # NoReview
  BY ConstantsTyped
<1>4. Newest(rv, runs') /\ DocsStored(rv, runs') /\ Once(runs')
  BY <1>2, <1>3, ReviewStores
<1>. QED
  BY <1>2, <1>4 DEF GoOn

LEMMA DraftHookOperates ==
  ASSUME RInv, NEW r \in Roles, Unlocked, DraftHook(r)
  PROVE  Operates(r)
<1>0. r \in AnyCaller /\ r # HE
  BY RolesAssumption, CallersDiffer
<1>1. CASE UNCHANGED reviewVars /\ Continue(r)
  <2>1. review' = review /\ runs' = runs
    BY <1>1 DEF reviewVars
  <2>. QED
    BY <1>1, <2>1, OperationsResume, UnlockedKeeps, UnlockedOperates DEF Moved
<1>. DEFINE next == [review EXCEPT !.done = @ + 1, !.sent = FALSE]
            over == [next EXCEPT !.status = "reviewing"]
<1>2. CASE review.status = "collecting"
  <2>1. /\ review \in Review /\ review.run = Len(runs) /\ Len(runs) # 0 /\ review.docs = <<>>
        /\ review # NoReview /\ Len(runs) \in Nat
    BY <1>2, ReviewIsLast
  <2>2. runs[Len(runs)].docs = <<>>
    BY <2>1 DEF RInv, DocsStored
  <2>3. CASE Fail(r, review)
    <3>1. /\ Stored /\ Resumes(r) /\ Len(runs') = Len(runs) /\ job' = NoJob
          /\ review'.run = review.run /\ review'.status = "failed"
      BY <2>1, <2>2, <2>3, FailKeeps
    <3>. QED
      BY <3>1, UnlockedOperates DEF Moved
  <2>4. /\ next \in Review /\ next.run = review.run /\ next.docs = <<>>
        /\ next.status = "collecting"
    <3>. DEFINE n1 == [review EXCEPT !.done = @ + 1]
    <3>1. /\ n1 \in Review /\ n1.run = review.run /\ n1.docs = <<>>
          /\ n1.status = "collecting"
      BY <1>2, <2>1 DEF Review
    <3>2. next = [n1 EXCEPT !.sent = FALSE]
      OBVIOUS
    <3>. HIDE DEF n1, next
    <3>. QED
      BY <3>1, <3>2 DEF Review
  <2>5. /\ over \in Review /\ over.run = review.run /\ over.docs = <<>>
        /\ over.status = "reviewing"
    BY <2>4 DEF Review, Statuses
  <2>6. CASE review' = next /\ UNCHANGED runs /\ Dispatch(r, "draft", next)
    <3>. HIDE DEF next
    <3>1. Stored /\ Resumes(r) /\ job'.review = next
      BY <1>0, <2>1, <2>4, <2>6, DraftAssigned
    <3>. QED
      BY <1>2, <2>1, <2>4, <2>6, <3>1 DEF Operates, Moved, JobMoved
  <2>7. CASE /\ review' = over /\ (Continue(r) \/ Abort(r))
             /\ runs' = runs \/ runs' = [runs EXCEPT ![next.run].status = "reviewing"]
    <3>1. next.run = over.run
      BY <2>4, <2>5
    <3>. HIDE DEF next, over
    <3>2. runs' = runs \/ runs' = PutStatus(runs, over.run, "reviewing")
      BY <2>7, <3>1 DEF PutStatus
    <3>3. "reviewing" \in RunStatuses \ Reviewed
      BY DEF RunStatuses, Reviewed
    <3>4. /\ review' \in Review /\ RunsTyped(runs') /\ Newest(review', runs')
          /\ DocsStored(review', runs') /\ Once(runs') /\ Len(runs') = Len(runs)
      BY <2>1, <2>2, <2>5, <2>7, <3>2, <3>3, StatusKeeps
    <3>5. Resumes(r) /\ job' = NoJob
      BY <2>7, OperationsResume
    <3>6. Stored
      BY <3>4, <3>5, NoJobIsCurrent, ConstantsTyped DEF Stored, RGood
    <3>. QED
      BY <1>2, <2>5, <2>7, <3>4, <3>5, <3>6, UnlockedOperates DEF Moved
  <2>8. \/ UNCHANGED reviewVars /\ Continue(r)
        \/ Fail(r, review)
        \/ review' = next /\ UNCHANGED runs /\ Dispatch(r, "draft", next)
        \/ /\ review' = over /\ (Continue(r) \/ Abort(r))
           /\ runs' = runs \/ runs' = [runs EXCEPT ![next.run].status = "reviewing"]
    <3>1. CASE ~(review.status = "collecting" /\ Drafter(review) = r)
      BY <3>1 DEF DraftHook
    <3>2. CASE review.status = "collecting" /\ Drafter(review) = r /\ (hook[r].event = "failure" \/ ~draft)
      BY <3>2 DEF DraftHook
    <3>3. CASE /\ review.status = "collecting" /\ Drafter(review) = r
               /\ ~(hook[r].event = "failure" \/ ~draft)
      <4>1. CASE next.done < Len(Drafters)
        BY <3>3, <4>1 DEF DraftHook
      <4>2. CASE ~(next.done < Len(Drafters))
        BY <3>3, <4>2 DEF DraftHook
      <4>. QED
        BY <4>1, <4>2
    <3>. QED
      BY <3>1, <3>2, <3>3
  <2>. QED
    BY <1>1, <2>3, <2>6, <2>7, <2>8
<1>3. CASE review.status # "collecting"
  BY <1>1, <1>3 DEF DraftHook
<1>. QED
  BY <1>2, <1>3

LEMMA DocHookOperates ==
  ASSUME RInv, NEW r \in Roles, Unlocked, DocHook(r), review.status = "documenting"
  PROVE  Operates(r)
<1>0. r \in AnyCaller
  BY CallersDiffer
<1>. DEFINE i == CurrentDoc(review.docs)
            doc == review.docs[i]
            Given(d) == [review EXCEPT !.docs[i] = d]
<1>1. CASE UNCHANGED reviewVars /\ Continue(r)
  <2>1. review' = review /\ runs' = runs
    BY <1>1 DEF reviewVars
  <2>. QED
    BY <1>1, <2>1, OperationsResume, UnlockedKeeps, UnlockedOperates DEF Moved
<1>2. /\ review \in Review /\ review.run = Len(runs) /\ Len(runs) # 0 /\ review.docs \in Seq(Doc)
      /\ review # NoReview
  BY ReviewIsLast DEF Review
<1>3. ASSUME i # 0, NEW d \in Doc, DispatchDocs(r, Given(d)) PROVE Operates(r)
  <2>1. i \in 1..Len(review.docs)
    BY <1>2, <1>3, CurrentDocFinds
  <2>2. Given(d) \in Review /\ Given(d).run = review.run /\ Given(d).status = review.status
    BY <1>2, <2>1 DEF Review
  <2>. HIDE DEF Given
  <2>3. /\ Stored /\ Resumes(r) /\ DocsMove(Len(runs)) /\ job'.kind \in {"none", "doc"}
        /\ Len(runs') = Len(runs)
    BY <1>0, <1>2, <1>3, <2>2, DocsDispatched
  <2>. QED
    BY <1>2, <2>3, DocsOperate
<1>4. \/ UNCHANGED reviewVars /\ Continue(r)
      \/ i # 0 /\ DispatchDocs(r, Given([doc EXCEPT !.status = "failed"]))
      \/ i # 0 /\ DispatchDocs(r, Given([owner |-> doc.choice, choice |-> NoRole, status |-> "pending"]))
      \/ i # 0 /\ DispatchDocs(r, Given([doc EXCEPT !.status =
                                           IF Documented(i) THEN "completed" ELSE "failed"]))
  BY Zenon DEF DocHook
<1>5. ASSUME i # 0
      PROVE  /\ [doc EXCEPT !.status = "failed"] \in Doc
             /\ [owner |-> doc.choice, choice |-> NoRole, status |-> "pending"] \in Doc
             /\ [doc EXCEPT !.status = IF Documented(i) THEN "completed" ELSE "failed"] \in Doc
  <2>1. i \in 1..Len(review.docs)
    BY <1>2, <1>5, CurrentDocFinds
  <2>2. doc \in Doc
    BY <1>2, <2>1
  <2>. HIDE DEF doc
  <2>. QED
    BY <2>2 DEF Doc
<1>. HIDE DEF i, doc, Next
<1>. QED
  BY <1>1, <1>3, <1>4, <1>5

LEMMA RoleHookOperates ==
  ASSUME RInv, NEW r, RoleHook(r)
  PROVE  Operates(r)
<1>1. r \in Roles /\ Unlocked
  BY DEF RoleHook
<1>2. CASE Discardable(review)
  <2>1. DiscardIfOff /\ Continue(r)
    BY <1>2 DEF RoleHook, DiscardIfOff
  <2>. QED
    BY <2>1, DiscardOperates, OperationsResume
<1>3. CASE ~Discardable(review) /\ review.status = "documenting"
  BY <1>1, <1>3, DocHookOperates DEF RoleHook
<1>4. CASE ~Discardable(review) /\ review.status # "documenting"
  BY <1>1, <1>4, DraftHookOperates DEF RoleHook
<1>. QED
  BY <1>2, <1>3, <1>4

LEMMA RoleHookKeeps ==
  ASSUME RInv, NEW r, RoleHook(r)
  PROVE  RInv'
<1>1. UNCHANGED <<inbox, acceptance, reported, result>>
  BY DEF RoleHook, worldVars
<1>2. Stored /\ Resumes(r)
  BY RoleHookOperates DEF Operates
<1>3. start' \in [Callers -> Start]
  BY <1>2, StartsResumed
<1>. QED
  BY <1>1, <1>2, <1>3, RestUnchanged

\* recordHarnessEngineerMemoryResult: the documents of the result are assigned.
LEMMA ResultKeeps ==
  ASSUME RInv, Unlocked, review.status = "reviewing", RecordResult(review)
  PROVE  /\ Stored /\ Resumes(HE) /\ Len(runs') = Len(runs)
         /\ DocsMove(Len(runs)) /\ job'.kind \in {"none", "doc"}
<1>. DEFINE docs == Assigned(result.plan)
            next == [review EXCEPT !.status = "documenting", !.docs = docs]
<1>1. /\ review \in Review /\ review.run = Len(runs) /\ Len(runs) # 0 /\ review.docs = <<>>
      /\ Len(runs) \in Nat /\ RunsTyped(runs) /\ Len(runs) \in 1..Len(runs)
  BY ReviewIsLast
<1>2. docs \in Seq(Doc) /\ \A i \in DOMAIN docs : docs[i].status \in {"waiting", "pending"}
  <2>. DEFINE plan == result.plan
              Draw(i) == Queued([owner |-> plan[i], choice |-> NoRole, status |-> "pending"])
  <2>1. plan \in Seq(Roles \cup {NoRole})
    BY DEF RInv, Typed
  <2>2. \A i \in 1..Len(plan) : Draw(i) \in Doc /\ Draw(i).status \in {"waiting", "pending"}
    BY <2>1 DEF Doc, Queued
  <2>3. docs = [i \in 1..Len(plan) |-> Draw(i)] /\ Len(plan) \in Nat
    BY <2>1 DEF Assigned
  <2>. HIDE DEF Draw, docs, plan
  <2>4. docs \in [1..Len(plan) -> Doc]
    BY <2>2, <2>3
  <2>. QED
    BY <2>2, <2>3, <2>4
<1>3. next \in Review /\ next.run = review.run /\ next.status = "documenting" /\ next.docs = docs
  BY <1>1, <1>2 DEF Review, Statuses
<1>4. /\ RunsTyped(runs') /\ Len(runs') = Len(runs)
      /\ \A i \in 1..Len(runs) :
           /\ runs'[i].docs = IF i = review.run THEN docs ELSE runs[i].docs
           /\ runs'[i].acceptance = runs[i].acceptance
           /\ runs'[i].status = IF i = review.run THEN "applied" ELSE runs[i].status
  <2>1. runs' = PutResult(runs, review.run, docs, memory)
    BY DEF RecordResult, PutResult
  <2>. HIDE DEF docs
  <2>. QED
    BY <1>1, <1>2, <2>1, RunIsApplied
<1>5. GoOn(runs, runs', Len(runs)) /\ runs'[Len(runs)].docs = docs
  BY <1>1, <1>4 DEF GoOn
<1>6. \/ docs = <<>> /\ review' = NoReview /\ Continue(HE)
      \/ docs # <<>> /\ review' = next /\ Dispatch(HE, "doc", next)
  BY DEF RecordResult
<1>. HIDE DEF next, docs
<1>7. CASE docs = <<>> /\ review' = NoReview /\ Continue(HE)
  <2>1. DocsOver(docs)
    BY <1>7 DEF DocsOver
  <2>2. Newest(NoReview, runs') /\ DocsStored(NoReview, runs') /\ Once(runs')
    BY <1>1, <1>5, <2>1, DocsEnd
  <2>3. Resumes(HE) /\ job' = NoJob
    BY <1>7, OperationsResume
  <2>. QED
    BY <1>4, <1>7, <2>2, <2>3, NoJobIsCurrent, ConstantsTyped DEF Stored, RGood, DocsMove
<1>8. CASE docs # <<>> /\ review' = next /\ Dispatch(HE, "doc", next)
  <2>1. CurrentDoc(docs) # 0
    <3>1. 1 \in 1..Len(docs) /\ 1 \in DOMAIN docs
      BY <1>2, <1>8
    <3>2. docs[1].status \notin {"completed", "failed"}
      BY <1>2, <3>1
    <3>. QED
      BY <1>2, <3>1, <3>2, CurrentDocFinds
  <2>2. next # NoReview
    BY <1>3, ConstantsTyped
  <2>3. Newest(next, runs') /\ DocsStored(next, runs') /\ Once(runs')
    BY <1>1, <1>3, <1>5, <2>2, ReviewStores
  <2>4. Resumes(HE) /\ job' = [caller |-> HE, kind |-> "doc", review |-> next]
    BY <1>8, OperationsResume
  <2>5. job' \in Job
    BY <1>3, <2>4, CallersDiffer DEF Job
  <2>6. JobIsCurrent(next, runs', job')
    BY <1>1, <1>3, <1>4, <2>1, <2>4 DEF JobIsCurrent
  <2>. QED
    BY <1>1, <1>3, <1>4, <1>8, <2>3, <2>4, <2>5, <2>6 DEF Stored, RGood, DocsMove
<1>. QED
  BY <1>6, <1>7, <1>8

LEMMA EngineerHookOperates ==
  ASSUME RInv, EngineerHook
  PROVE  /\ Operates(HE)
         /\ \/ review'.status # "reviewing"
            \/ review' = review /\ review.report = 0
<1>1. \/ Discardable(review) /\ Discard /\ Continue(HE)
      \/ ~(review.status = "reviewing" /\ review.report # 0) /\ UNCHANGED reviewVars /\ Continue(HE)
      \/ review.status = "reviewing" /\ RecordResult(review)
      \/ review.status = "reviewing" /\ Fail(HE, review)
  BY DEF EngineerHook
<1>2. CASE Discardable(review) /\ Discard /\ Continue(HE)
  <2>1. review' = NoReview /\ DiscardIfOff
    BY <1>2 DEF Discard, DiscardIfOff
  <2>. QED
    BY <1>2, <2>1, DiscardOperates, OperationsResume, ConstantsTyped
<1>3. CASE /\ ~(review.status = "reviewing" /\ review.report # 0)
           /\ UNCHANGED reviewVars /\ Continue(HE)
  <2>1. review' = review /\ runs' = runs
    BY <1>3 DEF reviewVars
  <2>. QED
    BY <1>3, <2>1, OperationsResume, UnlockedKeeps, UnlockedOperates DEF Moved
<1>4. CASE review.status = "reviewing" /\ RecordResult(review)
  <2>1. Unlocked
    BY DEF EngineerHook
  <2>2. /\ Stored /\ Resumes(HE) /\ Len(runs') = Len(runs) /\ DocsMove(Len(runs))
        /\ job'.kind \in {"none", "doc"}
    BY <1>4, <2>1, ResultKeeps
  <2>3. review # NoReview
    BY <1>4, ReviewIsLast
  <2>. QED
    BY <2>2, <2>3, DocsOperate, ConstantsTyped DEF DocsMove
<1>5. CASE review.status = "reviewing" /\ Fail(HE, review)
  <2>1. review \in Review /\ review.run = Len(runs) /\ Len(runs) # 0
    BY <1>5, ReviewIsLast
  <2>2. review.docs = runs[Len(runs)].docs
    BY <2>1 DEF RInv, DocsStored
  <2>3. /\ Stored /\ Resumes(HE) /\ Len(runs') = Len(runs) /\ job' = NoJob
        /\ review'.run = review.run /\ review'.status = "failed"
    BY <1>5, <2>1, <2>2, FailKeeps
  <2>. QED
    BY <2>3, UnlockedOperates DEF Moved
<1>. QED
  BY <1>1, <1>2, <1>3, <1>4, <1>5

LEMMA EngineerHookKeeps ==
  ASSUME RInv, EngineerHook
  PROVE  RInv'
<1>1. UNCHANGED <<inbox, acceptance, reported, result>>
  BY DEF EngineerHook, worldVars, workVars
<1>2. Stored /\ Resumes(HE)
  BY EngineerHookOperates DEF Operates
<1>3. start' \in [Callers -> Start]
  BY <1>2, StartsResumed
<1>. QED
  BY <1>1, <1>2, <1>3, RestUnchanged

(***************************************************************************)
(* The steps of the user and of the turns.                                 *)
(***************************************************************************)
\* A step that may discard the review, whatever dispatch is under way.
LEMMA DiscardIfOffKeeps ==
  ASSUME RInv, DiscardIfOff, job' = job
  PROVE  Stored
<1>1. job' \in Job
  BY DEF RInv, Typed
<1>2. CASE Discarded
  BY <1>1, <1>2, DiscardKeeps DEF Stored
<1>3. CASE review' = review /\ runs' = runs
  BY <1>3, OthersKeep
<1>. QED
  BY <1>2, <1>3, DiscardIsDiscarded

LEMMA HookEndsKeep ==
  ASSUME RInv, EngineerHookEnds \/ \E r \in Roles : RoleHookEnds(r)
  PROVE  RInv'
<1>0. RestTyped
  BY StoredIsKept
<1>1. CASE EngineerHookEnds
  <2>1. /\ DiscardIfOff /\ job' = job /\ start' = start /\ UNCHANGED <<acceptance, reported, result>>
        /\ Retrospective(hook[HE].event)
    BY <1>1 DEF EngineerHookEnds, workVars, worldVars
  <2>2. inbox' = inbox \/ inbox' = inbox \ marker.items
    BY <2>1 DEF Retrospective, retroVars
  <2>3. inbox' \subseteq Nat
    BY <1>0, <2>2 DEF RestTyped
  <2>4. Stored
    BY <2>1, DiscardIfOffKeeps
  <2>. QED
    BY <1>0, <2>1, <2>3, <2>4, StoredIsKept DEF RestTyped
<1>2. ASSUME NEW r \in Roles, RoleHookEnds(r) PROVE RInv'
  <2>1. job' = job /\ start' = start /\ UNCHANGED <<acceptance, reported, result, inbox>>
    BY <1>2 DEF RoleHookEnds, workVars, worldVars
  <2>2. DiscardIfOff \/ (review' = review /\ runs' = runs)
    BY <1>2 DEF RoleHookEnds, reviewVars
  <2>3. Stored
    BY <2>1, <2>2, DiscardIfOffKeeps, OthersKeep
  <2>. QED
    BY <1>0, <2>1, <2>3, StoredIsKept DEF RestTyped
<1>. QED
  BY <1>1, <1>2

LEMMA TurnsKeep ==
  ASSUME RInv, \/ EngineerStops \/ \E r \in Roles : RoleStops(r)
               \/ \E r \in Agents : Takes(r) \/ TurnFails(r) \/ UserPrompts(r) \/ ProcessExits(r)
  PROVE  RInv'
<1>0. RestTyped
  BY StoredIsKept
<1>1. /\ review' = review /\ runs' = runs /\ job' = job /\ start' = start
      /\ UNCHANGED <<inbox, acceptance, reported>>
  BY DEF EngineerStops, RoleStops, TurnEnds, Takes, TurnFails, UserPrompts, ProcessExits, reviewVars,
         retroVars, worldVars, callVars
<1>2. result' = result \/ \E run, plan : plan \in Plans /\ result' = [run |-> run, plan |-> plan]
  <2>1. CASE EngineerStops
    BY <2>1 DEF EngineerStops
  <2>2. CASE ~EngineerStops
    BY <2>2 DEF RoleStops, Takes, TurnFails, UserPrompts, ProcessExits, workVars
  <2>. QED
    BY <2>1, <2>2
<1>3. result'.plan \in Seq(Roles \cup {NoRole})
  <2>1. CASE result' = result
    BY <1>0, <2>1 DEF RestTyped
  <2>2. ASSUME NEW run, NEW plan, plan \in Plans, result' = [run |-> run, plan |-> plan]
        PROVE  result'.plan \in Seq(Roles \cup {NoRole})
    BY <2>2, RolesAssumption
  <2>. QED
    BY <1>2, <2>1, <2>2
<1>4. Stored
  BY <1>1, OthersKeep
<1>. QED
  BY <1>0, <1>1, <1>3, <1>4, StoredIsKept DEF RestTyped

LEMMA ChoosesKeeps ==
  ASSUME RInv, NEW owner \in Roles, Chooses(owner)
  PROVE  RInv'
<1>0. RestTyped
  BY StoredIsKept
<1>. DEFINE i == CurrentDoc(review.docs)
            next == [review EXCEPT !.docs[i].choice = owner]
            d == [review.docs[i] EXCEPT !.choice = owner]
<1>1. /\ review \in Review /\ review.run = Len(runs) /\ Len(runs) # 0 /\ review.docs \in Seq(Doc)
      /\ review.status = "documenting" /\ job = NoJob
  BY ReviewIsLast DEF Chooses, Review, Unlocked
<1>2. review' = next /\ Persist(next) /\ review.docs[i].status = "resolving"
  BY DEF Chooses, Persist
<1>3. i \in 0..Len(review.docs) /\ Len(review.docs) \in Nat
  BY <1>1, CurrentDocFinds
<1>4. next = [review EXCEPT !.docs[i] = d]
  OBVIOUS
<1>5. i # 0 => d \in Doc /\ i \in 1..Len(review.docs)
  <2>1. i # 0 => i \in 1..Len(review.docs)
    BY <1>3
  <2>2. i # 0 => review.docs[i] \in Doc
    BY <1>1, <2>1
  <2>. QED
    BY <2>1, <2>2 DEF Doc
<1>. HIDE DEF next, d, i
<1>6. next \in Review /\ next.run = review.run /\ next.status = review.status
  <2>1. CASE i # 0
    BY <1>1, <1>4, <1>5, <2>1, DocReplaced
  <2>2. CASE i = 0
    <3>1. [review.docs EXCEPT ![0] = d] = review.docs
      BY <1>1
    <3>2. next = [review EXCEPT !.docs = review.docs]
      BY <1>4, <2>2, <3>1
    <3>. QED
      BY <1>1, <3>2 DEF Review
  <2>. QED
    BY <2>1, <2>2
<1>7. /\ review' \in Review /\ RunsTyped(runs')
      /\ Newest(review', runs') /\ DocsStored(review', runs') /\ Once(runs')
  BY <1>1, <1>2, <1>6, Persisted
<1>8. job' = NoJob /\ start' = start /\ UNCHANGED <<inbox, acceptance, reported, result>>
  BY <1>1 DEF Chooses, callVars, retroVars, worldVars, workVars
<1>9. Stored
  BY <1>7, <1>8, NoJobIsCurrent, ConstantsTyped DEF Stored, RGood
<1>. QED
  BY <1>0, <1>8, <1>9, StoredIsKept DEF RestTyped

LEMMA RetriesDocOperates ==
  ASSUME RInv, NEW i, i \in DOMAIN review.docs, RetriesDoc(i)
  PROVE  Operates("request")
<1>. DEFINE d == [Queued(review.docs[i]) EXCEPT !.choice = NoRole]
            r1 == [review EXCEPT !.status = "documenting"]
            next == [r1 EXCEPT !.docs[i] = d]
<1>1. /\ review \in Review /\ review.run = Len(runs) /\ Len(runs) # 0 /\ review.docs \in Seq(Doc)
      /\ i \in 1..Len(review.docs) /\ review # NoReview
  BY ReviewIsLast DEF RetriesDoc, Review
<1>2. DispatchDocs("request", next)
  BY DEF RetriesDoc
<1>3. d \in Doc
  <2>1. review.docs[i] \in Doc
    BY <1>1
  <2>2. Queued(review.docs[i]) \in Doc
    BY <2>1 DEF Queued, Doc
  <2>. HIDE DEF Queued
  <2>. QED
    BY <2>2 DEF Doc
<1>4. /\ r1 \in Review /\ r1.run = review.run /\ r1.status = "documenting"
      /\ r1.docs = review.docs
  BY <1>1 DEF Review, Statuses
<1>. HIDE DEF d, r1
<1>5. next \in Review /\ next.run = r1.run /\ next.status = r1.status
  BY <1>1, <1>3, <1>4, DocReplaced
<1>. HIDE DEF next
<1>6. /\ Stored /\ Resumes("request") /\ DocsMove(Len(runs)) /\ job'.kind \in {"none", "doc"}
      /\ Len(runs') = Len(runs)
  BY <1>1, <1>2, <1>4, <1>5, CallersDiffer, DocsDispatched
<1>. QED
  BY <1>1, <1>6, DocsOperate

LEMMA RetriesDocKeeps ==
  ASSUME RInv, NEW i, i \in DOMAIN review.docs, RetriesDoc(i)
  PROVE  RInv'
<1>1. Stored /\ Resumes("request")
  BY RetriesDocOperates DEF Operates
<1>2. start' = start /\ UNCHANGED <<inbox, acceptance, reported, result>>
  BY <1>1, CallersDiffer DEF RetriesDoc, workVars, Resumes
<1>. QED
  BY <1>1, <1>2, StoredIsKept DEF RestTyped

LEMMA RevertsKeeps ==
  ASSUME RInv, NEW i, i \in DOMAIN runs, Reverts(i)
  PROVE  RInv'
<1>0. RestTyped
  BY StoredIsKept
<1>. DEFINE ns == PutReverted(runs, i, review.run)
<1>1. /\ review' = NoReview /\ runs' = ns /\ job' = job /\ start' = start
      /\ UNCHANGED <<inbox, acceptance, reported, result>>
      /\ Editable /\ runs[i].status = "applied"
  BY DEF Reverts, UserFrame, callVars, retroVars, PutReverted
<1>2. /\ RunsTyped(ns) /\ Len(ns) = Len(runs)
      /\ \A k \in 1..Len(runs) :
           /\ ns[k].docs = runs[k].docs /\ ns[k].acceptance = runs[k].acceptance
           /\ ns[k].status = IF k = i THEN "reverted" ELSE IF k = review.run THEN "removed"
                             ELSE runs[k].status
  BY ReviewIsLast, RunIsReverted
<1>. HIDE DEF ns
<1>3. GoOn(runs, ns, 0)
  BY <1>1, <1>2 DEF GoOn, Reviewed
<1>4. review.docs = <<>>
  BY <1>1, ConstantsTyped DEF Editable, Discardable, Preserved
<1>5. Newest(NoReview, ns) /\ DocsStored(NoReview, ns) /\ Once(ns)
  BY <1>3, <1>4, ReviewEnds
<1>6. JobIsCurrent(NoReview, ns, job)
  <2>1. job.kind # "doc"
    BY <1>4, NoDocsAreOver DEF RInv, JobIsCurrent
  <2>2. Len(runs) # 0 => Len(runs) \in 1..Len(runs)
    BY ReviewIsLast
  <2>3. job.kind = "draft" => ns[Len(ns)].docs = <<>>
    BY <1>2, <2>2 DEF RInv, JobIsCurrent
  <2>. QED
    BY <1>2, <2>1, <2>3 DEF RInv, JobIsCurrent
<1>7. job' \in Job /\ RunsTyped(runs') /\ review' \in Review
  BY <1>1, <1>2, ConstantsTyped DEF RInv, Typed
<1>8. Stored
  BY <1>1, <1>5, <1>6, <1>7 DEF Stored, RGood
<1>. QED
  BY <1>0, <1>1, <1>8, StoredIsKept DEF RestTyped

LEMMA UsersKeep ==
  ASSUME RInv, Toggles \/ Looks \/ Accepts \/ Reports \/ RetriesReview \/ Edits \/ Restarts
  PROVE  RInv'
<1>0. RestTyped
  BY StoredIsKept
<1>1. CASE Toggles \/ Accepts \/ Reports
  <2>1. review' = review /\ runs' = runs /\ job' = job /\ start' = start /\ result' = result
    BY <1>1 DEF Toggles, Accepts, Reports, reviewVars, callVars, workVars
  <2>2. acceptance' \in Nat /\ reported' \in Nat /\ inbox' \subseteq Nat
    <3>1. CASE Toggles
      BY <1>0, <3>1 DEF Toggles, retroVars, RestTyped
    <3>2. CASE Accepts
      BY <1>0, <3>2 DEF Accepts, retroVars, RestTyped
    <3>3. CASE Reports
      BY <1>0, <3>3 DEF Reports, RestTyped
    <3>. QED
      BY <1>1, <3>1, <3>2, <3>3
  <2>3. Stored
    BY <2>1, OthersKeep
  <2>. QED
    BY <1>0, <2>1, <2>2, <2>3, StoredIsKept DEF RestTyped
<1>2. CASE Looks \/ Edits
  <2>1. /\ job' = job /\ start' = start /\ UNCHANGED <<inbox, acceptance, reported, result>>
    BY <1>2 DEF Looks, Edits, UserFrame, callVars, retroVars, workVars, worldVars
  <2>2. DiscardIfOff
    BY <1>2 DEF Looks, Edits, DiscardIfOff
  <2>3. Stored
    BY <2>1, <2>2, DiscardIfOffKeeps
  <2>. QED
    BY <1>0, <2>1, <2>3, StoredIsKept DEF RestTyped
<1>3. CASE RetriesReview
  <2>1. /\ review' = NoReview /\ runs' = runs /\ job' = job /\ start' = start
        /\ UNCHANGED <<inbox, acceptance, reported, result>>
        /\ review.status = "failed" /\ review.docs = <<>>
    BY <1>3 DEF RetriesReview, UserFrame, callVars, retroVars
  <2>2. job = NoJob
    BY <2>1, ConstantsTyped DEF RInv, JobIsCurrent, Typed, Job
  <2>3. GoOn(runs, runs, 0) /\ RunsTyped(runs)
    BY ReviewIsLast, StaysAsItIs
  <2>4. Newest(NoReview, runs) /\ DocsStored(NoReview, runs) /\ Once(runs)
    BY <2>1, <2>3, ReviewEnds
  <2>5. Stored
    BY <2>1, <2>2, <2>3, <2>4, NoJobIsCurrent, ConstantsTyped DEF Stored, RGood
  <2>. QED
    BY <1>0, <2>1, <2>5, StoredIsKept DEF RestTyped
<1>4. CASE Restarts
  <2>1. /\ review' = review /\ runs' = runs /\ job' = NoJob /\ start' = [c \in Callers |-> NoStart]
        /\ UNCHANGED <<inbox, acceptance, reported, result>>
    BY <1>4 DEF Restarts, reviewVars, retroVars, workVars
  <2>2. start' \in [Callers -> Start]
    BY <2>1, ConstantsTyped
  <2>3. Stored
    BY <2>1, UnlockedKeeps
  <2>. QED
    BY <1>0, <2>1, <2>2, <2>3, StoredIsKept DEF RestTyped
<1>. QED
  BY <1>1, <1>2, <1>3, <1>4

(***************************************************************************)
(* The stored review and its runs agree.                                   *)
(***************************************************************************)
LEMMA InitRInv == Init => RInv
<1>. SUFFICES ASSUME Init PROVE RInv
  OBVIOUS
<1>1. /\ review = NoReview /\ runs = <<>> /\ job = NoJob /\ start = [c \in Callers |-> NoStart]
      /\ inbox = {} /\ acceptance = 0 /\ reported = 0 /\ result = NoResult
  BY DEF Init
<1>2. RunsTyped(<<>>)
  BY DEF RunsTyped
<1>3. result.plan = <<>> /\ <<>> \in Seq(Roles \cup {NoRole})
  BY <1>1 DEF NoResult
<1>4. Typed
  BY <1>1, <1>2, <1>3, ConstantsTyped DEF Typed
<1>5. Newest(review, runs) /\ DocsStored(review, runs) /\ Once(runs)
  BY <1>1, ConstantsTyped DEF Newest, DocsStored, Once
<1>. QED
  BY <1>1, <1>4, <1>5, NoJobIsCurrent DEF RInv

LEMMA NextRInv ==
  ASSUME RInv, [Next]_vars
  PROVE  RInv'
<1>1. ASSUME NEW c \in Callers, StartStep(c) PROVE RInv'
  BY <1>1, ChecksKeeps, PreparesKeeps, AsksKeeps DEF StartStep
<1>2. CASE TickReconciles \/ UserAsks
  BY <1>2, ReconcileKeeps DEF TickReconciles, UserAsks, Callers
<1>3. CASE JobLaunches \/ UNCHANGED vars
  <2>1. /\ review' = review /\ runs' = runs /\ job' = job /\ start' = start
        /\ UNCHANGED <<inbox, acceptance, reported, result>>
    BY <1>3 DEF JobLaunches, vars, reviewVars, callVars, retroVars, worldVars, workVars
  <2>. QED
    BY <2>1, OthersKeep, RestUnchanged, StoredIsKept DEF RestTyped
<1>4. CASE JobSubmits \/ JobFails
  BY <1>4, JobStepsKeep
<1>5. ASSUME NEW r \in Roles, RoleStops(r) \/ HookStep(r) PROVE RInv'
  BY <1>5, TurnsKeep, RoleHookKeeps, HookEndsKeep DEF HookStep
<1>6. ASSUME NEW r \in Agents, Takes(r) \/ TurnFails(r) \/ UserPrompts(r) \/ ProcessExits(r) PROVE RInv'
  BY <1>6, TurnsKeep
<1>7. ASSUME NEW owner \in Roles, Chooses(owner) PROVE RInv'
  BY <1>7, ChoosesKeeps
<1>8. CASE EngineerStops \/ EngineerStep
  BY <1>8, TurnsKeep, EngineerHookKeeps, HookEndsKeep DEF EngineerStep
<1>9. CASE UserStep
  BY <1>2, <1>9, UsersKeep, RetriesDocKeeps, RevertsKeeps DEF UserStep
<1>10. CASE Restarts
  BY <1>10, UsersKeep
<1>. QED
  BY <1>1, <1>2, <1>3, <1>4, <1>5, <1>6, <1>7, <1>8, <1>9, <1>10 DEF Next, JobStep

THEOREM ReviewInvariant == Spec => []RInv
<1>1. RInv /\ [Next]_vars => RInv'
  BY NextRInv
<1>. QED
  BY InitRInv, <1>1, PTL DEF Spec

(* Documents whose knowledge was moved out of memory stay assigned, in the *)
(* active review, until they are written: whatever fails, is switched off, *)
(* discarded, retried or restarted (currentDurableDocAssignment,           *)
(* discardActiveReview, persistMemoryAssignmentState).                     *)
THEOREM NoDocsForgotten == Spec => []NoDocForgotten
<1>1. RInv => NoDocForgotten
  <2>. SUFFICES ASSUME RInv, NEW i \in DOMAIN runs, review.run # i
                PROVE  DocsWritten(i)
    BY DEF NoDocForgotten
  <2>1. i \in 1..Len(runs)
    BY ReviewIsLast, RunsRead
  <2>2. DocsOver(runs[i].docs)
    BY <2>1 DEF RInv, DocsStored
  <2>. QED
    BY <2>2 DEF DocsOver, DocsWritten
<1>. QED
  BY <1>1, ReviewInvariant, PTL

(* No review is begun for an acceptance that has an applied one, reverted  *)
(* or not (findCompletedRunForFinalAcceptance), and none that is under way *)
(* ends applied once another has.                                          *)
THEOREM ReviewsOnce == Spec => []ReviewedOnce
<1>1. RInv => ReviewedOnce
  <2>. SUFFICES ASSUME RInv PROVE ReviewedOnce
    OBVIOUS
  <2>1. DOMAIN runs = 1..Len(runs) /\ Once(runs)
    BY ReviewIsLast, RunsRead DEF RInv
  <2>. QED
    BY <2>1 DEF ReviewedOnce, Once, Reviewed
<1>. QED
  BY <1>1, ReviewInvariant, PTL

(* Feedback leaves the inbox only in the hook that finds it disposed of in *)
(* the report of the retrospective (getFeedbackDispositionErrors).         *)
THEOREM FeedbackDisposed == Spec => FeedbackIsDisposed
<1>. DEFINE A == [\A item \in inbox \ inbox' : item \in reports[marker.acceptance].items]_inbox
<1>1. [Next]_vars => A
  <2>. SUFFICES ASSUME [Next]_vars, NEW item \in inbox \ inbox'
                PROVE  item \in reports[marker.acceptance].items
    OBVIOUS
  <2>1. CASE EngineerHookEnds
    <3>1. Retrospective(hook[HE].event)
      BY <2>1 DEF EngineerHookEnds
    <3>2. inbox' # inbox => inbox' = inbox \ marker.items /\ Accepted(marker)
      BY <3>1 DEF Retrospective, retroVars
    <3>. QED
      BY <3>2 DEF Accepted
  <2>2. CASE ~EngineerHookEnds
    <3>1. inbox' = inbox \/ inbox \subseteq inbox'
      <4>1. CASE UNCHANGED vars
        BY <4>1 DEF vars, retroVars
      <4>2. CASE \E c \in Callers : StartStep(c)
        BY <4>2 DEF StartStep, Checks, Prepares, Asks, retroVars
      <4>3. CASE TickReconciles \/ UserAsks
        BY <4>3 DEF TickReconciles, UserAsks, Reconcile
      <4>4. CASE JobLaunches \/ JobSubmits \/ JobFails
        BY <4>4 DEF JobLaunches, JobSubmits, JobFails, retroVars
      <4>5. CASE \E r \in Roles : RoleStops(r) \/ HookStep(r)
        BY <4>5 DEF RoleStops, TurnEnds, HookStep, RoleHook, RoleHookEnds, retroVars
      <4>6. CASE \E r \in Agents : Takes(r) \/ TurnFails(r) \/ UserPrompts(r) \/ ProcessExits(r)
        BY <4>6 DEF Takes, TurnFails, TurnEnds, UserPrompts, ProcessExits, retroVars
      <4>7. CASE (\E owner \in Roles : Chooses(owner)) \/ EngineerStops \/ EngineerHook \/ Restarts
        BY <4>7 DEF Chooses, EngineerStops, TurnEnds, EngineerHook, Restarts, retroVars
      <4>8. CASE UserStep
        BY <4>3, <4>8 DEF UserStep, Toggles, Looks, Accepts, Reports, RetriesReview, Edits, RetriesDoc,
                          Reverts, retroVars
      <4>. QED
        BY <2>2, <4>1, <4>2, <4>3, <4>4, <4>5, <4>6, <4>7, <4>8 DEF Next, JobStep, EngineerStep
    <3>. QED
      BY <3>1
  <2>. QED
    BY <2>1, <2>2
<1>. QED
  BY <1>1, PTL DEF Spec, FeedbackIsDisposed
(***************************************************************************)
(* A retrospective and the review it was given.  The theorem is about a    *)
(* user and a Harness Engineer who are not faster than the backend's hooks *)
(* and starts (~Hasty); the record of the retrospective, marker, and the   *)
(* starts on their way hold runs that are no longer collecting.            *)
(***************************************************************************)
Marker == [status : {"none", "running", "waiting", "completed", "failed"}, acceptance : Nat, run : Nat,
           items : SUBSET Nat, docsFailed : BOOLEAN]
Hook == [step : {"none", "memory", "marker"}, event : {"none", "stop", "failure"}]

Marked(rv, mk) == mk.run # 0 /\ mk.run = rv.run
\* A run that no retrospective has been given.
Unused(k, mk, st) == k # 0 /\ mk.run # k /\ \A c \in Callers : st[c].run # k
Fresh(rv, mk, st, jb, n) ==
  /\ mk.run =< n /\ \A c \in Callers : st[c].run =< n
  /\ rv.status = "collecting" => Unused(rv.run, mk, st)
  /\ jb.kind = "draft" => Unused(jb.review.run, mk, st)
\* A retrospective waits only for a review with documents, is not completed
\* before its review, and its report is still to be read while it runs.
Past(rv, mk, step) ==
  Marked(rv, mk) =>
    /\ mk.status # "completed"
    /\ mk.status = "waiting" \/ mk.docsFailed => rv.status \in {"documenting", "failed"}
    /\ mk.status = "running" /\ rv.status = "reviewing" => rv.report # 0 /\ step # "marker"
\* A start that has been given the review.
Asking(rv, st, c) == /\ st[c].step = "ask" /\ st[c].run # 0 /\ st[c].run = rv.run
                     /\ rv.status = "reviewing"
OneAsks(rv, st) ==
  /\ \A c \in Callers : Asking(rv, st, c) => rv.report # 0
  /\ \A c, d \in Callers : Asking(rv, st, c) /\ Asking(rv, st, d) => c = d
  /\ \A c \in Callers : st[c].step \in {"prepare", "ask"} => st[c].acceptance # 0

Active(rv) == rv.status = "idle" => rv.run = 0

TInv == /\ marker \in Marker /\ hook \in [Agents -> Hook] /\ Active(review)
        /\ Fresh(review, marker, start, job, Len(runs))
        /\ Past(review, marker, hook[HE].step) /\ OneAsks(review, start)

LEMMA RetroTyped ==
  /\ NoMarker \in Marker /\ NoHook \in Hook /\ NoMarker.run = 0 /\ NoHook.step = "none"
  /\ NoStart.acceptance = 0 /\ HE \in Agents
BY DEF NoMarker, Marker, NoHook, Hook, NoStart, Agents

\* The review moves on: what held of it and the retrospective still does.
Passes(rv, nv, mk, st) ==
  \/ nv = rv \/ nv = NoReview
  \/ nv.run = rv.run /\ nv.status \in {"documenting", "failed"}
  \/ Unused(nv.run, mk, st) /\ nv.status \in {"collecting", "reviewing", "documenting", "failed"}

LEMMA PastPasses ==
  ASSUME NEW rv, NEW nv, NEW mk, NEW st, NEW step, Past(rv, mk, step), Passes(rv, nv, mk, st)
  PROVE  Past(nv, mk, step)
<1>1. CASE nv = rv
  BY <1>1
<1>2. CASE nv = NoReview
  BY <1>2, ConstantsTyped DEF Past, Marked
<1>3. CASE nv.run = rv.run /\ nv.status \in {"documenting", "failed"}
  BY <1>3 DEF Past, Marked
<1>4. CASE Unused(nv.run, mk, st)
  BY <1>4 DEF Past, Marked, Unused
<1>. QED
  BY <1>1, <1>2, <1>3, <1>4 DEF Passes

LEMMA OneAskPasses ==
  ASSUME NEW rv, NEW nv, NEW mk, NEW st, OneAsks(rv, st), Passes(rv, nv, mk, st)
  PROVE  OneAsks(nv, st)
<1>1. CASE nv = rv
  BY <1>1
<1>2. CASE nv = NoReview \/ nv.status \in {"documenting", "failed"}
  <2>1. nv.status # "reviewing"
    BY <1>2, ConstantsTyped
  <2>. QED
    BY <2>1 DEF OneAsks, Asking
<1>3. CASE Unused(nv.run, mk, st)
  <2>1. \A c \in Callers : ~Asking(nv, st, c)
    BY <1>3 DEF Asking, Unused
  <2>. QED
    BY <2>1 DEF OneAsks
<1>. QED
  BY <1>1, <1>2, <1>3 DEF Passes

\* completeWaitingTaskRetrospective keeps what holds of the record.
LEMMA WaitingKeeps ==
  ASSUME NEW rv, NEW step, marker \in Marker, Past(rv, marker, step), CompleteWaiting(rv.status)
  PROVE  /\ marker' \in Marker /\ marker'.run = marker.run /\ Past(rv, marker', step)
         /\ marker'.status = "running" => marker' = marker
<1>. DEFINE m1 == [marker EXCEPT !.status = "waiting"]
            m2 == [marker EXCEPT !.status = "failed", !.docsFailed = TRUE]
            m3 == [marker EXCEPT !.status = "completed", !.docsFailed = FALSE]
<1>1. /\ m1 \in Marker /\ m1.run = marker.run /\ m1.status = "waiting"
      /\ m1.docsFailed = marker.docsFailed
  BY DEF Marker
<1>2. m2 \in Marker /\ m2.run = marker.run /\ m2.status = "failed"
  BY DEF Marker
<1>3. m3 \in Marker /\ m3.run = marker.run /\ m3.status = "completed"
  BY DEF Marker
<1>4. \/ marker' = marker
      \/ marker' = m1 /\ rv.status = "documenting"
      \/ marker' = m2 /\ rv.status = "failed"
      \/ /\ marker' = m3 /\ rv.status \notin {"documenting", "failed"}
         /\ marker.status = "waiting" \/ marker.docsFailed
  BY Zenon DEF CompleteWaiting
<1>. HIDE DEF m1, m2, m3
<1>5. CASE marker' = marker
  BY <1>5
<1>6. CASE marker' = m1 /\ rv.status = "documenting"
  BY <1>1, <1>6 DEF Past, Marked
<1>7. CASE marker' = m2 /\ rv.status = "failed"
  BY <1>2, <1>7 DEF Past, Marked
<1>8. CASE /\ marker' = m3 /\ rv.status \notin {"documenting", "failed"}
           /\ marker.status = "waiting" \/ marker.docsFailed
  <2>1. ~Marked(rv, marker)
    BY <1>8 DEF Past
  <2>. QED
    BY <1>3, <1>8, <2>1 DEF Past, Marked
<1>. QED
  BY <1>4, <1>5, <1>6, <1>7, <1>8
\* What is fresh of a review that is collecting goes on to be.
LEMMA MovesPass ==
  ASSUME RInv, TInv, Moved
  PROVE  /\ Passes(review, review', marker, start)
         /\ review'.status = "collecting" => Unused(review'.run, marker, start)
<1>1. Len(runs) \in Nat /\ job \in Job
  BY ReviewIsLast DEF RInv, Typed
<1>2. Unused(Len(runs) + 1, marker, start)
  <2>1. marker.run =< Len(runs) /\ marker.run \in Nat
    BY DEF TInv, Fresh, Marker
  <2>2. \A c \in Callers : start[c].run =< Len(runs) /\ start[c].run \in Nat
    BY DEF TInv, Fresh, RInv, Typed, Start
  <2>. QED
    BY <1>1, <2>1, <2>2 DEF Unused
<1>3. review.status = "collecting" => Unused(review.run, marker, start)
  BY DEF TInv, Fresh
<1>4. job.kind = "draft" => Unused(job.review.run, marker, start)
  BY DEF TInv, Fresh
<1>. QED
  BY <1>2, <1>3, <1>4, ConstantsTyped DEF Moved, Passes

\* The steps of the starts that an operation leaves.
LEMMA HooksResume ==
  ASSUME TInv, NEW caller, Resumes(caller)
  PROVE  /\ hook' \in [Agents -> Hook]
         /\ caller # HE => hook'[HE] = hook[HE]
<1>1. hook \in [Agents -> Hook] /\ HE \in Agents
  BY RetroTyped DEF TInv
<1>2. CASE hook' = hook
  BY <1>1, <1>2
<1>3. CASE caller \in Agents /\ hook' = [hook EXCEPT ![caller].step = "marker"]
  <2>1. hook[caller] \in Hook
    BY <1>1, <1>3
  <2>2. [hook[caller] EXCEPT !.step = "marker"] \in Hook
    BY <2>1 DEF Hook
  <2>. QED
    BY <1>1, <1>3, <2>2
<1>4. CASE caller \in Agents /\ hook' = [hook EXCEPT ![caller] = NoHook]
  BY <1>1, <1>4, RetroTyped
<1>. QED
  BY <1>2, <1>3, <1>4 DEF Resumes

\* A start is left alone, or leaves the step at which it asks.
Leaves(st, ns) ==
  \A c \in Callers : \/ ns[c] = st[c]
                     \/ ns[c].run \in {st[c].run, 0} /\ ns[c].step \notin {"prepare", "ask"}

LEMMA StartsLeave ==
  ASSUME RInv, NEW caller, Resumes(caller)
  PROVE  Leaves(start, start')
<1>1. start \in [Callers -> Start]
  BY DEF RInv, Typed
<1>2. CASE start' = start
  BY <1>2 DEF Leaves
<1>3. CASE caller \in Callers /\ start' = [start EXCEPT ![caller].step = "check"]
  <2>1. start[caller] \in Start
    BY <1>1, <1>3
  <2>2. start'[caller].run = start[caller].run /\ start'[caller].step = "check"
    BY <1>1, <1>3, <2>1 DEF Start
  <2>3. \A c \in Callers : c # caller => start'[c] = start[c]
    BY <1>1, <1>3
  <2>. QED
    BY <2>2, <2>3 DEF Leaves
<1>4. CASE caller \in Callers /\ start' = [start EXCEPT ![caller] = NoStart]
  <2>1. \A c \in Callers : start'[c] = IF c = caller THEN NoStart ELSE start[c]
    BY <1>1, <1>4
  <2>. QED
    BY <2>1, ConstantsTyped DEF Leaves
<1>. QED
  BY <1>2, <1>3, <1>4 DEF Resumes

LEMMA LeavesKeep ==
  ASSUME NEW st, NEW ns, Leaves(st, ns)
  PROVE  /\ \A rv : OneAsks(rv, st) => OneAsks(rv, ns)
         /\ \A k, mk : Unused(k, mk, st) => Unused(k, mk, ns)
<1>1. ASSUME NEW rv, OneAsks(rv, st) PROVE OneAsks(rv, ns)
  <2>1. \A c \in Callers : Asking(rv, ns, c) => Asking(rv, st, c)
    BY DEF Leaves, Asking
  <2>2. \A c \in Callers : ns[c].step \in {"prepare", "ask"} => ns[c] = st[c]
    BY DEF Leaves
  <2>. QED
    BY <1>1, <2>1, <2>2 DEF OneAsks
<1>2. ASSUME NEW k, NEW mk, Unused(k, mk, st) PROVE Unused(k, mk, ns)
  BY <1>2 DEF Unused, Leaves
<1>. QED
  BY <1>1, <1>2

LEMMA FreshPasses ==
  ASSUME RInv, RInv', TInv, Moved, JobMoved, Leaves(start, start'), Len(runs) =< Len(runs'),
         marker'.run = marker.run
  PROVE  /\ Fresh(review', marker', start', job', Len(runs')) /\ OneAsks(review', start')
         /\ Active(review')
<1>1. /\ Passes(review, review', marker, start)
      /\ review'.status = "collecting" => Unused(review'.run, marker, start)
  BY MovesPass
<1>2. OneAsks(review', start')
  BY <1>1, OneAskPasses, LeavesKeep DEF TInv
<1>3. Active(review')
  BY <1>1, ConstantsTyped DEF Passes, Active, TInv
<1>4. Len(runs) \in Nat /\ Len(runs') \in Nat
  BY ReviewIsLast, RunsRead DEF RInv, Typed
<1>5. marker.run \in Nat /\ marker.run =< Len(runs) /\ marker'.run =< Len(runs')
  BY <1>4 DEF TInv, Fresh, Marker
<1>6. ASSUME NEW c \in Callers
      PROVE  start[c].run \in Nat /\ start[c].run =< Len(runs) /\ start'[c].run =< Len(runs')
  <2>1. start[c].run \in Nat /\ start[c].run =< Len(runs)
    BY DEF TInv, Fresh, RInv, Typed, Start
  <2>2. start'[c].run \in {start[c].run, 0}
    BY DEF Leaves
  <2>. QED
    BY <1>4, <2>1, <2>2
<1>7. \A k : Unused(k, marker, start) => Unused(k, marker', start')
  BY LeavesKeep DEF Unused
<1>8. job'.kind = "draft" => Unused(job'.review.run, marker, start)
  <2>1. Unused(Len(runs) + 1, marker, start)
    BY <1>4, <1>5, <1>6 DEF Unused
  <2>2. review.status = "collecting" => Unused(review.run, marker, start)
    BY DEF TInv, Fresh
  <2>3. job.kind = "draft" => Unused(job.review.run, marker, start)
    BY DEF TInv, Fresh
  <2>. QED
    BY <2>1, <2>2, <2>3 DEF JobMoved
<1>9. Fresh(review', marker', start', job', Len(runs'))
  BY <1>1, <1>5, <1>6, <1>7, <1>8 DEF Fresh
<1>. QED
  BY <1>2, <1>3, <1>9

LEMMA OperatesKeeps ==
  ASSUME RInv, RInv', TInv, NEW caller, Operates(caller),
         caller = HE => \/ review'.status # "reviewing"
                        \/ review' = review /\ review.report = 0
  PROVE  TInv'
<1>1. Passes(review, review', marker, start)
  BY MovesPass DEF Operates
<1>2. hook' \in [Agents -> Hook] /\ (caller # HE => hook'[HE] = hook[HE])
  BY HooksResume DEF Operates
<1>3. Leaves(start, start')
  BY StartsLeave DEF Operates
<1>4. Past(review', marker, hook'[HE].step)
  <2>1. Past(review', marker, hook[HE].step)
    BY <1>1, PastPasses DEF TInv
  <2>2. CASE caller # HE
    BY <1>2, <2>1, <2>2
  <2>3. CASE caller = HE
    <3>1. Past(review, marker, hook[HE].step)
      BY DEF TInv
    <3>. QED
      BY <2>1, <2>3, <3>1 DEF Past, Marked
  <2>. QED
    BY <2>2, <2>3
<1>5. /\ marker' \in Marker /\ marker'.run = marker.run
      /\ Past(review', marker', hook'[HE].step)
  <2>1. CASE marker' = marker
    BY <1>4, <2>1 DEF TInv
  <2>2. CASE CompleteWaiting(review'.status)
    BY <1>4, <2>2, WaitingKeeps DEF TInv
  <2>. QED
    BY <2>1, <2>2 DEF Operates, Resumes
<1>6. /\ Fresh(review', marker', start', job', Len(runs')) /\ OneAsks(review', start')
      /\ Active(review')
  BY <1>3, <1>5, FreshPasses DEF Operates
<1>. QED
  BY <1>2, <1>5, <1>6 DEF TInv

\* A step that holds no lock, and leaves the dispatch and the starts alone.
LEMMA LooseKeeps ==
  ASSUME RInv, RInv', TInv, Moved, job' \in {job, NoJob}, Leaves(start, start'),
         Len(runs) =< Len(runs'), hook' \in [Agents -> Hook],
         hook'[HE].step # "marker" \/ hook'[HE] = hook[HE],
         marker' = marker \/ CompleteWaiting(review'.status)
  PROVE  TInv'
<1>1. Passes(review, review', marker, start)
  BY MovesPass
<1>2. Past(review', marker, hook[HE].step)
  BY <1>1, PastPasses DEF TInv
<1>3. Past(review', marker, hook'[HE].step)
  BY <1>2 DEF Past
<1>4. /\ marker' \in Marker /\ marker'.run = marker.run
      /\ Past(review', marker', hook'[HE].step)
  <2>1. CASE marker' = marker
    BY <1>3, <2>1 DEF TInv
  <2>2. CASE CompleteWaiting(review'.status)
    BY <1>3, <2>2, WaitingKeeps DEF TInv
  <2>. QED
    BY <2>1, <2>2
<1>5. JobMoved
  BY ConstantsTyped DEF JobMoved
<1>6. /\ Fresh(review', marker', start', job', Len(runs')) /\ OneAsks(review', start')
      /\ Active(review')
  BY <1>4, <1>5, FreshPasses
<1>. QED
  BY <1>4, <1>6 DEF TInv
(***************************************************************************)
(* The actions.                                                            *)
(***************************************************************************)
LEMMA DiscardMoves ==
  ASSUME RInv, DiscardIfOff
  PROVE  /\ Moved /\ Len(runs') = Len(runs)
         /\ review' = review \/ review' = NoReview
<1>1. CASE Discarded
  BY <1>1, DiscardKeeps DEF Moved, Discarded
<1>2. CASE review' = review /\ runs' = runs
  BY <1>2 DEF Moved
<1>. QED
  BY <1>1, <1>2, DiscardIsDiscarded

LEMMA LockedKeep ==
  ASSUME RInv, RInv', TInv,
         \/ TickReconciles \/ UserAsks \/ JobSubmits \/ JobFails \/ EngineerHook
         \/ \E r \in Roles : RoleHook(r)
         \/ \E i \in DOMAIN review.docs : RetriesDoc(i)
  PROVE  TInv'
<1>1. ASSUME NEW c \in Callers, Reconcile(c) PROVE TInv'
  BY <1>1, ReconcileOperates, OperatesKeeps, CallersDiffer
<1>2. CASE JobSubmits \/ JobFails
  <2>1. Operates(job.caller)
    BY <1>2, JobSubmitsOperates, JobFailsOperates
  <2>2. job.caller = HE => review'.status # "reviewing"
    <3>1. ~Unlocked
      BY <1>2 DEF JobSubmits, JobFails
    <3>2. job.caller = HE => job.kind # "draft" /\ review.status = "documenting"
      BY <3>1, JobReads
    <3>. QED
      BY <2>1, <3>2, ConstantsTyped DEF Operates, Moved
  <2>. QED
    BY <2>1, <2>2, OperatesKeeps
<1>3. CASE EngineerHook
  BY <1>3, EngineerHookOperates, OperatesKeeps
<1>4. ASSUME NEW r \in Roles, RoleHook(r) PROVE TInv'
  BY <1>4, RoleHookOperates, OperatesKeeps, CallersDiffer
<1>5. ASSUME NEW i \in DOMAIN review.docs, RetriesDoc(i) PROVE TInv'
  BY <1>5, RetriesDocOperates, OperatesKeeps, CallersDiffer
<1>6. CASE TickReconciles \/ UserAsks
  BY <1>1, <1>6 DEF TickReconciles, UserAsks, Callers
<1>. QED
  BY <1>2, <1>3, <1>4, <1>5, <1>6

LEMMA StartsUnchanged ==
  ASSUME start' = start
  PROVE  Leaves(start, start')
BY DEF Leaves

LEMMA RoleHookEndsKeeps ==
  ASSUME RInv, RInv', TInv, NEW r \in Roles, RoleHookEnds(r)
  PROVE  TInv'
<1>1. /\ hook' = [hook EXCEPT ![r] = NoHook] /\ start' = start /\ job' = job
      /\ \/ DiscardIfOff /\ CompleteWaiting(review'.status)
         \/ review' = review /\ runs' = runs /\ marker' = marker
  BY DEF RoleHookEnds, reviewVars
<1>2. hook' \in [Agents -> Hook] /\ hook'[HE] = hook[HE]
  BY <1>1, RetroTyped, CallersDiffer DEF TInv, Agents
<1>3. Moved /\ Len(runs) =< Len(runs')
  BY <1>1, DiscardMoves, ReviewIsLast DEF Moved
<1>. QED
  BY <1>1, <1>2, <1>3, StartsUnchanged, LooseKeeps

\* Steps that leave the retrospective and its review alone.
LEMMA StillKeep ==
  ASSUME RInv, RInv', TInv,
         \/ JobLaunches \/ EngineerStops \/ Toggles \/ Accepts \/ Reports \/ Restarts \/ UNCHANGED vars
         \/ \E r \in Roles : RoleStops(r)
         \/ \E r \in Agents : Takes(r) \/ TurnFails(r) \/ UserPrompts(r) \/ ProcessExits(r)
  PROVE  TInv'
<1>1. review' = review /\ runs' = runs /\ marker' = marker
  <2>1. CASE JobLaunches \/ Toggles \/ Accepts \/ Restarts \/ UNCHANGED vars
    BY <2>1 DEF JobLaunches, Toggles, Accepts, Restarts, vars, reviewVars, retroVars
  <2>2. CASE Reports
    BY <2>2 DEF Reports, reviewVars
  <2>3. CASE EngineerStops \/ \E r \in Roles : RoleStops(r)
    BY <2>3 DEF EngineerStops, RoleStops, TurnEnds, reviewVars, retroVars
  <2>4. CASE \E r \in Agents : Takes(r) \/ TurnFails(r) \/ UserPrompts(r) \/ ProcessExits(r)
    BY <2>4 DEF Takes, TurnFails, TurnEnds, UserPrompts, ProcessExits, reviewVars, retroVars
  <2>. QED
    BY <2>1, <2>2, <2>3, <2>4
<1>2. \/ job' = job /\ start' = start
      \/ job' = NoJob /\ start' = [c \in Callers |-> NoStart]
  BY DEF JobLaunches, EngineerStops, Toggles, Accepts, Reports, Restarts, vars, RoleStops, TurnEnds,
         Takes, TurnFails, UserPrompts, ProcessExits, callVars
<1>3. Leaves(start, start')
  <2>1. CASE start' = start
    BY <2>1 DEF Leaves
  <2>2. CASE start' = [c \in Callers |-> NoStart]
    BY <2>2, ConstantsTyped DEF Leaves
  <2>. QED
    BY <1>2, <2>1, <2>2
<1>4. \/ hook' = hook
      \/ \E r \in Agents, event \in {"stop", "failure"} :
           hook' = [hook EXCEPT ![r] = [step |-> "memory", event |-> event]]
      \/ hook' = [r \in Agents |-> NoHook]
  <2>1. ASSUME NEW r \in Agents, NEW event \in {"stop", "failure"}, TurnEnds(r, event)
        PROVE  hook' = hook \/ hook' = [hook EXCEPT ![r] = [step |-> "memory", event |-> event]]
    BY <2>1 DEF TurnEnds
  <2>2. CASE EngineerStops
    BY <2>1, <2>2 DEF EngineerStops, Agents
  <2>3. CASE \E r \in Roles : RoleStops(r)
    BY <2>1, <2>3 DEF RoleStops, Agents
  <2>4. CASE \E r \in Agents : TurnFails(r)
    BY <2>1, <2>4 DEF TurnFails
  <2>5. CASE JobLaunches \/ Toggles \/ Accepts \/ Reports \/ Restarts \/ UNCHANGED vars
    BY <2>5 DEF JobLaunches, Toggles, Accepts, Reports, Restarts, vars, callVars
  <2>6. CASE \E r \in Agents : Takes(r) \/ UserPrompts(r) \/ ProcessExits(r)
    BY <2>6 DEF Takes, UserPrompts, ProcessExits, callVars
  <2>. QED
    BY <2>2, <2>3, <2>4, <2>5, <2>6
<1>5. hook' \in [Agents -> Hook] /\ (hook'[HE].step # "marker" \/ hook'[HE] = hook[HE])
  <2>1. hook \in [Agents -> Hook] /\ HE \in Agents
    BY RetroTyped DEF TInv
  <2>2. CASE hook' = hook
    BY <2>1, <2>2
  <2>3. ASSUME NEW r \in Agents, NEW event \in {"stop", "failure"},
               hook' = [hook EXCEPT ![r] = [step |-> "memory", event |-> event]]
        PROVE  hook' \in [Agents -> Hook] /\ (hook'[HE].step # "marker" \/ hook'[HE] = hook[HE])
    <3>. DEFINE h == [step |-> "memory", event |-> event]
    <3>1. h \in Hook /\ h.step = "memory"
      BY DEF Hook
    <3>2. hook' = [hook EXCEPT ![r] = h]
      BY <2>3
    <3>. HIDE DEF h
    <3>. QED
      BY <2>1, <3>1, <3>2
  <2>4. CASE hook' = [r \in Agents |-> NoHook]
    BY <2>1, <2>4, RetroTyped
  <2>. QED
    BY <1>4, <2>2, <2>3, <2>4
<1>6. Moved /\ Len(runs) =< Len(runs')
  BY <1>1, ReviewIsLast DEF Moved
<1>. QED
  BY <1>1, <1>2, <1>3, <1>5, <1>6, LooseKeeps

\* Steps of the user and the Project Manager that change the review.
LEMMA ReviewStepsKeep ==
  ASSUME RInv, RInv', TInv,
         \/ Looks \/ RetriesReview \/ Edits \/ \E i \in DOMAIN runs : Reverts(i)
         \/ \E owner \in Roles : Chooses(owner)
  PROVE  TInv'
<1>1. job' = job /\ start' = start /\ hook' = hook /\ marker' = marker
  <2>1. CASE Looks \/ RetriesReview \/ Edits
    BY <2>1 DEF Looks, RetriesReview, Edits, UserFrame, callVars, retroVars
  <2>2. CASE \E i \in DOMAIN runs : Reverts(i)
    BY <2>2 DEF Reverts, UserFrame, callVars, retroVars
  <2>3. CASE \E owner \in Roles : Chooses(owner)
    BY <2>3 DEF Chooses, callVars, retroVars
  <2>. QED
    BY <2>1, <2>2, <2>3
<1>2. Moved /\ Len(runs) =< Len(runs')
  <2>0. Len(runs) \in Nat /\ Len(runs') \in Nat /\ RunsTyped(runs)
    BY ReviewIsLast, RunsRead DEF RInv, Typed
  <2>1. CASE Looks \/ Edits
    <3>1. DiscardIfOff
      BY <2>1 DEF Looks, Edits, DiscardIfOff
    <3>. QED
      BY <2>0, <3>1, DiscardMoves
  <2>2. CASE RetriesReview
    BY <2>0, <2>2 DEF RetriesReview, Moved
  <2>3. ASSUME NEW i \in DOMAIN runs, Reverts(i) PROVE Moved /\ Len(runs) =< Len(runs')
    <3>1. review' = NoReview /\ runs' = PutReverted(runs, i, review.run)
      BY <2>3 DEF Reverts, PutReverted
    <3>2. Len(runs') = Len(runs)
      BY <2>0, <3>1, RunIsReverted
    <3>. QED
      BY <2>0, <3>1, <3>2 DEF Moved
  <2>4. ASSUME NEW owner \in Roles, Chooses(owner) PROVE Moved /\ Len(runs) =< Len(runs')
    <3>. DEFINE next == [review EXCEPT !.docs[CurrentDoc(review.docs)].choice = owner]
    <3>1. /\ review' = next /\ runs' = PutDocs(runs, next.run, next.docs)
          /\ review.status = "documenting"
      BY <2>4 DEF Chooses, Persist, PutDocs
    <3>2. next.run = review.run /\ next.status = review.status
      BY ReviewIsLast DEF Review
    <3>. HIDE DEF next
    <3>3. Moved
      BY <3>1, <3>2 DEF Moved
    <3>4. review' \in Review
      BY DEF RInv, Typed
    <3>5. next.docs \in Seq(Doc)
      BY <3>1, <3>4 DEF Review
    <3>6. Len(runs') = Len(runs)
      BY <2>0, <3>1, <3>5, RunStores
    <3>. QED
      BY <2>0, <3>3, <3>6
  <2>. QED
    BY <2>1, <2>2, <2>3, <2>4
<1>3. hook' \in [Agents -> Hook]
  BY <1>1 DEF TInv
<1>. QED
  BY <1>1, <1>2, <1>3, StartsUnchanged, LooseKeeps
\* processHarnessEngineerHook: the report is read once the review has moved on.
LEMMA EngineerHookEndsKeeps ==
  ASSUME RInv, RInv', TInv, EngineerHookEnds
  PROVE  TInv'
<1>1. /\ hook[HE].step = "marker" /\ hook' = [hook EXCEPT ![HE] = NoHook] /\ start' = start
      /\ job' = job /\ DiscardIfOff /\ Retrospective(hook[HE].event)
  BY DEF EngineerHookEnds, HookAt
<1>2. hook' \in [Agents -> Hook] /\ hook'[HE].step # "marker"
  BY <1>1, RetroTyped DEF TInv
<1>3. Moved /\ Len(runs) =< Len(runs') /\ (review' = review \/ review' = NoReview)
  BY <1>1, DiscardMoves, ReviewIsLast
<1>4. Past(review', marker, hook[HE].step) /\ marker \in Marker
  BY <1>3, MovesPass, PastPasses DEF TInv
<1>. DEFINE m1 == [marker EXCEPT !.status = "failed"]
            m2 == [marker EXCEPT !.status = "failed", !.items = {}, !.docsFailed = review'.docs # <<>>]
            m3 == [marker EXCEPT !.status = "waiting", !.items = {}]
            m4 == [marker EXCEPT !.status = "completed", !.items = {}]
<1>5. \/ marker' = marker
      \/ marker' = m1
      \/ marker' = m2 /\ review'.status = "failed"
      \/ marker' = m3 /\ review'.status = "documenting"
      \/ /\ marker' = m4 /\ marker.status = "running"
         /\ ~(marker.run # 0 /\ review'.status \in {"failed", "documenting"})
  <2>1. CASE marker.status # "running"
    BY <1>1, <2>1 DEF Retrospective, retroVars
  <2>2. CASE marker.status = "running" /\ (hook[HE].event = "failure" \/ ~Accepted(marker))
    BY <1>1, <2>2 DEF Retrospective
  <2>3. CASE marker.status = "running" /\ ~(hook[HE].event = "failure" \/ ~Accepted(marker))
    <3>1. marker' = CASE marker.run # 0 /\ review'.status = "failed" -> m2
                      [] marker.run # 0 /\ review'.status = "documenting" -> m3
                      [] OTHER -> m4
      BY <1>1, <2>3, Zenon DEF Retrospective
    <3>. HIDE DEF m1, m2, m3, m4
    <3>. QED
      BY <2>3, <3>1
  <2>. QED
    BY <2>1, <2>2, <2>3
<1>6. /\ m1 \in Marker /\ m1.run = marker.run /\ m1.status = "failed" /\ m1.docsFailed = marker.docsFailed
      /\ m2 \in Marker /\ m2.run = marker.run /\ m2.status = "failed"
      /\ m3 \in Marker /\ m3.run = marker.run /\ m3.status = "waiting" /\ m3.docsFailed = marker.docsFailed
      /\ m4 \in Marker /\ m4.run = marker.run /\ m4.status = "completed"
      /\ m4.docsFailed = marker.docsFailed
  <2>1. m1 \in Marker /\ m1.run = marker.run /\ m1.status = "failed" /\ m1.docsFailed = marker.docsFailed
    BY <1>4 DEF Marker
  <2>. DEFINE n1 == [m1 EXCEPT !.items = {}]
  <2>2. n1 \in Marker /\ n1.run = marker.run /\ n1.status = "failed"
    <3>. HIDE DEF m1
    <3>. QED
      BY <2>1 DEF Marker
  <2>3. m2 \in Marker /\ m2.run = marker.run /\ m2.status = "failed"
    <3>1. m2 = [n1 EXCEPT !.docsFailed = review'.docs # <<>>]
      OBVIOUS
    <3>. HIDE DEF m2, n1
    <3>. QED
      BY <2>2, <3>1 DEF Marker
  <2>4. /\ m3 \in Marker /\ m3.run = marker.run /\ m3.status = "waiting"
        /\ m3.docsFailed = marker.docsFailed
    BY <1>4 DEF Marker
  <2>5. /\ m4 \in Marker /\ m4.run = marker.run /\ m4.status = "completed"
        /\ m4.docsFailed = marker.docsFailed
    BY <1>4 DEF Marker
  <2>. HIDE DEF m1, m2, m3, m4
  <2>. QED
    BY <2>1, <2>3, <2>4, <2>5
<1>. HIDE DEF m1, m2, m3, m4
<1>7. marker' \in Marker /\ marker'.run = marker.run
  BY <1>4, <1>5, <1>6
<1>8. /\ Fresh(review', marker', start', job', Len(runs')) /\ OneAsks(review', start')
      /\ Active(review')
  BY <1>1, <1>3, <1>7, StartsUnchanged, FreshPasses DEF JobMoved
<1>9. Past(review', marker', hook'[HE].step)
  <2>1. CASE marker' = marker
    BY <1>2, <1>4, <2>1 DEF Past
  <2>2. CASE marker' = m1
    BY <1>4, <1>6, <2>2 DEF Past, Marked
  <2>3. CASE marker' = m2 /\ review'.status = "failed"
    BY <1>6, <2>3 DEF Past, Marked
  <2>4. CASE marker' = m3 /\ review'.status = "documenting"
    BY <1>6, <2>4 DEF Past, Marked
  <2>5. CASE /\ marker' = m4 /\ marker.status = "running"
             /\ ~(marker.run # 0 /\ review'.status \in {"failed", "documenting"})
    <3>1. ASSUME Marked(review', marker) PROVE FALSE
      <4>1. review'.status \notin {"failed", "documenting"} /\ review'.run # 0
        BY <2>5, <3>1 DEF Marked
      <4>2. review'.status # "reviewing"
        BY <1>1, <1>4, <2>5, <3>1 DEF Past
      <4>3. review'.status # "idle"
        BY <1>8, <4>1 DEF Active
      <4>4. review'.status # "collecting"
        BY <1>7, <1>8, <3>1 DEF Fresh, Unused, Marked
      <4>5. review'.status \in Statuses
        BY DEF RInv, Typed, Review
      <4>. QED
        BY <4>1, <4>2, <4>3, <4>4, <4>5 DEF Statuses
    <3>. QED
      BY <1>6, <2>5, <3>1 DEF Past, Marked
  <2>. QED
    BY <1>5, <2>1, <2>2, <2>3, <2>4, <2>5
<1>. QED
  BY <1>2, <1>7, <1>8, <1>9 DEF TInv

LEMMA ChecksHolds ==
  ASSUME RInv, RInv', TInv, NEW caller \in Callers, Checks(caller)
  PROVE  TInv'
<1>1. review' = review /\ runs' = runs /\ job' = job /\ marker' = marker /\ hook' = hook
  BY DEF Checks, reviewVars, retroVars
<1>. DEFINE st == [NoStart EXCEPT !.step = "prepare", !.acceptance = acceptance]
<1>2. st.run = 0 /\ st.step = "prepare" /\ st.acceptance = acceptance
  BY DEF NoStart
<1>3. \/ start' = [start EXCEPT ![caller] = NoStart]
      \/ start' = [start EXCEPT ![caller] = st] /\ acceptance # 0
  BY DEF Checks, GivesUp
<1>. HIDE DEF st
<1>4. start \in [Callers -> Start] /\ job \in Job
  BY DEF RInv, Typed
<1>5. \A c \in Callers :
        \/ start'[c] = start[c]
        \/ /\ start'[c].run = 0 /\ start'[c].step # "ask"
           /\ start'[c].step = "prepare" => start'[c].acceptance # 0
  <2>1. \A c \in Callers : c # caller => start'[c] = start[c]
    BY <1>3, <1>4
  <2>2. start'[caller] = NoStart \/ (start'[caller] = st /\ acceptance # 0)
    BY <1>3, <1>4
  <2>. QED
    BY <1>2, <2>1, <2>2, ConstantsTyped
<1>6. OneAsks(review, start')
  <2>1. \A c \in Callers : Asking(review, start', c) => Asking(review, start, c)
    BY <1>5 DEF Asking
  <2>. QED
    BY <1>5, <2>1 DEF OneAsks, TInv
<1>7. \A k : Unused(k, marker, start) => Unused(k, marker, start')
  BY <1>5 DEF Unused
<1>8. Fresh(review, marker, start', job, Len(runs))
  <2>1. Len(runs) \in Nat
    BY ReviewIsLast
  <2>2. ASSUME NEW c \in Callers PROVE start'[c].run =< Len(runs)
    <3>1. start[c].run =< Len(runs)
      BY DEF TInv, Fresh
    <3>. QED
      BY <1>5, <2>1, <3>1
  <2>. QED
    BY <1>7, <2>2 DEF TInv, Fresh
<1>. QED
  BY <1>1, <1>6, <1>8 DEF TInv

LEMMA PreparesHolds ==
  ASSUME RInv, RInv', TInv, NEW caller \in Callers, Prepares(caller)
  PROVE  TInv'
<1>. DEFINE st == [start[caller] EXCEPT !.step = "ask", !.items = inbox,
                                        !.run = IF enabled /\ review # NoReview THEN review.run ELSE 0]
<1>1. runs' = runs /\ job' = job /\ marker' = marker /\ hook' = hook
  BY DEF Prepares, retroVars
<1>2. \/ start' = [start EXCEPT ![caller] = NoStart] /\ review' = review
      \/ /\ start' = [start EXCEPT ![caller] = st] /\ review' = review
         /\ ~(enabled /\ review # NoReview)
      \/ /\ start' = [start EXCEPT ![caller] = st] /\ review.status = "reviewing" /\ review.report = 0
         /\ review' = [review EXCEPT !.report = start[caller].acceptance]
         /\ enabled /\ review # NoReview
  BY DEF Prepares, GivesUp
<1>3. start \in [Callers -> Start] /\ job \in Job /\ start[caller] \in Start
  BY DEF RInv, Typed
<1>4. /\ st.step = "ask" /\ st.acceptance = start[caller].acceptance
      /\ st.run = IF enabled /\ review # NoReview THEN review.run ELSE 0
  BY <1>3 DEF Start
<1>5. start[caller].acceptance # 0 /\ start[caller].acceptance \in Nat
  BY <1>3 DEF Prepares, At, TInv, OneAsks, Start
<1>. HIDE DEF st
<1>6. /\ \A c \in Callers : c # caller => start'[c] = start[c]
      /\ start'[caller] \in {NoStart, st}
  BY <1>2, <1>3
<1>7. Len(runs) \in Nat /\ review \in Review
  BY ReviewIsLast
<1>8. CASE review' = review /\ (start'[caller] = NoStart \/ st.run = 0)
  <2>1. start'[caller].run = 0
    BY <1>6, <1>8, ConstantsTyped
  <2>2. \A c \in Callers : Asking(review, start', c) => Asking(review, start, c)
    BY <1>6, <2>1 DEF Asking
  <2>3. \A c \in Callers : start'[c].step \in {"prepare", "ask"} => start'[c].acceptance # 0
    BY <1>4, <1>5, <1>6, ConstantsTyped DEF TInv, OneAsks
  <2>4. OneAsks(review, start')
    BY <2>2, <2>3 DEF OneAsks, TInv
  <2>5. \A k : Unused(k, marker, start) => Unused(k, marker, start')
    BY <1>6, <2>1 DEF Unused
  <2>6. Fresh(review, marker, start', job, Len(runs))
    BY <1>6, <1>7, <2>1, <2>5 DEF TInv, Fresh
  <2>. QED
    BY <1>1, <1>8, <2>4, <2>6 DEF TInv
<1>9. CASE /\ start' = [start EXCEPT ![caller] = st] /\ review.status = "reviewing" /\ review.report = 0
           /\ review' = [review EXCEPT !.report = start[caller].acceptance]
           /\ enabled /\ review # NoReview
  <2>1. /\ review'.run = review.run /\ review'.status = "reviewing"
        /\ review'.report = start[caller].acceptance
    BY <1>7, <1>9 DEF Review
  <2>2. start'[caller] = st /\ st.run = review.run /\ review.run = Len(runs)
    BY <1>3, <1>4, <1>9, ReviewIsLast
  <2>3. \A c \in Callers : Asking(review', start', c) => c = caller
    BY <1>6, <1>9, <2>1 DEF Asking, TInv, OneAsks
  <2>4. \A c \in Callers : start'[c].step \in {"prepare", "ask"} => start'[c].acceptance # 0
    BY <1>4, <1>5, <1>6, ConstantsTyped DEF TInv, OneAsks
  <2>5. OneAsks(review', start')
    BY <1>5, <2>1, <2>3, <2>4 DEF OneAsks
  <2>6. job = NoJob
    BY <1>9, ConstantsTyped DEF RInv, JobIsCurrent, Typed, Job
  <2>7. Fresh(review', marker', start', job', Len(runs'))
    <3>1. ASSUME NEW c \in Callers PROVE start'[c].run =< Len(runs)
      BY <1>6, <1>7, <2>2 DEF TInv, Fresh
    <3>2. marker.run =< Len(runs)
      BY DEF TInv, Fresh
    <3>. QED
      BY <1>1, <2>1, <2>6, <3>1, <3>2, ConstantsTyped DEF Fresh
  <2>8. Past(review', marker', hook'[HE].step)
    BY <1>1, <1>9, <2>1 DEF TInv, Past, Marked
  <2>. QED
    BY <1>1, <2>1, <2>5, <2>7, <2>8 DEF TInv, Active
<1>10. \/ review' = review /\ (start'[caller] = NoStart \/ st.run = 0)
       \/ /\ start' = [start EXCEPT ![caller] = st] /\ review.status = "reviewing" /\ review.report = 0
          /\ review' = [review EXCEPT !.report = start[caller].acceptance]
          /\ enabled /\ review # NoReview
  BY <1>2, <1>3, <1>4
<1>. QED
  BY <1>8, <1>9, <1>10

\* The record is stored, and the prompt submitted or the record withdrawn.
LEMMA AsksHolds ==
  ASSUME RInv, RInv', TInv, ~Hasty, NEW caller \in Callers, Asks(caller)
  PROVE  TInv'
<1>. DEFINE st == start[caller]
            begun == [NoMarker EXCEPT !.status = "running", !.acceptance = st.acceptance,
                                      !.run = st.run, !.items = st.items]
            gone == [begun EXCEPT !.status = "failed"]
<1>1. /\ runs' = runs /\ job' = job /\ hook' = hook /\ st.step = "ask" /\ hook[HE].step # "marker"
      /\ start' = [start EXCEPT ![caller] = NoStart]
  BY DEF Asks, At, Quick, GivesUp
<1>2. start \in [Callers -> Start] /\ st \in Start /\ Len(runs) \in Nat /\ review \in Review
  BY ReviewIsLast DEF RInv, Typed
<1>3. st.acceptance \in Nat /\ st.run \in Nat /\ st.items \in SUBSET Nat
  BY <1>2 DEF Start
<1>4. /\ begun \in Marker /\ begun.status = "running" /\ begun.run = st.run
      /\ begun.docsFailed = FALSE
  <2>1. NoMarker \in Marker /\ NoMarker.docsFailed = FALSE
    BY DEF NoMarker, Marker
  <2>. DEFINE m1 == [NoMarker EXCEPT !.status = "running"]
              m2 == [m1 EXCEPT !.acceptance = st.acceptance]
              m3 == [m2 EXCEPT !.run = st.run]
  <2>2. begun = [m3 EXCEPT !.items = st.items]
    BY Zenon
  <2>3. m1 \in Marker /\ m1.status = "running" /\ m1.docsFailed = FALSE
    BY <2>1 DEF Marker
  <2>. HIDE DEF m1
  <2>4. m2 \in Marker /\ m2.status = "running" /\ m2.docsFailed = FALSE
    BY <1>3, <2>3 DEF Marker
  <2>. HIDE DEF m2
  <2>5. m3 \in Marker /\ m3.status = "running" /\ m3.run = st.run /\ m3.docsFailed = FALSE
    BY <1>3, <2>4 DEF Marker
  <2>. HIDE DEF m3, begun, st
  <2>. QED
    BY <1>3, <2>2, <2>5 DEF Marker
<1>5. \/ marker' = begun /\ review' = review
      \/ marker' = gone /\ review' = review
      \/ /\ marker' = gone /\ st.run # 0 /\ review.run = st.run /\ review.status = "reviewing"
         /\ review' = [review EXCEPT !.report = 0]
  BY Zenon DEF Asks
<1>. HIDE DEF begun
<1>6. gone \in Marker /\ gone.status = "failed" /\ gone.run = st.run /\ gone.docsFailed = FALSE
  BY <1>4 DEF Marker
<1>. HIDE DEF gone
<1>7. /\ \A c \in Callers : c # caller => start'[c] = start[c]
      /\ start'[caller] = NoStart
  BY <1>1, <1>2
<1>8. marker' \in Marker /\ marker'.run = st.run
  BY <1>4, <1>5, <1>6
<1>9. review'.run = review.run /\ review'.status = review.status
  BY <1>2, <1>5 DEF Review
<1>10. OneAsks(review', start')
  <2>1. \A c \in Callers : Asking(review', start', c) => c # caller /\ Asking(review, start, c)
    BY <1>7, <1>9, ConstantsTyped DEF Asking
  <2>2. \A c \in Callers : start'[c].step \in {"prepare", "ask"} => start'[c].acceptance # 0
    BY <1>7, ConstantsTyped DEF TInv, OneAsks
  <2>3. CASE review' = review
    BY <2>1, <2>2, <2>3 DEF TInv, OneAsks
  <2>4. CASE st.run # 0 /\ review.run = st.run /\ review.status = "reviewing"
    <3>1. Asking(review, start, caller)
      BY <1>1, <2>4 DEF Asking
    <3>2. \A c \in Callers : ~Asking(review', start', c)
      BY <2>1, <3>1 DEF TInv, OneAsks
    <3>. QED
      BY <2>2, <3>2 DEF OneAsks
  <2>. QED
    BY <1>5, <2>3, <2>4
<1>11. \A k : Unused(k, marker, start) => Unused(k, marker', start')
  BY <1>7, <1>8, ConstantsTyped DEF Unused
<1>12. Fresh(review', marker', start', job', Len(runs'))
  <2>1. st.run =< Len(runs)
    BY DEF TInv, Fresh
  <2>2. ASSUME NEW c \in Callers PROVE start'[c].run =< Len(runs)
    <3>1. start[c].run =< Len(runs)
      BY DEF TInv, Fresh
    <3>. QED
      BY <1>2, <1>7, <3>1, ConstantsTyped
  <2>3. marker'.run =< Len(runs)
    BY <1>8, <2>1
  <2>. QED
    BY <1>1, <1>9, <1>11, <2>2, <2>3 DEF TInv, Fresh
<1>13. Past(review', marker', hook'[HE].step)
  <2>1. CASE marker' = begun /\ review' = review
    <3>1. ASSUME Marked(review, begun), review.status = "reviewing" PROVE review.report # 0
      <4>1. Asking(review, start, caller)
        BY <1>1, <1>4, <3>1 DEF Asking, Marked
      <4>. QED
        BY <4>1 DEF TInv, OneAsks
    <3>. QED
      BY <1>1, <1>4, <2>1, <3>1 DEF Past
  <2>2. CASE marker' = gone
    BY <1>6, <2>2 DEF Past
  <2>. QED
    BY <1>5, <2>1, <2>2
<1>14. Active(review')
  BY <1>9 DEF TInv, Active
<1>. QED
  BY <1>1, <1>8, <1>10, <1>12, <1>13, <1>14 DEF TInv

LEMMA InitTInv == Init => TInv
<1>. SUFFICES ASSUME Init PROVE TInv
  OBVIOUS
<1>1. /\ review = NoReview /\ runs = <<>> /\ job = NoJob /\ start = [c \in Callers |-> NoStart]
      /\ marker = NoMarker /\ hook = [r \in Agents |-> NoHook]
  BY DEF Init
<1>2. hook \in [Agents -> Hook] /\ marker \in Marker /\ Active(review)
  BY <1>1, RetroTyped, ConstantsTyped DEF Active
<1>3. Past(review, marker, hook[HE].step)
  BY <1>1, RetroTyped DEF Past, Marked
<1>4. OneAsks(review, start)
  BY <1>1, ConstantsTyped DEF OneAsks, Asking
<1>5. Fresh(review, marker, start, job, Len(runs))
  BY <1>1, ConstantsTyped, RetroTyped DEF Fresh
<1>. QED
  BY <1>2, <1>3, <1>4, <1>5 DEF TInv

LEMMA NextTInv ==
  ASSUME RInv, RInv', TInv, ~Hasty, [Next]_vars
  PROVE  TInv'
<1>1. ASSUME NEW c \in Callers, StartStep(c) PROVE TInv'
  BY <1>1, ChecksHolds, PreparesHolds, AsksHolds DEF StartStep
<1>2. CASE TickReconciles \/ JobSubmits \/ JobFails
  BY <1>2, LockedKeep
<1>3. CASE JobLaunches \/ UNCHANGED vars \/ EngineerStops \/ Restarts
  BY <1>3, StillKeep
<1>4. ASSUME NEW r \in Roles, RoleStops(r) \/ HookStep(r) PROVE TInv'
  BY <1>4, StillKeep, LockedKeep, RoleHookEndsKeeps DEF HookStep
<1>5. ASSUME NEW r \in Agents, Takes(r) \/ TurnFails(r) \/ UserPrompts(r) \/ ProcessExits(r) PROVE TInv'
  BY <1>5, StillKeep
<1>6. ASSUME NEW owner \in Roles, Chooses(owner) PROVE TInv'
  BY <1>6, ReviewStepsKeep
<1>7. CASE EngineerStep
  BY <1>7, LockedKeep, EngineerHookEndsKeeps DEF EngineerStep
<1>8. CASE UserStep
  BY <1>8, LockedKeep, StillKeep, ReviewStepsKeep DEF UserStep
<1>. QED
  BY <1>1, <1>2, <1>3, <1>4, <1>5, <1>6, <1>7, <1>8 DEF Next, JobStep

(* A retrospective is recorded as completed only when the documents its    *)
(* review assigned are written (completeWaitingTaskRetrospective,          *)
(* handleTaskRetrospectiveHook), for a user and a Harness Engineer who are *)
(* not faster than the hooks and starts of the backend.                    *)
THEOREM CompletesAfterDocs == ~Hasty /\ Spec => []CompletedAfterDocs
<1>1. ~Hasty /\ RInv /\ RInv' /\ TInv /\ [Next]_vars => TInv'
  BY NextTInv
<1>2. RInv /\ TInv => CompletedAfterDocs
  <2>. SUFFICES ASSUME RInv, TInv, marker.status = "completed", marker.run # 0
                PROVE  DocsWritten(marker.run)
    BY DEF CompletedAfterDocs
  <2>1. marker.run \in 1..Len(runs)
    BY ReviewIsLast DEF TInv, Fresh, Marker
  <2>2. marker.run # review.run
    BY DEF TInv, Past, Marked
  <2>3. DocsOver(runs[marker.run].docs)
    BY <2>1, <2>2 DEF RInv, DocsStored
  <2>. QED
    BY <2>3 DEF DocsOver, DocsWritten
<1>. SUFFICES ASSUME ~Hasty PROVE Spec => []CompletedAfterDocs
  OBVIOUS
<1>3. RInv /\ RInv' /\ TInv /\ [Next]_vars => TInv'
  BY <1>1
<1>4. Spec => []TInv
  BY InitTInv, ReviewInvariant, <1>3, PTL DEF Spec
<1>. QED
  BY <1>2, <1>4, ReviewInvariant, PTL
=============================================================================
