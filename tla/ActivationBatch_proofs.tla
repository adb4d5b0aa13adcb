----------------------- MODULE ActivationBatch_proofs -----------------------
(***************************************************************************)
(* Safety of batch activation for every set of processes, sessions and     *)
(* contents, every batch length and every bound on faults.                 *)
(***************************************************************************)
EXTENDS ActivationBatch, TLAPS

(* Facts about sequences and records. *)

\* Replacing an element keeps a sequence one of the same length.
LEMMA SeqExcept ==
    ASSUME NEW S, NEW q \in Seq(S), NEW i \in DOMAIN q, NEW x \in S
    PROVE  /\ [q EXCEPT ![i] = x] \in Seq(S)
           /\ DOMAIN [q EXCEPT ![i] = x] = DOMAIN q
           /\ Len([q EXCEPT ![i] = x]) = Len(q)
OBVIOUS

\* A function over 1..n is a sequence of length n.
LEMMA SeqMake ==
    ASSUME NEW S, NEW n \in Nat, NEW f \in [1..n -> S]
    PROVE  f \in Seq(S) /\ Len(f) = n /\ DOMAIN f = 1..n
OBVIOUS

\* Replacing the elements one by one keeps a sequence one.
LEMMA SeqRemake ==
    ASSUME NEW S, NEW q \in Seq(S), NEW f \in [DOMAIN q -> S]
    PROVE  f \in Seq(S) /\ Len(f) = Len(q) /\ DOMAIN f = DOMAIN q
OBVIOUS

(***************************************************************************)
(* What a batcher b holds in memory while it is at k.                      *)
(***************************************************************************)
\* Every candidate carries its own position, every position has a result, the
\* batch lies behind the position examined next.
Positions(b, j) ==
    /\ DOMAIN j.results = DOMAIN j.req
    /\ \A i \in DOMAIN j.req : j.req[i].id = [by |-> b, at |-> i]
    /\ j.at \in 1..(Len(j.req) + 1)
    /\ j.batch \subseteq 1..(j.at - 1)

\* The batch names each session once and holds only validated candidates; so
\* is the candidate on the single-session path.
Validated(j, k) ==
    /\ \A i \in j.batch : j.req[i].content # Bad
    /\ \A i, h \in j.batch : j.req[i].session = j.req[h].session => i = h
    /\ k \in {"route", "single"} =>
          j.at \in DOMAIN j.req /\ j.req[j.at].content # Bad

\* Nothing is reported as committed before its transaction.
Unsettled(j, k) ==
    \A i \in DOMAIN j.req :
        i >= j.at \/ (i \in j.batch /\ k \notin {"release", "done"})
            => j.results[i].did # "commit"

JobOK(b, j, k) ==
    /\ j \in Jobs /\ k \in PCs
    /\ Positions(b, j)
    /\ Validated(j, k)
    /\ Unsettled(j, k)

JobsOK == \A b \in Batchers : JobOK(b, job[b], pc[b])

BatchTypes == TypeOK /\ JobsOK

\* A batcher without a batch holds nothing.
LEMMA EmptyJob ==
    ASSUME NEW b \in Batchers, NEW k \in {"idle", "done"}
    PROVE  JobOK(b, NoJob, k)
<1>1. <<>> \in Seq(Candidates) /\ <<>> \in Seq(Results)
      /\ Len(<<>>) = 0
  OBVIOUS
<1>2. NoJob \in Jobs
  BY <1>1 DEF NoJob, Jobs
<1>3. NoJob.req = <<>> /\ NoJob.results = <<>> /\ NoJob.at = 1
      /\ NoJob.batch = {}
  BY DEF NoJob
<1>4. DOMAIN <<>> = {}
  OBVIOUS
<1> QED
  BY <1>1, <1>2, <1>3, <1>4
     DEF JobOK, Positions, Validated, Unsettled, PCs

\* A step of one batcher leaves what the others hold alone.
LEMMA ProceedKeeps ==
    ASSUME BatchTypes, NEW b \in Batchers, NEW j, NEW k, Proceed(b, j, k),
           JobOK(b, j, k)
    PROVE  /\ JobsOK'
           /\ job' \in [Batchers -> Jobs] /\ pc' \in [Batchers -> PCs]
           /\ job'[b] = j /\ pc'[b] = k
           /\ \A c \in Batchers : c # b => job'[c] = job[c] /\ pc'[c] = pc[c]
<1>1. job \in [Batchers -> Jobs] /\ pc \in [Batchers -> PCs]
  BY DEF BatchTypes, TypeOK
<1>2. /\ job'[b] = j /\ pc'[b] = k
      /\ \A c \in Batchers : c # b => job'[c] = job[c] /\ pc'[c] = pc[c]
  BY <1>1 DEF Proceed
<1>3. job' \in [Batchers -> Jobs] /\ pc' \in [Batchers -> PCs]
  BY <1>1 DEF Proceed, JobOK
<1>4. JobsOK'
  <2> SUFFICES ASSUME NEW c \in Batchers PROVE JobOK(c, job'[c], pc'[c])
    BY DEF JobsOK
  <2>1. JobOK(c, job[c], pc[c])
    BY DEF BatchTypes, JobsOK
  <2> QED
    BY <1>2, <2>1
<1> QED
  BY <1>2, <1>3, <1>4

\* The requests a harvest starts with.
LEMMA StartJob ==
    ASSUME BatchTypes, NEW b \in Batchers, NEW n \in 1..MaxLen,
           NEW ss \in [1..MaxLen -> Sessions],
           NEW cs \in [1..MaxLen -> Contents \cup {Bad}]
    PROVE  JobOK(b, Request(b, n, ss, cs), "examine")
<1> DEFINE req == [i \in 1..n |->
                     [session |-> ss[i], id |-> [by |-> b, at |-> i],
                      content |-> cs[i], expected |-> revision[ss[i]]]]
           res == [i \in 1..n |-> NotCommitted]
           j == [NoJob EXCEPT !.req = req, !.results = res]
<1>1. n \in Nat /\ \A i \in 1..n : i \in 1..MaxLen /\ i \in 0..MaxLen
  BY BoundsAssumption
<1>2. ASSUME NEW i \in 1..n
      PROVE  [session |-> ss[i], id |-> [by |-> b, at |-> i],
              content |-> cs[i], expected |-> revision[ss[i]]] \in Candidates
  <2>1. ss[i] \in Sessions /\ cs[i] \in Contents \cup {Bad}
    BY <1>1, <1>2
  <2>2. revision[ss[i]] \in Nat
    BY <2>1 DEF BatchTypes, TypeOK
  <2>3. [by |-> b, at |-> i] \in Ids
    BY <1>1, <1>2 DEF Ids
  <2> QED
    BY <2>1, <2>2, <2>3 DEF Candidates
<1>3. req \in [1..n -> Candidates]
  BY <1>2
<1>4. res \in [1..n -> Results]
  BY DEF NotCommitted, Results
<1>5. req \in Seq(Candidates) /\ res \in Seq(Results)
      /\ Len(req) = n /\ DOMAIN req = 1..n /\ DOMAIN res = 1..n
  BY <1>1, <1>3, <1>4, SeqMake
<1>6. \A i \in 1..n : req[i].id = [by |-> b, at |-> i]
                      /\ res[i].did # "commit"
  BY DEF NotCommitted
<1> HIDE DEF req, res
<1>7. j.req = req /\ j.results = res /\ j.at = 1 /\ j.batch = {}
  BY DEF NoJob
<1>8. j \in Jobs
  BY <1>5 DEF NoJob, Jobs
<1> HIDE DEF j
<1>9. JobOK(b, j, "examine")
  <2>1. Positions(b, j)
    BY <1>1, <1>5, <1>6, <1>7 DEF Positions
  <2>2. Validated(j, "examine")
    BY <1>7 DEF Validated
  <2>3. Unsettled(j, "examine")
    BY <1>5, <1>6, <1>7 DEF Unsettled
  <2> QED
    BY <1>8, <2>1, <2>2, <2>3 DEF JobOK, PCs
<1> QED
  BY <1>9 DEF j, req, res, Request

\* Field updates stay jobs.
LEMMA JobUpdate ==
    ASSUME NEW j \in Jobs, NEW q \in Seq(Results), NEW n \in Nat,
           NEW t \in SUBSET Nat, NEW c \in Generations \cup {None},
           NEW r \in {"repair", "skip", "write"}
    PROVE  /\ [j EXCEPT !.results = q] \in Jobs
           /\ [j EXCEPT !.results = q, !.at = n] \in Jobs
           /\ [j EXCEPT !.results = q, !.at = n, !.route = r,
                        !.compared = c] \in Jobs
           /\ [j EXCEPT !.batch = t, !.at = n] \in Jobs
           /\ [j EXCEPT !.compared = c, !.route = r] \in Jobs
           /\ [j EXCEPT !.route = r] \in Jobs
BY DEF Jobs

\* The job after the result at a position was set and the position passed.
LEMMA SettledJob ==
    ASSUME NEW b \in Batchers, NEW k \in PCs \ {"release", "done"}, NEW j,
           JobOK(b, j, k), j.at \in DOMAIN j.req, NEW r \in Results
    PROVE  LET e == [j EXCEPT !.results[j.at] = r, !.at = @ + 1]
               f == [j EXCEPT !.results[j.at] = r, !.at = @ + 1,
                              !.route = "write", !.compared = None]
           IN  /\ JobOK(b, e, "examine") /\ JobOK(b, f, "examine")
               /\ e.req = j.req /\ f.req = j.req
               /\ e.results = [j.results EXCEPT ![j.at] = r]
               /\ f.results = [j.results EXCEPT ![j.at] = r]
<1> DEFINE q == [j.results EXCEPT ![j.at] = r]
           n == j.at + 1
           e == [j EXCEPT !.results[j.at] = r, !.at = @ + 1]
           f == [j EXCEPT !.results[j.at] = r, !.at = @ + 1,
                          !.route = "write", !.compared = None]
<1>1. j \in Jobs /\ DOMAIN j.results = DOMAIN j.req /\ n \in Nat
      /\ j.req \in Seq(Candidates) /\ j.results \in Seq(Results)
  BY DEF JobOK, Positions, Jobs
<1>2. q \in Seq(Results) /\ DOMAIN q = DOMAIN j.results
      /\ \A i \in DOMAIN q : i # j.at => q[i] = j.results[i]
  BY <1>1, SeqExcept
<1>3. /\ e = [j EXCEPT !.results = q, !.at = n]
      /\ f = [j EXCEPT !.results = q, !.at = n, !.route = "write",
                       !.compared = None]
  BY <1>1 DEF Jobs
<1>4. /\ e.req = j.req /\ e.results = q /\ e.at = n /\ e.batch = j.batch
      /\ f.req = j.req /\ f.results = q /\ f.at = n /\ f.batch = j.batch
  BY <1>1 DEF Jobs
<1>5. e \in Jobs /\ f \in Jobs
  <2> HIDE DEF e, f, q, n
  <2> QED
    BY <1>1, <1>2, <1>3, JobUpdate
<1>6. \A i \in DOMAIN j.req : i >= n \/ i \in j.batch => q[i].did # "commit"
  BY <1>1, <1>2 DEF JobOK, Positions, Unsettled
<1>7. n \in 1..(Len(j.req) + 1) /\ j.batch \subseteq 1..(n - 1)
  BY <1>1 DEF JobOK, Positions
<1> HIDE DEF q, e, f, n
<1>8. Positions(b, e) /\ Positions(b, f)
  BY <1>1, <1>2, <1>4, <1>7 DEF JobOK, Positions
<1>9. Validated(e, "examine") /\ Validated(f, "examine")
  BY <1>4 DEF JobOK, Validated
<1>10. Unsettled(e, "examine") /\ Unsettled(f, "examine")
  BY <1>4, <1>6 DEF Unsettled
<1>11. JobOK(b, e, "examine") /\ JobOK(b, f, "examine")
  BY <1>5, <1>8, <1>9, <1>10 DEF JobOK, PCs
<1> QED
  BY <1>4, <1>11 DEF e, f, q
\* The job after a validated candidate of a new session was admitted.
LEMMA AdmittedJob ==
    ASSUME NEW b \in Batchers, NEW j, JobOK(b, j, "examine"),
           j.at \in DOMAIN j.req, j.req[j.at].content # Bad,
           \A i \in 1..(j.at - 1) : j.req[i].session # j.req[j.at].session
    PROVE  LET e == [j EXCEPT !.batch = @ \cup {j.at}, !.at = @ + 1]
           IN  /\ JobOK(b, e, "examine")
               /\ e.req = j.req /\ e.results = j.results
<1> DEFINE n == j.at + 1
           t == j.batch \cup {j.at}
           e == [j EXCEPT !.batch = @ \cup {j.at}, !.at = @ + 1]
<1>1. j \in Jobs /\ n \in Nat /\ t \in SUBSET Nat
      /\ j.results \in Seq(Results) /\ j.req \in Seq(Candidates)
  BY DEF JobOK, Positions, Jobs
<1>2. e = [j EXCEPT !.batch = t, !.at = n]
  BY <1>1 DEF Jobs
<1>3. /\ e.req = j.req /\ e.results = j.results /\ e.at = n /\ e.batch = t
  BY <1>1 DEF Jobs
<1>4. e \in Jobs
  <2> HIDE DEF e, t, n
  <2> QED
    BY <1>1, <1>2 DEF Jobs
<1>5. n \in 1..(Len(j.req) + 1) /\ t \subseteq 1..(n - 1)
  BY <1>1 DEF JobOK, Positions
<1>6. /\ \A i \in t : j.req[i].content # Bad
      /\ \A i, h \in t : j.req[i].session = j.req[h].session => i = h
      /\ \A i \in DOMAIN j.req : i >= n \/ i \in t
            => j.results[i].did # "commit"
  BY <1>1 DEF JobOK, Positions, Validated, Unsettled
<1> HIDE DEF n, t, e
<1>7. Positions(b, e)
  BY <1>1, <1>3, <1>5 DEF JobOK, Positions
<1>8. Validated(e, "examine") /\ Unsettled(e, "examine")
  BY <1>3, <1>6 DEF Validated, Unsettled
<1>9. JobOK(b, e, "examine")
  BY <1>4, <1>7, <1>8 DEF JobOK, PCs
<1> QED
  BY <1>3, <1>9 DEF e

\* The job after the results of the batch were set.
LEMMA ReleasingJob ==
    ASSUME NEW b \in Batchers, NEW k \in PCs, NEW j, JobOK(b, j, k),
           NEW q \in [DOMAIN j.results -> Results],
           \A i \in DOMAIN q : i >= j.at => q[i].did # "commit"
    PROVE  LET e == [j EXCEPT !.results = q]
           IN  JobOK(b, e, "release") /\ e.req = j.req /\ e.results = q
               /\ e.batch = j.batch /\ e.at = j.at
<1> DEFINE e == [j EXCEPT !.results = q]
<1>1. j \in Jobs /\ j.results \in Seq(Results) /\ j.req \in Seq(Candidates)
  BY DEF JobOK, Jobs
<1>2. q \in Seq(Results) /\ DOMAIN q = DOMAIN j.results
  BY <1>1, SeqRemake
<1>3. e.req = j.req /\ e.results = q /\ e.at = j.at /\ e.batch = j.batch
  BY <1>1 DEF Jobs
<1>4. e \in Jobs
  BY <1>1, <1>2 DEF Jobs
<1> HIDE DEF e
<1>5. Positions(b, e) /\ Validated(e, "release")
  BY <1>2, <1>3 DEF JobOK, Positions, Validated
<1>6. Unsettled(e, "release")
  BY <1>1, <1>2, <1>3 DEF Unsettled, JobOK, Positions
<1> QED
  BY <1>3, <1>4, <1>5, <1>6 DEF JobOK, PCs, e

\* A job that goes on unchanged.
LEMMA SameJob ==
    ASSUME NEW b \in Batchers, NEW k, NEW j, JobOK(b, j, k), NEW h \in PCs,
           h \in {"route", "single"} =>
              j.at \in DOMAIN j.req /\ j.req[j.at].content # Bad,
           h \in {"release", "done"} \/ k \notin {"release", "done"}
    PROVE  JobOK(b, j, h)
BY DEF JobOK, Validated, Unsettled, PCs

\* What the candidate in hand is made of.
LEMMA CandidateTypes ==
    ASSUME BatchTypes, NEW b \in Batchers,
           pc[b] \in {"route", "single"} \/ Examining(b)
    PROVE  /\ job[b].at \in DOMAIN job[b].req
           /\ Candidate(b) \in Candidates
           /\ Candidate(b).session \in Sessions
           /\ Candidate(b).expected \in Nat
           /\ Candidate(b).id = [by |-> b, at |-> job[b].at]
           /\ ~Examining(b) \/ ~Rejected(b) => Candidate(b).content # Bad
<1>1. JobOK(b, job[b], pc[b])
  BY DEF BatchTypes, JobsOK
<1>2. job[b].at \in DOMAIN job[b].req
  BY <1>1 DEF JobOK, Validated, Examining
<1>3. job[b].req \in Seq(Candidates)
  BY <1>1 DEF JobOK, Jobs
<1>4. Candidate(b) \in Candidates
  BY <1>2, <1>3 DEF Candidate
<1>5. Candidate(b).id = [by |-> b, at |-> job[b].at]
  BY <1>1, <1>2 DEF JobOK, Positions, Candidate
<1>6. ~Examining(b) \/ ~Rejected(b) => Candidate(b).content # Bad
  BY <1>1 DEF JobOK, Validated, Candidate, Rejected
<1> QED
  BY <1>2, <1>4, <1>5, <1>6 DEF Candidates

\* The generation of a validated candidate.
LEMMA GenerationTypes ==
    ASSUME NEW c \in Candidates, c.content # Bad
    PROVE  Generation(c) \in Generations
BY DEF Generation, Generations, Candidates

\* What the batch holds.
LEMMA BatchMembers ==
    ASSUME BatchTypes, NEW b \in Batchers, NEW i \in job[b].batch
    PROVE  /\ i \in DOMAIN job[b].req
           /\ i \in DOMAIN job[b].results
           /\ i < job[b].at
           /\ job[b].req[i] \in Candidates
           /\ job[b].req[i].session \in Sessions
           /\ job[b].req[i].session \in Spanned(b)
           /\ job[b].req[i].expected \in Nat
           /\ Generation(job[b].req[i]) \in Generations
<1>1. JobOK(b, job[b], pc[b])
  BY DEF BatchTypes, JobsOK
<1>2. job[b].req \in Seq(Candidates)
  BY <1>1 DEF JobOK, Jobs
<1>3. i \in DOMAIN job[b].req /\ i \in DOMAIN job[b].results /\ i < job[b].at
  BY <1>1, <1>2 DEF JobOK, Positions
<1>4. job[b].req[i] \in Candidates /\ job[b].req[i].content # Bad
  BY <1>1, <1>2, <1>3 DEF JobOK, Validated
<1> QED
  BY <1>3, <1>4, GenerationTypes DEF Candidates, Spanned
\* The transaction of a batch keeps the types of the store.
LEMMA InstallTypes ==
    ASSUME BatchTypes, NEW b \in Batchers,
           NEW done \in SUBSET Accepted(b), Install(done)
    PROVE  /\ active' \in [Sessions -> Generations \cup {None}]
           /\ stored' \in [Sessions -> SUBSET Generations]
           /\ revision' \in [Sessions -> Nat]
           /\ broken' \subseteq Sessions
<1> DEFINE of(s) == {c \in done : c.session = s}
           installed(s) == {Generation(c) : c \in of(s)}
<1>1. \A c \in done : Generation(c) \in Generations
  BY BatchMembers DEF Accepted
<1>2. \A s \in Sessions : installed(s) \subseteq Generations
  BY <1>1
<1>3. \A s \in Sessions : of(s) # {} =>
          (CHOOSE g \in installed(s) : TRUE) \in Generations
  <2> SUFFICES ASSUME NEW s \in Sessions, of(s) # {}
               PROVE  (CHOOSE g \in installed(s) : TRUE) \in Generations
    OBVIOUS
  <2>1. \E g : g \in installed(s)
    OBVIOUS
  <2> QED
    BY <2>1, <1>2
<1> QED
  BY <1>2, <1>3 DEF Install, BatchTypes, TypeOK

\* The results of a batch stay results.
LEMMA ResultsTypes ==
    ASSUME BatchTypes, NEW b \in Batchers, NEW done
    PROVE  /\ CommittedResults(b, done) \in [DOMAIN job[b].results -> Results]
           /\ \A i \in DOMAIN job[b].results : i >= job[b].at =>
                 CommittedResults(b, done)[i].did # "commit"
           /\ [i \in DOMAIN job[b].results |->
                 IF i \in job[b].batch THEN Refused ELSE job[b].results[i]]
                \in [DOMAIN job[b].results -> Results]
           /\ \A i \in DOMAIN job[b].results : i >= job[b].at =>
                 job[b].results[i].did # "commit"
<1>1. JobOK(b, job[b], pc[b])
  BY DEF BatchTypes, JobsOK
<1>2. job[b].results \in Seq(Results)
      /\ DOMAIN job[b].results = DOMAIN job[b].req
      /\ job[b].req \in Seq(Candidates)
  BY <1>1 DEF JobOK, Jobs, Positions
<1>3. \A i \in DOMAIN job[b].results : job[b].results[i] \in Results
  BY <1>2
<1>4. Refused \in Results /\ [did |-> "commit", err |-> FALSE] \in Results
  BY DEF Refused, Results
<1>5. \A i \in job[b].batch : i < job[b].at
  BY BatchMembers
<1>6. \A i \in DOMAIN job[b].results : i >= job[b].at =>
         job[b].results[i].did # "commit" /\ i \notin job[b].batch
  BY <1>1, <1>2, <1>5 DEF JobOK, Unsettled, Positions, Jobs
<1> QED
  BY <1>3, <1>4, <1>6 DEF CommittedResults

\* A step of a batcher keeps what it holds well formed.
LEMMA BatcherStep ==
    ASSUME BatchTypes, NEW b \in Batchers, Start(b) \/ Step(b) \/ Faults(b)
    PROVE  JobsOK' /\ job' \in [Batchers -> Jobs] /\ pc' \in [Batchers -> PCs]
<1> DEFINE Goal == /\ JobsOK' /\ job' \in [Batchers -> Jobs]
                   /\ pc' \in [Batchers -> PCs]
<1>0. /\ JobOK(b, job[b], pc[b])
      /\ pc[b] \in PCs
      /\ job \in [Batchers -> Jobs] /\ pc \in [Batchers -> PCs]
      /\ UNCHANGED <<pc, job>> => Goal
      /\ Refused \in Results
  BY DEF BatchTypes, JobsOK, TypeOK, Refused, Results
<1>1. ASSUME NEW j, NEW k, Proceed(b, j, k), JobOK(b, j, k) PROVE Goal
  BY <1>1, ProceedKeeps
<1>2. ASSUME NEW r \in Results, Settle(b, r), pc[b] \in {"route", "single"}
      PROVE  Goal
  <2>1. pc[b] \in PCs \ {"release", "done"} /\ job[b].at \in DOMAIN job[b].req
    BY <1>2, CandidateTypes DEF PCs
  <2> QED
    BY <1>0, <1>1, <1>2, <2>1, SettledJob DEF Settle
<1>3. ASSUME NEW k \in PCs, Proceed(b, job[b], k),
             k \in {"release", "done"} \/ pc[b] \notin {"release", "done"},
             k \in {"route", "single"} =>
                job[b].at \in DOMAIN job[b].req /\ Candidate(b).content # Bad
      PROVE  Goal
  BY <1>0, <1>1, <1>3, SameJob DEF Candidate
<1>4. ASSUME NEW q \in [DOMAIN job[b].results -> Results],
             \A i \in DOMAIN q : i >= job[b].at => q[i].did # "commit",
             Proceed(b, [job[b] EXCEPT !.results = q], "release")
      PROVE  Goal
  BY <1>0, <1>1, <1>4, ReleasingJob
<1>5. CASE Start(b)
  <2>1. PICK n \in 1..MaxLen, ss \in [1..MaxLen -> Sessions],
             cs \in [1..MaxLen -> Contents \cup {Bad}] :
          Proceed(b, Request(b, n, ss, cs), "examine")
    BY <1>5, Zenon DEF Start
  <2> QED
    BY <1>1, <2>1, StartJob, Zenon
<1>6. CASE Reject(b)
  <2>1. pc[b] \in PCs \ {"release", "done"} /\ job[b].at \in DOMAIN job[b].req
    BY <1>6 DEF Reject, Examining, PCs
  <2> QED
    BY <1>0, <1>1, <1>6, <2>1, SettledJob DEF Reject
<1>7. CASE Admit(b)
  <2>1. Examining(b) /\ ~Rejected(b) /\ job[b].at \in DOMAIN job[b].req
        /\ JobOK(b, job[b], "examine")
    BY <1>0, <1>7 DEF Admit, Examining
  <2>2. /\ job[b].req[job[b].at].content # Bad
        /\ \A i \in 1..(job[b].at - 1) :
              job[b].req[i].session # job[b].req[job[b].at].session
    BY <2>1 DEF Rejected, Candidate
  <2> QED
    BY <1>1, <1>7, <2>1, <2>2, AdmittedJob DEF Admit
<1>8. CASE Divert(b)
  BY <1>3, <1>8, CandidateTypes DEF Divert, Examining, PCs
<1>9. CASE Examined(b)
  BY <1>3, <1>9 DEF Examined, PCs
<1>10. CASE Route(b)
  <2> DEFINE s == Candidate(b).session
             r == IF s \in broken THEN "repair"
                  ELSE IF SameAsActive(Candidate(b)) THEN "skip" ELSE "write"
             j == [job[b] EXCEPT !.compared = active[s], !.route = r]
  <2>1. Proceed(b, j, "single") /\ pc[b] = "route"
    BY <1>10 DEF Route
  <2>2. s \in Sessions /\ r \in {"repair", "skip", "write"}
        /\ active[s] \in Generations \cup {None}
    BY <2>1, CandidateTypes DEF BatchTypes, TypeOK
  <2>3. j \in Jobs /\ j.req = job[b].req /\ j.results = job[b].results
        /\ j.at = job[b].at /\ j.batch = job[b].batch
    <3> HIDE DEF r, s
    <3> QED
      BY <1>0, <2>2 DEF Jobs
  <2> HIDE DEF j
  <2>4. JobOK(b, j, "single")
    BY <1>0, <2>1, <2>3 DEF JobOK, Positions, Validated, Unsettled, PCs
  <2> QED
    BY <1>1, <2>1, <2>4
<1>11. CASE RepairSingle(b)
  BY <1>2, <1>11 DEF RepairSingle, Results
<1>12. CASE SkipSingle(b)
  <2> DEFINE j == [job[b] EXCEPT !.route = "write"]
  <2>1. pc[b] = "single"
    BY <1>12 DEF SkipSingle
  <2>2. j \in Jobs /\ j.req = job[b].req /\ j.results = job[b].results
        /\ j.at = job[b].at /\ j.batch = job[b].batch
    BY <1>0 DEF Jobs
  <2> HIDE DEF j
  <2>3. JobOK(b, j, "single")
    BY <1>0, <2>1, <2>2 DEF JobOK, Positions, Validated, Unsettled, PCs
  <2>4. \/ Settle(b, [did |-> "skip", err |-> FALSE])
        \/ Proceed(b, j, "single")
    BY <1>12 DEF SkipSingle, j
  <2> QED
    BY <1>1, <1>2, <2>1, <2>3, <2>4 DEF Results
<1>13. CASE WriteSingle(b)
  <2>1. /\ pc[b] = "single"
        /\ \/ Settle(b, [did |-> "commit", err |-> FALSE])
           \/ Settle(b, Refused)
    BY <1>13 DEF WriteSingle
  <2> QED
    BY <1>0, <1>2, <2>1 DEF Results
<1>14. CASE SingleFails(b)
  BY <1>0, <1>2, <1>14 DEF SingleFails
<1>15. CASE Stage(b)
  BY <1>3, <1>15 DEF Stage, PCs
<1>16. CASE LockNext(b) \/ Release(b)
  BY <1>0, <1>16 DEF LockNext, Release
<1>17. CASE BatchFails(b) \/ CommitAborts(b)
  <2>1. FailBatch(b) /\ pc[b] \in {"stage", "lock"}
    BY <1>17 DEF BatchFails, CommitAborts
  <2>2. \A i \in DOMAIN job[b].results : i >= job[b].at =>
          [h \in DOMAIN job[b].results |-> IF h \in job[b].batch THEN Refused
              ELSE job[b].results[h]][i].did # "commit"
    BY ResultsTypes DEF Refused
  <2> QED
    BY <1>4, <2>1, <2>2, ResultsTypes DEF FailBatch
<1>18. CASE Commit(b)
  BY <1>4, <1>18, ResultsTypes DEF Commit
<1>19. CASE CommitPartly(b)
  BY <1>4, <1>19, ResultsTypes DEF CommitPartly
<1>20. CASE Finish(b)
  BY <1>3, <1>20 DEF Finish, PCs
<1>21. CASE MirrorPassFails(b)
  <2>1. PICK i \in job[b].batch :
          /\ job[b].results[i].did = "commit"
          /\ Proceed(b, [job[b] EXCEPT !.results[i].err = TRUE], "release")
    BY <1>21 DEF MirrorPassFails
  <2> DEFINE q == [job[b].results EXCEPT ![i].err = TRUE]
  <2>2. [job[b] EXCEPT !.results[i].err = TRUE]
          = [job[b] EXCEPT !.results = q]
    OBVIOUS
  <2>3. i \in DOMAIN job[b].results /\ i < job[b].at
    BY BatchMembers
  <2>4. job[b].results \in Seq(Results) /\ job[b].at \in Nat
    BY <1>0 DEF JobOK, Jobs
  <2>5. q \in [DOMAIN job[b].results -> Results]
    <3> DEFINE r == [job[b].results[i] EXCEPT !.err = TRUE]
    <3>1. job[b].results[i] \in Results
      BY <2>3, <2>4
    <3>2. r \in Results
      BY <3>1 DEF Results
    <3> HIDE DEF r
    <3>3. [job[b].results EXCEPT ![i] = r]
            \in [DOMAIN job[b].results -> Results]
      BY <2>3, <2>4, <3>2
    <3> QED
      BY <3>3 DEF r
  <2>6. \A h \in DOMAIN q : h >= job[b].at => q[h].did # "commit"
    <3>1. \A h \in DOMAIN job[b].results : h # i => q[h] = job[b].results[h]
      BY <2>4
    <3>2. i \in Nat /\ DOMAIN q = DOMAIN job[b].results
      BY <2>3, <2>4
    <3> QED
      BY <2>3, <2>4, <3>1, <3>2, ResultsTypes
  <2> QED
    BY <1>4, <2>1, <2>2, <2>5, <2>6
<1>22. CASE Crash(b)
  BY <1>1, <1>22, EmptyJob DEF Crash
<1> QED
  BY <1>5, <1>6, <1>7, <1>8, <1>9, <1>10, <1>11, <1>12, <1>13, <1>14, <1>15,
     <1>16, <1>17, <1>18, <1>19, <1>20, <1>21, <1>22 DEF Step, Faults
\* Every step keeps the types and what the batchers hold.
LEMMA TypeStep ==
    ASSUME BatchTypes, [Next]_vars
    PROVE  BatchTypes'
<1> USE DEF BatchTypes, TypeOK
<1>1. CASE UNCHANGED vars
  BY <1>1 DEF vars, store, JobsOK
<1>2. ASSUME NEW w \in Sweepers, SweepLock(w) \/ SweepUnlock(w)
      PROVE  BatchTypes'
  BY <1>2 DEF SweepLock, SweepUnlock, Spend, Held, Holders, Bounds, store,
     JobsOK
<1>3. CASE Rot
  BY <1>3 DEF Rot, Spend, Bounds, JobsOK
<1>4. ASSUME NEW b \in Batchers, Start(b) \/ Step(b) \/ Faults(b)
      PROVE  BatchTypes'
  <2>1. JobsOK' /\ job' \in [Batchers -> Jobs] /\ pc' \in [Batchers -> PCs]
    BY <1>4, BatcherStep
  <2>2. lock' \in [Sessions -> Holders]
    BY <1>4 DEF Start, Step, Faults, Reject, Admit, Divert, Examined, Route,
       RepairSingle, SkipSingle, WriteSingle, Stage, LockNext, Commit, Release,
       Finish, SingleFails, BatchFails, CommitPartly, CommitAborts,
       MirrorPassFails, Crash, Held, Holders, Unlocked, Spanned
  <2>3. left' \in Bounds
    <3>1. Spend("faults") => left' \in Bounds
      BY DEF Spend, Bounds
    <3>2. Start(b) => left' \in Bounds
      <4> SUFFICES ASSUME NEW n \in 1..MaxLen, n <= left.candidates,
                          left' = [left EXCEPT !.candidates = @ - n]
                   PROVE  left' \in Bounds
        BY Zenon DEF Start
      <4>1. left.candidates \in Nat /\ left.candidates - n \in Nat
        BY BoundsAssumption DEF Bounds
      <4> QED
        BY <4>1 DEF Bounds
    <3> QED
      BY <1>4, <3>1, <3>2 DEF Step, Faults, Reject, Admit, Divert, Examined,
         Route, RepairSingle, SkipSingle, WriteSingle, Stage, LockNext, Commit,
         Release, Finish, SingleFails, BatchFails, CommitPartly, CommitAborts,
         MirrorPassFails, Crash
  <2>4. /\ active' \in [Sessions -> Generations \cup {None}]
        /\ stored' \in [Sessions -> SUBSET Generations]
        /\ revision' \in [Sessions -> Nat]
        /\ broken' \subseteq Sessions
    <3>1. CASE RepairSingle(b)
      <4>1. /\ pc[b] = "single"
            /\ revision' = [revision EXCEPT ![Candidate(b).session] = @ + 1]
            /\ broken' = broken \ {Candidate(b).session}
            /\ UNCHANGED <<active, stored>>
        BY <3>1 DEF RepairSingle
      <4>2. Candidate(b).session \in Sessions
        BY <4>1, CandidateTypes
      <4>3. revision' \in [Sessions -> Nat]
        BY <4>1, <4>2
      <4> QED
        BY <4>1, <4>3
    <3>2. CASE SkipSingle(b)
      <4>1. UNCHANGED <<active, stored, broken>>
            /\ \/ revision' = [revision EXCEPT ![Candidate(b).session] = @ + 1]
               \/ UNCHANGED revision
        BY <3>2 DEF SkipSingle
      <4>2. pc[b] = "single"
        BY <3>2 DEF SkipSingle
      <4> QED
        BY <4>1, <4>2, CandidateTypes
    <3>3. CASE WriteSingle(b)
      <4>1. Candidate(b).session \in Sessions
            /\ Generation(Candidate(b)) \in Generations
        BY <3>3, CandidateTypes, GenerationTypes DEF WriteSingle, Examining
      <4> QED
        BY <3>3, <4>1 DEF WriteSingle, store
    <3>4. CASE Commit(b)
      BY <3>4, InstallTypes DEF Commit
    <3>5. CASE CommitPartly(b)
      BY <3>5, InstallTypes DEF CommitPartly
    <3>6. CASE UNCHANGED store
      BY <3>6 DEF store
    <3> QED
      BY <1>4, <3>1, <3>2, <3>3, <3>4, <3>5, <3>6
         DEF Start, Step, Faults, Reject, Admit, Divert, Examined, Route,
         Stage, LockNext, Release, Finish, SingleFails, BatchFails,
         CommitAborts, MirrorPassFails, Crash
  <2> QED
    BY <2>1, <2>2, <2>3, <2>4
<1> QED
  BY <1>1, <1>2, <1>3, <1>4 DEF Next
\* The types hold at the start.
LEMMA TypeInit == Init => BatchTypes
<1> SUFFICES ASSUME Init PROVE BatchTypes
  OBVIOUS
<1>1. job \in [Batchers -> Jobs] /\ pc \in [Batchers -> PCs] /\ JobsOK
  <2>1. \A b \in Batchers : JobOK(b, NoJob, "idle")
    BY EmptyJob
  <2> QED
    BY <2>1 DEF Init, JobsOK, JobOK
<1>2. active \in [Sessions -> Generations \cup {None}]
  <2>1. PICK first \in [Sessions -> Contents \cup {None}] :
          active = [s \in Sessions |->
              IF first[s] = None THEN None
              ELSE [id |-> [by |-> None, at |-> 0], content |-> first[s],
                    expected |-> 0]]
    BY DEF Init
  <2>2. [by |-> None, at |-> 0] \in Ids
    BY BoundsAssumption DEF Ids
  <2> QED
    BY <2>1, <2>2 DEF Generations
<1>3. stored \in [Sessions -> SUBSET Generations]
  BY <1>2 DEF Init
<1> QED
  BY <1>1, <1>2, <1>3, BoundsAssumption
     DEF Init, BatchTypes, TypeOK, Holders

\* The type invariant.
THEOREM TypeCorrect == Spec => []TypeOK
<1>1. BatchTypes /\ [Next]_vars => BatchTypes'
  BY TypeStep
<1>2. BatchTypes => TypeOK
  BY DEF BatchTypes
<1> QED
  BY TypeInit, <1>1, <1>2, PTL DEF Spec
(***************************************************************************)
(* Locks.  A batcher holds locks only while it takes or releases them, and *)
(* while it takes them every lock it holds is below every one it lacks.    *)
(***************************************************************************)
HeldWhileLocking ==
    \A b \in Batchers, s \in Sessions :
        lock[s] = b => pc[b] \in {"lock", "release"}

Ascending ==
    \A b \in Batchers, s, t \in Sessions :
        pc[b] = "lock" /\ lock[s] = b /\ t \in Unlocked(b) => s < t

LockInv == HeldWhileLocking /\ Ascending

\* A step that moves only b.
Alone(b) ==
    \A c \in Batchers \ {b} : job'[c] = job[c] /\ pc'[c] = pc[c]

\* Every step of a batcher is its own, and says where it goes.
LEMMA ProceedAlone ==
    ASSUME BatchTypes, NEW b \in Batchers, NEW j, NEW k, Proceed(b, j, k)
    PROVE  Alone(b) /\ job'[b] = j /\ pc'[b] = k
BY DEF Alone, Proceed, BatchTypes, TypeOK

\* A step of a batcher that keeps the locks and does not go to take any.
LEMMA QuietLocks ==
    ASSUME BatchTypes, LockInv, NEW b \in Batchers, Alone(b), UNCHANGED lock,
           pc'[b] # "lock", pc'[b] = "release" \/ Held(b) = {}
    PROVE  LockInv'
<1>1. \A c \in Batchers : c # b => Unlocked(c)' = Unlocked(c)
  BY DEF Alone, Unlocked, Spanned, Held
<1> QED
  BY <1>1 DEF Alone, LockInv, HeldWhileLocking, Ascending, Held

\* Every step keeps the lock discipline.
LEMMA LockStep ==
    ASSUME BatchTypes, LockInv, [Next]_vars
    PROVE  LockInv'
<1>0. /\ lock \in [Sessions -> Holders] /\ pc \in [Batchers -> PCs]
      /\ \A b \in Batchers : pc[b] \notin {"lock", "release"} => Held(b) = {}
  BY DEF BatchTypes, TypeOK, LockInv, HeldWhileLocking, Held
<1>1. CASE UNCHANGED <<lock, pc, job>>
  BY <1>1 DEF LockInv, HeldWhileLocking, Ascending, Unlocked, Spanned, Held
<1>2. ASSUME NEW w \in Sweepers, SweepLock(w) \/ SweepUnlock(w)
      PROVE  LockInv'
  <2>1. UNCHANGED <<pc, job>>
        /\ \A b \in Batchers, s \in Sessions : lock'[s] = b <=> lock[s] = b
    BY <1>0, <1>2, ProcessAssumption
       DEF SweepLock, SweepUnlock, Held, Holders
  <2>2. \A b \in Batchers : Unlocked(b)' = Unlocked(b)
    BY <2>1 DEF Unlocked, Spanned, Held
  <2> QED
    BY <2>1, <2>2 DEF LockInv, HeldWhileLocking, Ascending
<1>3. ASSUME NEW b \in Batchers,
             \/ Start(b) \/ Reject(b) \/ Admit(b) \/ Divert(b) \/ Examined(b)
             \/ Route(b) \/ RepairSingle(b) \/ SkipSingle(b) \/ WriteSingle(b)
             \/ SingleFails(b)
      PROVE  LockInv'
  <2>1. pc[b] \in {"idle", "examine", "route", "single"} /\ UNCHANGED lock
    BY <1>3 DEF Start, Reject, Admit, Divert, Examined, Route, RepairSingle,
       SkipSingle, WriteSingle, SingleFails, Examining
  <2>2. Held(b) = {}
    BY <1>0, <2>1
  <2>3. Alone(b) /\ pc'[b] # "lock"
    <3>0. ASSUME NEW j, Proceed(b, j, "examine") \/ Proceed(b, j, "route")
                        \/ Proceed(b, j, "single")
          PROVE  Alone(b) /\ pc'[b] # "lock"
      BY <3>0, ProceedAlone
    <3>1. CASE Start(b) \/ Reject(b) \/ Admit(b) \/ Divert(b) \/ Route(b)
      BY <3>0, <3>1, Zenon DEF Start, Reject, Admit, Divert, Route
    <3>2. CASE Examined(b)
      BY <3>2, ProceedAlone DEF Examined
    <3>3. ASSUME NEW r, Settle(b, r) PROVE Alone(b) /\ pc'[b] # "lock"
      BY <3>3, ProceedAlone DEF Settle
    <3>4. CASE RepairSingle(b) \/ WriteSingle(b) \/ SingleFails(b)
      BY <3>3, <3>4 DEF RepairSingle, WriteSingle, SingleFails
    <3>5. CASE SkipSingle(b)
      BY <3>3, <3>5, ProceedAlone DEF SkipSingle
    <3> QED
      BY <1>3, <3>1, <3>2, <3>4, <3>5
  <2> QED
    BY <2>1, <2>2, <2>3, QuietLocks
<1>4. ASSUME NEW b \in Batchers,
             \/ Commit(b) \/ CommitPartly(b) \/ CommitAborts(b)
             \/ BatchFails(b) \/ MirrorPassFails(b)
      PROVE  LockInv'
  <2>1. UNCHANGED lock /\ Alone(b) /\ pc'[b] = "release"
    BY <1>4, ProceedAlone DEF Commit, CommitPartly, CommitAborts, BatchFails,
       MirrorPassFails, FailBatch
  <2> QED
    BY <2>1, QuietLocks
<1>5. ASSUME NEW b \in Batchers, Finish(b) PROVE LockInv'
  BY <1>5, ProceedAlone, QuietLocks DEF Finish
<1>6. ASSUME NEW b \in Batchers, Stage(b) PROVE LockInv'
  <2>1. Held(b) = {} /\ UNCHANGED <<lock, job>>
    BY <1>0, <1>6 DEF Stage, Proceed, BatchTypes, TypeOK
  <2>2. \A c \in Batchers : c # b => pc'[c] = pc[c]
    BY <1>0, <1>6 DEF Stage, Proceed
  <2>3. \A c \in Batchers : Unlocked(c)' = Unlocked(c)
    BY <2>1 DEF Unlocked, Spanned, Held
  <2> QED
    BY <2>1, <2>2, <2>3 DEF LockInv, HeldWhileLocking, Ascending, Held
<1>7. ASSUME NEW b \in Batchers, LockNext(b) PROVE LockInv'
  <2>1. PICK s \in Unlocked(b) : /\ \A t \in Unlocked(b) : s <= t
                                 /\ lock[s] = None
                                 /\ lock' = [lock EXCEPT ![s] = b]
    BY <1>7 DEF LockNext
  <2>2. pc[b] = "lock" /\ UNCHANGED <<pc, job>>
    BY <1>7 DEF LockNext
  <2>3. s \in Sessions
    BY BatchMembers DEF Unlocked, Spanned
  <2>4. \A c \in Batchers, t \in Sessions :
           lock'[t] = c <=> lock[t] = c \/ (t = s /\ c = b)
    BY <1>0, <2>1, <2>3, ProcessAssumption
  <2>5. \A c \in Batchers :
           Unlocked(c)' = Unlocked(c) \ (IF c = b THEN {s} ELSE {})
    BY <2>2, <2>3, <2>4 DEF Unlocked, Spanned, Held
  <2>6. \A t \in Unlocked(b)' : t \in Unlocked(b) /\ t # s
    BY <2>5
  <2>7. \A t \in Sessions : t \in Nat
    BY SessionsAssumption
  <2>8. Ascending'
    BY <2>1, <2>2, <2>3, <2>4, <2>5, <2>6, <2>7 DEF LockInv, Ascending
  <2> QED
    BY <2>2, <2>4, <2>8 DEF LockInv, HeldWhileLocking
<1>8. ASSUME NEW b \in Batchers, Release(b) \/ Crash(b) PROVE LockInv'
  <2>1. /\ \A c \in Batchers, s \in Sessions : lock'[s] = c => lock[s] = c
        /\ \A c \in Batchers \ {b}, s \in Sessions :
              lock'[s] = c <=> lock[s] = c
        /\ Release(b) \/ \A s \in Sessions : lock'[s] # b
    BY <1>0, <1>8, ProcessAssumption DEF Release, Crash, Held
  <2>2. \A c \in Batchers \ {b} : job'[c] = job[c] /\ pc'[c] = pc[c]
    BY <1>0, <1>8 DEF Release, Crash, Proceed, BatchTypes, TypeOK
  <2>3. pc'[b] \in {"release", "done"} /\ (Release(b) => pc'[b] = "release")
    BY <1>0, <1>8 DEF Release, Crash, Proceed
  <2>4. \A c \in Batchers \ {b} : Unlocked(c)' = Unlocked(c)
    BY <2>1, <2>2 DEF Unlocked, Spanned, Held
  <2> QED
    BY <2>1, <2>2, <2>3, <2>4 DEF LockInv, HeldWhileLocking, Ascending
<1> QED
  BY <1>1, <1>2, <1>3, <1>4, <1>5, <1>6, <1>7, <1>8
     DEF Next, Step, Faults, vars, Rot

\* No circle of batches waits on itself: whoever holds a lock that another
\* batch waits for is waiting, if at all, for a larger session.
THEOREM NoWaitCircle == Spec => []WaitsAscend
<1>1. Init => LockInv
  BY ProcessAssumption DEF Init, LockInv, HeldWhileLocking, Ascending
<1>2. BatchTypes /\ LockInv /\ [Next]_vars => LockInv'
  BY LockStep
<1>3. LockInv => WaitsAscend
  BY DEF LockInv, HeldWhileLocking, Ascending, WaitsAscend, Awaits
<1>4. BatchTypes /\ [Next]_vars => BatchTypes'
  BY TypeStep
<1> QED
  BY TypeInit, <1>1, <1>2, <1>3, <1>4, PTL DEF Spec

(***************************************************************************)
(* The store.  What b installs is a set `done` of its own candidates, each *)
(* built on the index state that is current, and its results say so.       *)
(***************************************************************************)
Chosen(done, s) == {c \in done : c.session = s}

Reports(j, i) == j.results[i].did = "commit"

Installs(b, done) ==
    /\ done \subseteq {job[b].req[i] : i \in DOMAIN job[b].req}
    /\ \A c, d \in done : c.session = d.session => c = d
    /\ \A c \in done : /\ c.expected = revision[c.session]
                       /\ lock[c.session] \in {None, b}
                       /\ c.session \in Sessions
    /\ \A s \in Sessions :
          /\ stored'[s] = stored[s] \cup {Generation(c) : c \in Chosen(done, s)}
          /\ IF Chosen(done, s) = {}
             THEN active'[s] = active[s] /\ revision'[s] = revision[s]
             ELSE revision'[s] = revision[s] + 1
    /\ Alone(b)
    /\ pc[b] \in {"single", "lock"} /\ pc'[b] # "idle"
    /\ job'[b].req = job[b].req
    /\ \A i \in DOMAIN job[b].req :
          Reports(job'[b], i) <=> Reports(job[b], i) \/ job[b].req[i] \in done

\* Nothing is installed; revisions only grow; b keeps its reports, starts with
\* an empty list or has died.
Idles(b) ==
    /\ UNCHANGED <<active, stored>>
    /\ \A s \in Sessions : revision'[s] >= revision[s]
    /\ Alone(b)
    /\ pc'[b] # "idle"
    /\ \/ /\ job'[b].req = job[b].req
          /\ \A i \in DOMAIN job[b].req : Reports(job'[b], i) <=> Reports(job[b], i)
       \/ /\ pc[b] = "idle"
          /\ \A i \in DOMAIN job'[b].req : ~Reports(job'[b], i)
       \/ job'[b].req = <<>>

\* The positions of a job carry its own identifiers.
LEMMA OwnIds ==
    ASSUME BatchTypes, NEW b \in Batchers, NEW i \in DOMAIN job[b].req
    PROVE  /\ job[b].req[i].id.by = b /\ job[b].req[i].id.at = i
           /\ job[b].req[i].session \in Sessions
           /\ job[b].req[i] \in Candidates
           /\ i \in DOMAIN job[b].results
<1>1. JobOK(b, job[b], pc[b])
  BY DEF BatchTypes, JobsOK
<1>2. job[b].req \in Seq(Candidates)
  BY <1>1 DEF JobOK, Jobs
<1>3. job[b].req[i] \in Candidates
  BY <1>2
<1>4. job[b].req[i].id = [by |-> b, at |-> i]
      /\ i \in DOMAIN job[b].results
  BY <1>1 DEF JobOK, Positions
<1> QED
  BY <1>3, <1>4 DEF Candidates

\* A candidate on the single-session path is settled with the result r.
LEMMA SettleReports ==
    ASSUME BatchTypes, NEW b \in Batchers, pc[b] \in {"route", "single"},
           NEW r \in Results, Settle(b, r)
    PROVE  /\ Alone(b) /\ pc'[b] = "examine"
           /\ job[b].at \in DOMAIN job[b].req
           /\ job'[b].req = job[b].req
           /\ ~Reports(job[b], job[b].at)
           /\ Reports(job'[b], job[b].at) <=> r.did = "commit"
           /\ \A i \in DOMAIN job[b].req \ {job[b].at} :
                 Reports(job'[b], i) <=> Reports(job[b], i)
<1> DEFINE f == [job[b] EXCEPT !.results[job[b].at] = r, !.at = @ + 1,
                               !.route = "write", !.compared = None]
<1>1. Alone(b) /\ pc'[b] = "examine" /\ job'[b] = f
  BY ProceedAlone DEF Settle
<1>2. JobOK(b, job[b], pc[b]) /\ pc[b] \in PCs \ {"release", "done"}
  BY DEF BatchTypes, JobsOK, PCs
<1>3. job[b].at \in DOMAIN job[b].req
  BY CandidateTypes
<1>4. f.req = job[b].req
      /\ f.results = [job[b].results EXCEPT ![job[b].at] = r]
  BY <1>2 DEF JobOK, Jobs
<1>5. ~Reports(job[b], job[b].at)
  BY <1>2, <1>3 DEF JobOK, Unsettled, Reports, Jobs
<1>6. DOMAIN job[b].results = DOMAIN job[b].req
  BY <1>2 DEF JobOK, Positions
<1> HIDE DEF f
<1>7. job'[b].results[job[b].at] = r
      /\ \A i \in DOMAIN job[b].req \ {job[b].at} :
            job'[b].results[i] = job[b].results[i]
  BY <1>1, <1>3, <1>4, <1>6
<1> QED
  BY <1>1, <1>3, <1>4, <1>5, <1>7 DEF Reports

\* The single-session write installs its candidate or nothing.
LEMMA WriteSingleInstalls ==
    ASSUME BatchTypes, NEW b \in Batchers, WriteSingle(b)
    PROVE  \E done : Installs(b, done)
<1> DEFINE c == Candidate(b)
           done == IF Accepts(c) THEN {c} ELSE {}
           r == IF Accepts(c) THEN [did |-> "commit", err |-> FALSE]
                ELSE Refused
<1>1. pc[b] = "single" /\ lock[c.session] = None /\ Settle(b, r)
  BY DEF WriteSingle
<1>2. /\ c \in Candidates /\ c.session \in Sessions
      /\ job[b].at \in DOMAIN job[b].req
      /\ c = job[b].req[job[b].at]
  BY <1>1, CandidateTypes DEF Candidate
<1>3. r \in Results /\ (r.did = "commit" <=> Accepts(c))
  BY DEF Refused, Results
<1>4. c \in done <=> Accepts(c)
  OBVIOUS
<1>5. \A i \in DOMAIN job[b].req : job[b].req[i] = c => i = job[b].at
  <2> HIDE DEF c
  <2> QED
    BY <1>2, OwnIds
<1>6. /\ Alone(b) /\ pc'[b] = "examine"
      /\ job'[b].req = job[b].req
      /\ ~Reports(job[b], job[b].at)
      /\ Reports(job'[b], job[b].at) <=> Accepts(c)
      /\ \A i \in DOMAIN job[b].req \ {job[b].at} :
            Reports(job'[b], i) <=> Reports(job[b], i)
  <2> HIDE DEF c, r
  <2> QED
    BY <1>1, <1>3, SettleReports
<1>7. \A i \in DOMAIN job[b].req :
         Reports(job'[b], i) <=> Reports(job[b], i) \/ job[b].req[i] \in done
  <2>1. \A d \in done : d = c
    OBVIOUS
  <2> HIDE DEF c, done
  <2> QED
    BY <1>2, <1>4, <1>5, <1>6, <2>1
<1>8. \A s \in Sessions :
          /\ stored'[s] = stored[s] \cup {Generation(d) : d \in Chosen(done, s)}
          /\ IF Chosen(done, s) = {}
             THEN active'[s] = active[s] /\ revision'[s] = revision[s]
             ELSE revision'[s] = revision[s] + 1
  <2>1. CASE Accepts(c)
    <3>1. /\ active' = [active EXCEPT ![c.session] = Generation(c)]
          /\ stored' = [stored EXCEPT ![c.session] = @ \cup {Generation(c)}]
          /\ revision' = [revision EXCEPT ![c.session] = @ + 1]
      BY <2>1 DEF WriteSingle
    <3>2. \A s \in Sessions :
             Chosen(done, s) = IF s = c.session THEN {c} ELSE {}
      BY <2>1 DEF Chosen
    <3> HIDE DEF c, done
    <3> QED
      BY <1>2, <3>1, <3>2 DEF BatchTypes, TypeOK
  <2>2. CASE ~Accepts(c)
    <3>1. UNCHANGED store /\ done = {}
      BY <2>2 DEF WriteSingle, store
    <3>2. \A s \in Sessions : Chosen(done, s) = {}
      BY <3>1 DEF Chosen
    <3> QED
      BY <3>1, <3>2 DEF store
  <2> QED
    BY <2>1, <2>2
<1>9. \A d \in done : /\ d = c
                      /\ d.expected = revision[d.session]
                      /\ lock[d.session] \in {None, b}
                      /\ d.session \in Sessions
                      /\ d \in {job[b].req[i] : i \in DOMAIN job[b].req}
  BY <1>1, <1>2 DEF Accepts
<1> HIDE DEF c, done, r
<1> QED
  BY <1>1, <1>6, <1>7, <1>8, <1>9 DEF Installs
\* The transaction of a batch installs accepted candidates of the batch.
LEMMA CommitInstalls ==
    ASSUME BatchTypes, NEW b \in Batchers, pc[b] = "lock", Unlocked(b) = {},
           NEW done \in SUBSET Accepted(b), Install(done),
           Proceed(b, [job[b] EXCEPT !.results = CommittedResults(b, done)],
                   "release")
    PROVE  Installs(b, done)
<1> DEFINE q == CommittedResults(b, done)
           j == [job[b] EXCEPT !.results = q]
<1>1. JobOK(b, job[b], "lock")
  BY DEF BatchTypes, JobsOK
<1>2. Alone(b) /\ pc'[b] = "release" /\ job'[b] = j
  BY ProceedAlone
<1>3. j.req = job[b].req /\ j.results = q
  BY <1>1 DEF JobOK, Jobs
<1>4. \A c \in done : \E i \in job[b].batch : c = job[b].req[i]
  BY DEF Accepted
<1>5. \A c \in done : /\ c.expected = revision[c.session]
                      /\ c.session \in Sessions
                      /\ lock[c.session] = b
  <2> SUFFICES ASSUME NEW c \in done
               PROVE  /\ c.expected = revision[c.session]
                      /\ c.session \in Sessions
                      /\ lock[c.session] = b
    OBVIOUS
  <2>1. PICK i \in job[b].batch : c = job[b].req[i]
    BY <1>4
  <2>2. c.session \in Sessions /\ c.session \in Spanned(b)
    BY <2>1, BatchMembers
  <2> QED
    BY <2>2 DEF Accepted, Accepts, Unlocked, Held
<1>6. \A c, d \in done : c.session = d.session => c = d
  BY <1>1, <1>4 DEF JobOK, Validated
<1>7. done \subseteq {job[b].req[i] : i \in DOMAIN job[b].req}
  BY <1>4, BatchMembers
<1>8. \A s \in Sessions :
          /\ stored'[s] = stored[s] \cup {Generation(c) : c \in Chosen(done, s)}
          /\ IF Chosen(done, s) = {}
             THEN active'[s] = active[s] /\ revision'[s] = revision[s]
             ELSE revision'[s] = revision[s] + 1
  BY DEF Install, Chosen
<1>9. \A i \in DOMAIN job[b].req :
          Reports(job'[b], i) <=> Reports(job[b], i) \/ job[b].req[i] \in done
  <2> SUFFICES ASSUME NEW i \in DOMAIN job[b].req
               PROVE  Reports(job'[b], i)
                        <=> Reports(job[b], i) \/ job[b].req[i] \in done
    OBVIOUS
  <2>1. i \in DOMAIN job[b].results
        /\ job'[b].results[i] = CommittedResults(b, done)[i]
    BY <1>2, <1>3, OwnIds
  <2>2. CASE i \in job[b].batch
    <3>1. ~Reports(job[b], i)
      BY <1>1, <2>2 DEF JobOK, Unsettled, Reports
    <3>2. Reports(job'[b], i) <=> job[b].req[i] \in done
      BY <2>1, <2>2 DEF Reports, CommittedResults, Refused
    <3> QED
      BY <3>1, <3>2
  <2>3. CASE i \notin job[b].batch
    <3>1. job'[b].results[i] = job[b].results[i]
      BY <2>1, <2>3 DEF CommittedResults
    <3>2. job[b].req[i] \notin done
      <4> SUFFICES ASSUME job[b].req[i] \in done PROVE FALSE
        OBVIOUS
      <4>1. PICK h \in job[b].batch : job[b].req[i] = job[b].req[h]
        BY <1>4
      <4>2. h \in DOMAIN job[b].req
        BY BatchMembers
      <4>3. job[b].req[i].id.at = i /\ job[b].req[h].id.at = h
        BY <4>2, OwnIds
      <4> QED
        BY <2>3, <4>1, <4>3
    <3> QED
      BY <3>1, <3>2 DEF Reports
  <2> QED
    BY <2>2, <2>3
<1> HIDE DEF j
<1> QED
  BY <1>2, <1>3, <1>5, <1>6, <1>7, <1>8, <1>9 DEF Installs

\* The settling of a candidate that is not written.
LEMMA SettleIdles ==
    ASSUME BatchTypes, NEW b \in Batchers, pc[b] \in {"route", "single"},
           NEW r \in Results, r.did # "commit", Settle(b, r),
           UNCHANGED <<active, stored>>,
           \A s \in Sessions : revision'[s] >= revision[s]
    PROVE  Idles(b)
BY SettleReports DEF Idles

\* A step that keeps the job's request and its reports.
LEMMA SameReportsIdles ==
    ASSUME BatchTypes, NEW b \in Batchers, NEW j, NEW k, Proceed(b, j, k),
           k # "idle", UNCHANGED <<active, stored, revision>>,
           j.req = job[b].req,
           \A i \in DOMAIN job[b].req : Reports(j, i) <=> Reports(job[b], i)
    PROVE  Idles(b)
<1>1. Alone(b) /\ pc'[b] # "idle" /\ job'[b] = j
  BY ProceedAlone
<1>2. \A s \in Sessions : revision'[s] >= revision[s]
  BY DEF BatchTypes, TypeOK
<1> QED
  BY <1>1, <1>2 DEF Idles

\* Every step either moves nobody, or one batcher that installs or idles.
LEMMA StoreEffect ==
    ASSUME BatchTypes, [Next]_vars
    PROVE  \/ UNCHANGED <<active, stored, revision, pc, job>>
           \/ \E b \in Batchers : Idles(b) \/ \E done : Installs(b, done)
<1> DEFINE Goal ==
        \/ UNCHANGED <<active, stored, revision, pc, job>>
        \/ \E b \in Batchers : Idles(b) \/ \E done : Installs(b, done)
<1>1. CASE UNCHANGED vars
  BY <1>1 DEF vars, store
<1>2. ASSUME NEW w \in Sweepers, SweepLock(w) \/ SweepUnlock(w) PROVE Goal
  BY <1>2 DEF SweepLock, SweepUnlock, store
<1>3. CASE Rot
  BY <1>3 DEF Rot
<1>4. ASSUME NEW b \in Batchers, Start(b) \/ Step(b) \/ Faults(b) PROVE Goal
  <2>0. /\ JobOK(b, job[b], pc[b]) /\ job[b] \in Jobs
        /\ revision \in [Sessions -> Nat]
        /\ UNCHANGED revision =>
              \A s \in Sessions : revision'[s] >= revision[s]
        /\ Refused \in Results /\ Refused.did # "commit"
    BY DEF BatchTypes, JobsOK, TypeOK, Refused, Results
  <2>1. CASE Start(b)
    <3>1. PICK n \in 1..MaxLen, ss \in [1..MaxLen -> Sessions],
               cs \in [1..MaxLen -> Contents \cup {Bad}] :
          Proceed(b, Request(b, n, ss, cs), "examine")
      BY <2>1, Zenon DEF Start
    <3> DEFINE req == [i \in 1..n |->
                             [session |-> ss[i], id |-> [by |-> b, at |-> i],
                              content |-> cs[i],
                              expected |-> revision[ss[i]]]]
               res == [i \in 1..n |-> NotCommitted]
               j == [NoJob EXCEPT !.req = req, !.results = res]
    <3>2. Alone(b) /\ pc'[b] = "examine" /\ job'[b] = j
      BY <3>1, ProceedAlone DEF Request
    <3>3. DOMAIN req = 1..n /\ \A i \in 1..n : res[i].did # "commit"
      BY DEF NotCommitted
    <3> HIDE DEF req, res
    <3>4. j.req = req /\ j.results = res
      BY DEF NoJob
    <3> HIDE DEF j
    <3>5. \A i \in DOMAIN job'[b].req : ~Reports(job'[b], i)
      BY <3>2, <3>3, <3>4 DEF Reports
    <3> QED
      BY <2>0, <2>1, <3>2, <3>5 DEF Start, store, Idles
  <2>2. CASE Reject(b)
    <3> DEFINE j == [job[b] EXCEPT !.results[job[b].at] = Refused, !.at = @ + 1]
    <3>1. Proceed(b, j, "examine") /\ UNCHANGED <<active, stored, revision>>
          /\ job[b].at \in DOMAIN job[b].req /\ pc[b] = "examine"
      BY <2>2 DEF Reject, Examining, store
    <3>2. /\ j.req = job[b].req
          /\ j.results = [job[b].results EXCEPT ![job[b].at] = Refused]
      BY <2>0 DEF Jobs
    <3>3. ~Reports(job[b], job[b].at)
      BY <2>0, <3>1 DEF JobOK, Unsettled, Reports, Jobs
    <3>4. \A i \in DOMAIN job[b].req : Reports(j, i) <=> Reports(job[b], i)
      BY <2>0, <3>1, <3>2, <3>3, OwnIds DEF Reports
    <3> QED
      BY <3>1, <3>2, <3>4, SameReportsIdles
  <2>3. CASE Admit(b)
    <3> DEFINE j == [job[b] EXCEPT !.batch = @ \cup {job[b].at}, !.at = @ + 1]
    <3>1. Proceed(b, j, "examine") /\ UNCHANGED <<active, stored, revision>>
      BY <2>3 DEF Admit, store
    <3>2. j.req = job[b].req /\ j.results = job[b].results
      BY <2>0 DEF Jobs
    <3> HIDE DEF j
    <3> QED
      BY <3>1, <3>2, SameReportsIdles DEF Reports
  <2>4. CASE Divert(b) \/ Examined(b) \/ Stage(b) \/ Finish(b)
    BY <2>4, SameReportsIdles DEF Divert, Examined, Stage, Finish, store
  <2>5. CASE Route(b)
    <3> DEFINE s == Candidate(b).session
               r == IF s \in broken THEN "repair"
                    ELSE IF SameAsActive(Candidate(b)) THEN "skip" ELSE "write"
               j == [job[b] EXCEPT !.compared = active[s], !.route = r]
    <3>1. Proceed(b, j, "single") /\ UNCHANGED <<active, stored, revision>>
      BY <2>5 DEF Route, store
    <3> HIDE DEF s, r
    <3>2. j.req = job[b].req /\ j.results = job[b].results
      BY <2>0 DEF Jobs
    <3> HIDE DEF j
    <3> QED
      BY <3>1, <3>2, SameReportsIdles DEF Reports
  <2>6. CASE RepairSingle(b)
    <3>1. /\ pc[b] = "single" /\ Settle(b, [did |-> "repair", err |-> FALSE])
          /\ revision' = [revision EXCEPT ![Candidate(b).session] = @ + 1]
          /\ UNCHANGED <<active, stored>>
      BY <2>6 DEF RepairSingle
    <3>2. \A s \in Sessions : revision'[s] >= revision[s]
      BY <2>0, <3>1
    <3> QED
      BY <3>1, <3>2, SettleIdles DEF Results
  <2>7. CASE SkipSingle(b)
    <3> DEFINE j == [job[b] EXCEPT !.route = "write"]
    <3>1. CASE /\ Settle(b, [did |-> "skip", err |-> FALSE])
               /\ revision' = [revision EXCEPT ![Candidate(b).session] = @ + 1]
      <4>1. \A s \in Sessions : revision'[s] >= revision[s]
        BY <2>0, <3>1
      <4> QED
        BY <2>7, <3>1, <4>1, SettleIdles DEF SkipSingle, Results
    <3>2. CASE Proceed(b, j, "single") /\ UNCHANGED revision
      <4>1. j.req = job[b].req /\ j.results = job[b].results
        BY <2>0 DEF Jobs
      <4>2. UNCHANGED <<active, stored>>
        BY <2>7 DEF SkipSingle
      <4> HIDE DEF j
      <4> QED
        BY <3>2, <4>1, <4>2, SameReportsIdles DEF Reports
    <3> QED
      BY <2>7, <3>1, <3>2 DEF SkipSingle
  <2>8. CASE WriteSingle(b)
    BY <2>8, WriteSingleInstalls
  <2>9. CASE SingleFails(b)
    BY <2>0, <2>9, SettleIdles DEF SingleFails, store
  <2>10. CASE LockNext(b) \/ Release(b)
    BY <2>10 DEF LockNext, Release, store
  <2>11. CASE BatchFails(b) \/ CommitAborts(b)
    <3> DEFINE q == [i \in DOMAIN job[b].results |->
                       IF i \in job[b].batch THEN Refused ELSE job[b].results[i]]
               j == [job[b] EXCEPT !.results = q]
    <3>1. /\ Proceed(b, j, "release") /\ pc[b] \in {"stage", "lock"}
          /\ UNCHANGED <<active, stored, revision>>
      BY <2>11 DEF BatchFails, CommitAborts, FailBatch, store
    <3>2. j.req = job[b].req /\ j.results = q
      BY <2>0 DEF Jobs
    <3>3. \A i \in job[b].batch : ~Reports(job[b], i)
      BY <2>0, <3>1, BatchMembers DEF JobOK, Unsettled, Reports
    <3>4. \A i \in DOMAIN job[b].req :
             q[i] = IF i \in job[b].batch THEN Refused ELSE job[b].results[i]
      BY OwnIds
    <3> HIDE DEF q, j
    <3>5. \A i \in DOMAIN job[b].req : Reports(j, i) <=> Reports(job[b], i)
      BY <2>0, <3>2, <3>3, <3>4 DEF Reports
    <3> QED
      BY <3>1, <3>2, <3>5, SameReportsIdles
  <2>12. CASE Commit(b)
    BY <2>12, CommitInstalls DEF Commit
  <2>13. CASE CommitPartly(b)
    <3>1. PICK c \in Accepted(b) :
          /\ Install(Accepted(b) \ {c})
          /\ Proceed(b, [job[b] EXCEPT !.results =
                            CommittedResults(b, Accepted(b) \ {c})], "release")
      BY <2>13 DEF CommitPartly
    <3>2. pc[b] = "lock" /\ Unlocked(b) = {}
      BY <2>13 DEF CommitPartly
    <3>3. (Accepted(b) \ {c}) \in SUBSET Accepted(b)
      OBVIOUS
    <3> QED
      BY <3>1, <3>2, <3>3, CommitInstalls
  <2>14. CASE MirrorPassFails(b)
    <3>1. PICK i \in job[b].batch :
            /\ job[b].results[i].did = "commit"
            /\ Proceed(b, [job[b] EXCEPT !.results[i].err = TRUE], "release")
      BY <2>14 DEF MirrorPassFails
    <3> DEFINE q == [job[b].results EXCEPT ![i].err = TRUE]
               j == [job[b] EXCEPT !.results[i].err = TRUE]
    <3>2. j.req = job[b].req /\ j.results = q
      BY <2>0 DEF Jobs
    <3>3. job[b].results \in Seq(Results)
      BY <2>0 DEF Jobs
    <3>4. \A h \in DOMAIN job[b].results : q[h].did = job[b].results[h].did
      BY <3>3 DEF Results
    <3>5. \A h \in DOMAIN job[b].req : Reports(j, h) <=> Reports(job[b], h)
      BY <3>2, <3>4, OwnIds DEF Reports
    <3> QED
      BY <2>14, <3>1, <3>2, <3>5, SameReportsIdles DEF MirrorPassFails, store
  <2>15. CASE Crash(b)
    <3>1. Alone(b) /\ pc'[b] = "done" /\ job'[b] = NoJob /\ UNCHANGED store
      BY <2>15, ProceedAlone DEF Crash
    <3> QED
      BY <2>0, <3>1 DEF Idles, store, NoJob
  <2> QED
    BY <1>4, <2>1, <2>2, <2>3, <2>4, <2>5, <2>6, <2>7, <2>8, <2>9, <2>10,
       <2>11, <2>12, <2>13, <2>14, <2>15 DEF Step, Faults
<1> QED
  BY <1>1, <1>2, <1>3, <1>4 DEF Next

(***************************************************************************)
(* Results and the store.  Identifiers are fresh: a batcher that has not   *)
(* begun has no generation in the store.  While it works, the positions it *)
(* reports as committed are exactly the ones whose generation is stored.   *)
(***************************************************************************)
Fresh ==
    \A b \in Batchers, s \in Sessions : \A g \in stored[s] :
        pc[b] = "idle" => g.id.by # b

Told ==
    \A b \in Batchers : \A i \in DOMAIN job[b].req :
        Reports(job[b], i)
            <=> Generation(job[b].req[i]) \in stored[job[b].req[i].session]

\* A generation carries the identifier of its candidate.
LEMMA GenerationId ==
    ASSUME NEW c
    PROVE  Generation(c).id = c.id /\ Generation(c).expected = c.expected
BY DEF Generation

\* What b installs is b's, position for position.
LEMMA InstalledBy ==
    ASSUME BatchTypes, NEW b \in Batchers, NEW done, Installs(b, done),
           NEW s \in Sessions, NEW g \in stored'[s], g \notin stored[s]
    PROVE  \E i \in DOMAIN job[b].req :
              /\ job[b].req[i] \in done /\ job[b].req[i].session = s
              /\ g = Generation(job[b].req[i])
              /\ g.id.by = b /\ g.id.at = i /\ g.expected = revision[s]
<1>1. PICK c \in Chosen(done, s) : g = Generation(c)
  BY DEF Installs
<1>2. c \in done /\ c.session = s /\ c.expected = revision[s]
  BY <1>1 DEF Chosen, Installs
<1>3. PICK i \in DOMAIN job[b].req : c = job[b].req[i]
  BY <1>2 DEF Installs
<1>4. c.id.by = b /\ c.id.at = i
  BY <1>3, OwnIds
<1> QED
  BY <1>1, <1>2, <1>3, <1>4, GenerationId

\* Installing keeps the identifiers fresh and the reports true.
LEMMA InstallsTold ==
    ASSUME BatchTypes, Fresh, Told, NEW b \in Batchers, NEW done,
           Installs(b, done)
    PROVE  Fresh' /\ Told'
<1>1. Fresh'
  <2> SUFFICES ASSUME NEW c \in Batchers, NEW s \in Sessions,
                      NEW g \in stored'[s], pc'[c] = "idle"
               PROVE  g.id.by # c
    BY DEF Fresh
  <2>1. c # b /\ pc[c] = "idle"
    BY DEF Installs, Alone
  <2> QED
    BY <2>1, InstalledBy DEF Fresh
<1>2. Told'
  <2> SUFFICES ASSUME NEW c \in Batchers, NEW i \in DOMAIN job'[c].req
               PROVE  Reports(job'[c], i)
                        <=> Generation(job'[c].req[i])
                              \in stored'[job'[c].req[i].session]
    BY DEF Told
  <2>1. job'[c].req = job[c].req
    BY DEF Installs, Alone
  <2> DEFINE q == job[c].req[i]
  <2>2. /\ i \in DOMAIN job[c].req /\ q.session \in Sessions
        /\ q.id.by = c /\ q.id.at = i /\ Generation(q).id = q.id
    BY <2>1, OwnIds, GenerationId
  <2>3. Reports(job[c], i) <=> Generation(q) \in stored[q.session]
    BY <2>2 DEF Told
  <2>4. stored[q.session] \subseteq stored'[q.session]
    BY <2>2 DEF Installs
  <2>5. CASE c # b
    <3>1. Reports(job'[c], i) <=> Reports(job[c], i)
      BY <2>5 DEF Installs, Alone
    <3>2. Generation(q) \in stored'[q.session]
            => Generation(q) \in stored[q.session]
      BY <2>2, <2>5, InstalledBy
    <3> QED
      BY <2>1, <2>3, <2>4, <3>1, <3>2
  <2>6. CASE c = b
    <3>1. Reports(job'[c], i) <=> Reports(job[c], i) \/ q \in done
      BY <2>2, <2>6 DEF Installs
    <3>2. q \in done => Generation(q) \in stored'[q.session]
      BY <2>2 DEF Installs, Chosen
    <3>3. Generation(q) \in stored'[q.session]
            => Generation(q) \in stored[q.session] \/ q \in done
      BY <2>2, <2>6, InstalledBy
    <3> HIDE DEF q
    <3>4. q = job'[c].req[i]
      BY <2>1 DEF q
    <3> QED
      BY <2>3, <2>4, <3>1, <3>2, <3>3, <3>4
  <2> QED
    BY <2>5, <2>6
<1> QED
  BY <1>1, <1>2

\* So does a step that installs nothing.
LEMMA IdlesTold ==
    ASSUME BatchTypes, BatchTypes', Fresh, Told, NEW b \in Batchers, Idles(b)
    PROVE  Fresh' /\ Told'
<1>1. Fresh'
  BY DEF Fresh, Idles, Alone
<1>2. Told'
  <2> SUFFICES ASSUME NEW c \in Batchers, NEW i \in DOMAIN job'[c].req
               PROVE  Reports(job'[c], i)
                        <=> Generation(job'[c].req[i])
                              \in stored'[job'[c].req[i].session]
    BY DEF Told
  <2>1. stored' = stored
    BY DEF Idles
  <2>2. CASE c # b
    BY <2>1, <2>2 DEF Told, Idles, Alone
  <2>3. CASE c = b /\ job'[b].req = job[b].req
             /\ \A h \in DOMAIN job[b].req :
                   Reports(job'[b], h) <=> Reports(job[b], h)
    BY <2>1, <2>3 DEF Told
  <2>4. CASE c = b /\ pc[b] = "idle"
             /\ \A h \in DOMAIN job'[b].req : ~Reports(job'[b], h)
    <3>1. JobOK(b, job'[b], pc'[b])
      BY DEF BatchTypes, JobsOK
    <3>5. job'[b].req \in Seq(Candidates)
      BY <3>1 DEF JobOK, Jobs
    <3>6. job'[b].req[i].id = [by |-> b, at |-> i]
      BY <2>4, <3>1 DEF JobOK, Positions
    <3>2. job'[b].req[i].id.by = b /\ job'[b].req[i] \in Candidates
      BY <2>4, <3>5, <3>6
    <3>3. job'[b].req[i].session \in Sessions
      BY <3>2 DEF Candidates
    <3>4. Generation(job'[b].req[i]).id.by = b
      BY <3>2, GenerationId
    <3> QED
      BY <2>1, <2>4, <3>3, <3>4 DEF Fresh
  <2>5. CASE c = b /\ job'[b].req = <<>>
    BY <2>5
  <2> QED
    BY <2>2, <2>3, <2>4, <2>5 DEF Idles
<1> QED
  BY <1>1, <1>2

\* A result is true of the store: when a batch has returned, a candidate is
\* reported as committed exactly when its generation was installed, whichever
\* savepoints failed and in whatever order the locks were taken.
THEOREM ResultsAreTrue == Spec => []ResultsTellTheStore
<1>1. Init => Fresh /\ Told
  <2> SUFFICES ASSUME Init PROVE Fresh /\ Told
    OBVIOUS
  <2>1. Told
    BY DEF Init, Told, NoJob
  <2>2. \A s \in Sessions : \A g \in stored[s] : g.id.by = None
    BY DEF Init
  <2> QED
    BY <2>1, <2>2, ProcessAssumption DEF Fresh
<1>2. BatchTypes /\ BatchTypes' /\ Fresh /\ Told /\ [Next]_vars
        => Fresh' /\ Told'
  <2> SUFFICES ASSUME BatchTypes, BatchTypes', Fresh, Told, [Next]_vars
               PROVE  Fresh' /\ Told'
    OBVIOUS
  <2>1. CASE UNCHANGED <<active, stored, revision, pc, job>>
    BY <2>1 DEF Fresh, Told
  <2>2. ASSUME NEW b \in Batchers, Idles(b) PROVE Fresh' /\ Told'
    BY <2>2, IdlesTold
  <2>3. ASSUME NEW b \in Batchers, NEW done, Installs(b, done)
        PROVE  Fresh' /\ Told'
    BY <2>3, InstallsTold
  <2> QED
    BY <2>1, <2>2, <2>3, StoreEffect
<1>3. BatchTypes /\ Told => ResultsTellTheStore
  BY DEF BatchTypes, JobsOK, JobOK, Positions, Told, Reports,
     ResultsTellTheStore
<1>4. BatchTypes /\ [Next]_vars => BatchTypes'
  BY TypeStep
<1> QED
  BY TypeInit, <1>1, <1>2, <1>3, <1>4, PTL DEF Spec

(***************************************************************************)
(* Serial installs.  Every stored generation was built on an index state   *)
(* older than the current one, and an install is built on the current one. *)
(***************************************************************************)
Overtaken ==
    \A s \in Sessions : \A g \in stored[s] : g.expected < revision[s]

\* No lost update: two generations of a session were never both built on one
\* index state.
THEOREM SerialInstalls == Spec => []InstallsAreSerial
<1> DEFINE Serial == InstallsAreSerial /\ Overtaken
<1>1. Init => Serial
  <2> SUFFICES ASSUME Init PROVE Serial
    OBVIOUS
  <2>1. \A s \in Sessions : \A g \in stored[s] :
           g = active[s] /\ g.expected = 0 /\ revision[s] = 1
    BY DEF Init
  <2> QED
    BY <2>1 DEF InstallsAreSerial, Overtaken
<1>2. BatchTypes /\ Serial /\ [Next]_vars => Serial'
  <2> SUFFICES ASSUME BatchTypes, Serial, [Next]_vars PROVE Serial'
    OBVIOUS
  <2>0. revision \in [Sessions -> Nat] /\ stored \in [Sessions -> SUBSET Generations]
        /\ \A g \in Generations : g.expected \in Nat
    BY DEF BatchTypes, TypeOK, Generations
  <2>1. CASE UNCHANGED <<active, stored, revision, pc, job>>
    BY <2>1 DEF InstallsAreSerial, Overtaken
  <2>2. ASSUME NEW b \in Batchers, Idles(b) PROVE Serial'
    <3>1. stored' = stored /\ \A s \in Sessions : revision'[s] >= revision[s]
      BY <2>2 DEF Idles
    <3>2. InstallsAreSerial'
      BY <3>1 DEF InstallsAreSerial
    <3>3. BatchTypes'
      BY TypeStep
    <3>4. revision' \in [Sessions -> Nat]
      BY <3>3 DEF BatchTypes, TypeOK
    <3>5. Overtaken'
      BY <2>0, <3>1, <3>4 DEF Overtaken
    <3> QED
      BY <3>2, <3>5
  <2>3. ASSUME NEW b \in Batchers, NEW done, Installs(b, done) PROVE Serial'
    <3> SUFFICES ASSUME NEW s \in Sessions
                 PROVE  /\ \A g, h \in stored'[s] :
                              g.expected = h.expected => g = h
                        /\ \A g \in stored'[s] : g.expected < revision'[s]
      BY DEF InstallsAreSerial, Overtaken
    <3>1. CASE Chosen(done, s) = {}
      <4>1. stored'[s] = stored[s] /\ revision'[s] = revision[s]
        <5>1. {Generation(c) : c \in Chosen(done, s)} = {}
          BY <3>1
        <5> QED
          BY <2>3, <3>1, <5>1 DEF Installs
      <4> QED
        BY <4>1 DEF InstallsAreSerial, Overtaken
    <3>2. CASE Chosen(done, s) # {}
      <4>1. revision'[s] = revision[s] + 1
        BY <2>3, <3>2 DEF Installs
      <4>2. PICK c \in Chosen(done, s) : TRUE
        BY <3>2
      <4>3. Chosen(done, s) = {c}
        BY <2>3, <4>2 DEF Chosen, Installs
      <4>4. stored'[s] = stored[s] \cup {Generation(c)}
        BY <2>3, <4>3 DEF Installs
      <4>5. Generation(c).expected = revision[s]
        BY <2>3, <4>2, GenerationId DEF Chosen, Installs
      <4>6. \A g \in stored[s] : g.expected \in Nat /\ g.expected < revision[s]
        BY <2>0 DEF Overtaken
      <4>7. revision[s] \in Nat
        BY <2>0
      <4>8. \A g, h \in stored[s] : g.expected = h.expected => g = h
        BY DEF InstallsAreSerial
      <4>9. \A g \in stored'[s] :
               g = Generation(c) \/ (g \in stored[s] /\ g.expected < revision[s])
        BY <4>4, <4>6
      <4>10. \A g, h \in stored'[s] : g.expected = h.expected => g = h
        BY <4>5, <4>6, <4>7, <4>8, <4>9
      <4>11. \A g \in stored'[s] : g.expected < revision'[s]
        BY <4>1, <4>5, <4>6, <4>7, <4>9
      <4> QED
        BY <4>10, <4>11
    <3> QED
      BY <3>1, <3>2
  <2> QED
    BY <2>1, <2>2, <2>3, StoreEffect
<1>3. Serial => InstallsAreSerial
  OBVIOUS
<1>4. BatchTypes /\ [Next]_vars => BatchTypes'
  BY TypeStep
<1> QED
  BY TypeInit, <1>1, <1>2, <1>3, <1>4, PTL DEF Spec

\* What a sweep read of a session under its lock stays true until it lets the
\* lock go: an activation installs only where nobody else holds the lock.
THEOREM StableAuthority == Spec => SweepSeesStableAuthority
<1> DEFINE Stable == \A w \in Sweepers, s \in Sessions :
        lock[s] = w => active'[s] = active[s] /\ stored'[s] = stored[s]
<1>1. BatchTypes /\ [Next]_vars => [Stable]_vars
  <2> SUFFICES ASSUME BatchTypes, [Next]_vars PROVE Stable
    OBVIOUS
  <2>1. CASE UNCHANGED <<active, stored, revision, pc, job>>
    BY <2>1
  <2>2. ASSUME NEW b \in Batchers, Idles(b) PROVE Stable
    BY <2>2 DEF Idles
  <2>3. ASSUME NEW b \in Batchers, NEW done, Installs(b, done) PROVE Stable
    <3> SUFFICES ASSUME NEW w \in Sweepers, NEW s \in Sessions, lock[s] = w
                 PROVE  active'[s] = active[s] /\ stored'[s] = stored[s]
      OBVIOUS
    <3>1. Chosen(done, s) = {}
      BY <2>3, ProcessAssumption DEF Chosen, Installs
    <3>2. {Generation(c) : c \in Chosen(done, s)} = {}
      BY <3>1
    <3> QED
      BY <2>3, <3>1, <3>2 DEF Installs
  <2> QED
    BY <2>1, <2>2, <2>3, StoreEffect
<1>2. BatchTypes /\ [Next]_vars => BatchTypes'
  BY TypeStep
<1> QED
  BY TypeInit, <1>1, <1>2, PTL DEF Spec, SweepSeesStableAuthority
=============================================================================
