--------------------------- MODULE RegistryProofs ---------------------------
(***************************************************************************)
(* Proofs about Registry, with Pack and Filters, for any processes, hosts, *)
(* names, workspaces, rc files, caches and commands.                       *)
(***************************************************************************)
EXTENDS Registry, FiniteSetTheorems, WellFoundedInduction, NaturalsInduction, TLAPS

-----------------------------------------------------------------------------
(* Places of a sequence (Lists) *)

\* The least of some numbers
LEMMA Least ==
    ASSUME NEW at, at \subseteq Nat, at # {}
    PROVE  \E i \in at : \A j \in at : i <= j
<1> DEFINE R == OpToRel(<, Nat)
<1>1. IsWellFoundedOn(R, Nat)
  BY NatLessThanWellFounded
<1>2. \A i, j \in Nat : i < j => <<i, j>> \in R
  BY DEF OpToRel
<1> HIDE DEF R
<1>3. PICK i \in at : \A j \in at : ~ (<<j, i>> \in R)
  BY <1>1, WFMin
<1>4. ASSUME NEW j \in at PROVE i <= j
  <2>1. ~ (j < i)
    BY <1>2, <1>3, <1>4
  <2> QED
    BY <2>1
<1> QED
  BY <1>4

LEMMA FirstOfLeast ==
    ASSUME NEW at, at \subseteq Nat, at # {}
    PROVE  FirstOf(at) \in at /\ \A j \in at : FirstOf(at) <= j
  BY Least DEF FirstOf

LEMMA LastOfGreatest ==
    ASSUME NEW n \in Nat, NEW at, at \subseteq 0..n, at # {}
    PROVE  LastOf(at) \in at /\ \A j \in at : LastOf(at) >= j
<1> DEFINE left == {n - i : i \in at}
<1>1. left \subseteq Nat /\ left # {}
  <2>1. ASSUME NEW i \in at PROVE n - i \in Nat
    BY <2>1
  <2>2. PICK i : i \in at
    OBVIOUS
  <2>3. n - i \in left
    BY <2>2
  <2> QED
    BY <2>1, <2>3
<1>2. PICK l \in left : \A j \in left : l <= j
  BY <1>1, Least
<1>3. PICK k \in at : l = n - k
  OBVIOUS
<1>4. ASSUME NEW j \in at PROVE k >= j
  <2>1. n - j \in left /\ j \in 0..n /\ k \in 0..n
    BY <1>3, <1>4
  <2>2. n - k <= n - j
    BY <1>2, <1>3, <2>1
  <2> QED
    BY <2>1, <2>2
<1> QED
  BY <1>4 DEF LastOf

LEMMA LastOfIs ==
    ASSUME NEW at, at \subseteq Nat, NEW k \in at, \A j \in at : k >= j
    PROVE  LastOf(at) = k
<1>1. LastOf(at) \in at /\ \A j \in at : LastOf(at) >= j
  BY DEF LastOf
<1>2. LastOf(at) \in Nat /\ k \in Nat /\ LastOf(at) >= k /\ k >= LastOf(at)
  BY <1>1
<1> QED
  BY <1>2

\* The definition of Chosen has a solution, so that it is one.
Picks(f, s, at, n) ==
    f = [i \in 0..n |-> IF i = 0 THEN << >> ELSE IF i \in at THEN Append(f[i - 1], s[i]) ELSE f[i - 1]]

LEMMA PicksExists == \A s, at : \A n \in Nat : \E f : Picks(f, s, at, n)
<1> SUFFICES ASSUME NEW s, NEW at PROVE \A n \in Nat : \E f : Picks(f, s, at, n)
  OBVIOUS
<1> DEFINE bad == {n \in Nat : ~ \E f : Picks(f, s, at, n)}
<1>1. SUFFICES ASSUME bad # {} PROVE FALSE
  OBVIOUS
<1>2. PICK b \in bad : \A j \in bad : b <= j
  <2>1. bad \subseteq Nat
    OBVIOUS
  <2> QED
    BY <1>1, <2>1, Least
<1>3. b # 0
  <2> DEFINE g == [i \in 0..0 |-> << >>]
  <2>1. Picks(g, s, at, 0)
    BY DEF Picks
  <2> QED
    BY <1>2, <2>1
<1>4. b \in Nat /\ b - 1 \in Nat /\ b - 1 \notin bad
  BY <1>2, <1>3
<1>5. PICK f : Picks(f, s, at, b - 1)
  BY <1>4
<1> DEFINE g == [i \in 0..b |-> IF i = b THEN IF b \in at THEN Append(f[b - 1], s[b]) ELSE f[b - 1] ELSE f[i]]
<1>6. Picks(g, s, at, b)
  <2> DEFINE h == [i \in 0..b |-> IF i = 0 THEN << >> ELSE IF i \in at THEN Append(g[i - 1], s[i]) ELSE g[i - 1]]
  <2>1. ASSUME NEW i \in 0..b PROVE g[i] = h[i]
    <3>1. CASE i = b
      <4>1. b - 1 \in 0..b /\ b - 1 # b /\ i # 0
        BY <1>3, <1>4, <3>1
      <4>2. g[b - 1] = f[b - 1]
        BY <4>1
      <4> QED
        BY <3>1, <4>1, <4>2
    <3>2. CASE i # b
      <4>1. i \in 0..(b - 1) /\ g[i] = f[i]
        BY <1>4, <3>2
      <4>2. f[i] = IF i = 0 THEN << >> ELSE IF i \in at THEN Append(f[i - 1], s[i]) ELSE f[i - 1]
        BY <1>5, <4>1 DEF Picks
      <4>3. i # 0 => i - 1 \in 0..b /\ i - 1 # b
        BY <1>4, <3>2
      <4>4. i # 0 => g[i - 1] = f[i - 1]
        BY <4>3
      <4> QED
        BY <4>1, <4>2, <4>4
    <3> QED
      BY <3>1, <3>2
  <2>2. g = h
    BY <2>1
  <2> QED
    BY <2>2 DEF Picks
<1> QED
  BY <1>2, <1>6

LEMMA ChosenPicks ==
    ASSUME NEW s, NEW at, Len(s) \in Nat
    PROVE  \E f : Picks(f, s, at, Len(s)) /\ Chosen(s, at) = f[Len(s)]
<1> DEFINE Body(f) == [i \in 0..Len(s) |-> IF i = 0 THEN << >> ELSE IF i \in at THEN Append(f[i - 1], s[i]) ELSE f[i - 1]]
           upTo == CHOOSE f : f = Body(f)
<1>1. Chosen(s, at) = upTo[Len(s)]
  BY DEF Chosen
<1>2. PICK f : Picks(f, s, at, Len(s))
  BY PicksExists
<1>3. f = Body(f)
  BY <1>2 DEF Picks
<1>4. upTo = Body(upTo)
  BY <1>3
<1> HIDE DEF upTo
<1>5. Picks(upTo, s, at, Len(s))
  BY <1>4 DEF Picks
<1> QED
  BY <1>1, <1>5

\* A subsequence: m says where its elements stand in s.
Embeds(m, s, at, n, t) ==
    /\ m \in [1..Len(t) -> at \cap (1..n)]
    /\ \A i, j \in 1..Len(t) : i < j => m[i] < m[j]
    /\ \A k \in at \cap (1..n) : \E i \in 1..Len(t) : m[i] = k
    /\ \A i \in 1..Len(t) : t[i] = s[m[i]]

LEMMA EmbedsNext ==
    ASSUME NEW S, NEW s \in Seq(S), NEW at, NEW n \in 1..Len(s), NEW t \in Seq(S),
           NEW m, Embeds(m, s, at, n - 1, t),
           NEW u, n \in at => u = Append(t, s[n]), n \notin at => u = t
    PROVE  u \in Seq(S) /\ \E w : Embeds(w, s, at, n, u)
<1>1. n \in Nat /\ n - 1 \in Nat /\ s[n] \in S /\ Len(t) \in Nat
  OBVIOUS
<1>2. CASE n \notin at
  <2>1. u = t /\ at \cap (1..n) = at \cap (1..(n - 1))
    BY <1>1, <1>2
  <2> QED
    BY <2>1 DEF Embeds
<1>3. CASE n \in at
  <2> DEFINE w == [i \in 1..Len(u) |-> IF i = Len(u) THEN n ELSE m[i]]
  <2>1. u = Append(t, s[n])
    BY <1>3
  <2>2. /\ u \in Seq(S) /\ Len(u) = Len(t) + 1 /\ u[Len(u)] = s[n]
        /\ \A i \in 1..Len(t) : u[i] = t[i]
    BY <1>1, <2>1
  <2>3. \A i \in 1..Len(u) : i # Len(u) => i \in 1..Len(t)
    BY <1>1, <2>2
  <2>4. \A i \in 1..Len(t) : m[i] \in at \cap (1..(n - 1))
    BY DEF Embeds
  <2>5. \A k \in 1..(n - 1) : k \in 1..n /\ k < n
    BY <1>1
  <2>6. w \in [1..Len(u) -> at \cap (1..n)]
    BY <1>1, <1>3, <2>3, <2>4, <2>5
  <2>7. ASSUME NEW i \in 1..Len(u), NEW j \in 1..Len(u), i < j PROVE w[i] < w[j]
    <3>1. i # Len(u) /\ i \in 1..Len(t) /\ w[i] = m[i]
      BY <1>1, <2>2, <2>7
    <3>2. CASE j = Len(u)
      BY <2>4, <2>5, <3>1, <3>2
    <3>3. CASE j # Len(u)
      BY <2>3, <2>7, <3>1, <3>3 DEF Embeds
    <3> QED
      BY <3>2, <3>3
  <2>8. ASSUME NEW k \in at \cap (1..n) PROVE \E i \in 1..Len(u) : w[i] = k
    <3>1. CASE k = n
      <4>1. Len(u) \in 1..Len(u)
        BY <1>1, <2>2
      <4> QED
        BY <3>1, <4>1
    <3>2. CASE k # n
      <4>1. k \in at \cap (1..(n - 1))
        BY <1>1, <2>8, <3>2
      <4>2. PICK i \in 1..Len(t) : m[i] = k
        BY <4>1 DEF Embeds
      <4>3. i \in 1..Len(u) /\ i # Len(u)
        BY <1>1, <2>2, <4>2
      <4> QED
        BY <4>2, <4>3
    <3> QED
      BY <3>1, <3>2
  <2>9. ASSUME NEW i \in 1..Len(u) PROVE u[i] = s[w[i]]
    BY <2>2, <2>3, <2>9 DEF Embeds
  <2> HIDE DEF w
  <2> QED
    BY <2>2, <2>6, <2>7, <2>8, <2>9 DEF Embeds
<1> QED
  BY <1>2, <1>3

LEMMA ChosenEmbeds ==
    ASSUME NEW S, NEW s \in Seq(S), NEW at
    PROVE  Chosen(s, at) \in Seq(S) /\ \E m : Embeds(m, s, at, Len(s), Chosen(s, at))
<1>1. Len(s) \in Nat
  OBVIOUS
<1>2. PICK f : Picks(f, s, at, Len(s)) /\ Chosen(s, at) = f[Len(s)]
  BY <1>1, ChosenPicks
<1> DEFINE Good(n) == f[n] \in Seq(S) /\ \E m : Embeds(m, s, at, n, f[n])
           bad == {n \in 0..Len(s) : ~Good(n)}
<1>3. SUFFICES ASSUME bad # {} PROVE FALSE
  BY <1>1, <1>2
<1>4. PICK b \in bad : \A j \in bad : b <= j
  <2>1. bad \subseteq Nat
    OBVIOUS
  <2> QED
    BY <1>3, <2>1, Least
<1>5. f[0] = << >>
  BY <1>1, <1>2 DEF Picks
<1>6. Good(0)
  <2>1. << >> \in Seq(S) /\ Len(<< >>) = 0
    OBVIOUS
  <2> DEFINE e == [i \in 1..0 |-> 0]
  <2>2. Embeds(e, s, at, 0, << >>)
    BY <2>1 DEF Embeds
  <2> QED
    BY <1>5, <2>1, <2>2
<1>7. b \in 1..Len(s) /\ b - 1 \in 0..Len(s) /\ b - 1 \notin bad
  BY <1>1, <1>4, <1>6
<1>8. f[b] = IF b \in at THEN Append(f[b - 1], s[b]) ELSE f[b - 1]
  <2>1. b \in 0..Len(s) /\ b # 0
    BY <1>1, <1>7
  <2>2. f = [i \in 0..Len(s) |-> IF i = 0 THEN << >> ELSE IF i \in at THEN Append(f[i - 1], s[i]) ELSE f[i - 1]]
    BY <1>2 DEF Picks
  <2> QED
    BY <2>1, <2>2
<1>9. Good(b - 1)
  BY <1>7
<1>10. Good(b)
  <2>1. PICK m : Embeds(m, s, at, b - 1, f[b - 1])
    BY <1>9
  <2>2. f[b - 1] \in Seq(S)
    BY <1>9
  <2> DEFINE t == f[b - 1]
             u == f[b]
  <2>3. t \in Seq(S) /\ Embeds(m, s, at, b - 1, t) /\ (b \in at => u = Append(t, s[b])) /\ (b \notin at => u = t)
    BY <1>8, <2>1, <2>2
  <2> HIDE DEF bad, t, u
  <2>4. u \in Seq(S) /\ \E w : Embeds(w, s, at, b, u)
    BY <1>7, <2>3, EmbedsNext
  <2> QED
    BY <2>4 DEF u
<1> QED
  BY <1>4, <1>10

-----------------------------------------------------------------------------
(* Processes and their jobs *)

IsJob(j) ==
    j \in [at : {j.at}, cmd : {j.cmd}, lines : {j.lines}, result : {j.result}, attempt : {j.attempt}, otps : {j.otps},
           etag : {j.etag}, served : {j.served}, package : {j.package}, keeps : {j.keeps}, copy : {j.copy},
           todo : {j.todo}, selected : {j.selected}, bound : {j.bound}]

Jobs == proc = [p \in Process |-> proc[p]] /\ \A p \in Process : IsJob(proc[p])

\* What no step of a command changes in its process, nor any step in the others.
Keeps(p) ==
    /\ Jobs'
    /\ \A q \in Process : q # p => proc'[q] = proc[q]
    /\ proc'[p].cmd = proc[p].cmd /\ proc'[p].lines = proc[p].lines
    /\ proc'[p].selected = proc[p].selected /\ proc'[p].bound = proc[p].bound

LEMMA IdleJob == IsJob(Idle)
  BY DEF IsJob, Idle

LEMMA ToStepIs ==
    ASSUME Jobs, NEW p \in Process, NEW step, ToStep(p, step)
    PROVE  /\ Keeps(p) /\ proc'[p].at = step /\ proc'[p].result = proc[p].result
           /\ proc'[p].todo = proc[p].todo /\ proc'[p].package = proc[p].package
  BY DEF Jobs, Keeps, ToStep, IsJob

LEMMA EndWithIs ==
    ASSUME Jobs, NEW p \in Process, NEW result, EndWith(p, result)
    PROVE  /\ Keeps(p) /\ proc'[p].at = "Idle" /\ proc'[p].result = result
           /\ proc'[p].todo = proc[p].todo /\ proc'[p].package = proc[p].package
  BY DEF Jobs, Keeps, EndWith, IsJob

LEMMA NextProjectIs ==
    ASSUME Jobs, NEW p \in Process, NextProject(p)
    PROVE  /\ Keeps(p) /\ proc'[p].todo = Tail(proc[p].todo)
           /\ proc'[p].at = IF Tail(proc[p].todo) = << >> THEN "Idle" ELSE "Pack"
           /\ proc'[p].result = IF Tail(proc[p].todo) = << >> THEN [ok |-> TRUE] ELSE proc[p].result
  BY DEF Jobs, Keeps, NextProject, IsJob

LookAt == {"Load", "Request", "Answer", "NotModified", "Save", "Write"}

LoginAt == {"Web", "Poll", "Couch", "Existing", "Credentials"}

\* A process that is at some step runs the command that the step is of, and one that is at
\* a project has one.
Phase(j) ==
    /\ j.at \in {"Idle", "Logout", "Pack", "Publish", "Clean", "Release", "Bump"} \cup LookAt \cup LoginAt
    /\ j.at # "Idle" => j.cmd # NONE
    /\ j.at \in LookAt => j.cmd.kind = "lookup"
    /\ j.at \in LoginAt => j.cmd.kind = "login"
    /\ j.at = "Logout" => j.cmd.kind = "logout"
    /\ j.at = "Release" => j.cmd.kind = "release"
    /\ j.at = "Bump" => j.cmd.kind = "bump"
    /\ j.at \in {"Pack", "Publish", "Clean"} => j.cmd.kind \in {"pack", "publish"}
    /\ j.at \in {"Pack", "Publish", "Clean", "Bump"} => j.todo # << >>

LEMMA StepKeeps ==
    ASSUME Jobs, NEW p \in Process, Step(p)
    PROVE  Keeps(p)
<1>1. CASE Load(p) \/ Request(p) \/ Answer(p) \/ Retry(p) \/ NotModified(p) \/ ReadShard(p) \/ WriteShard(p)
  <2>1. CASE Load(p)
    <3>1. CASE \E r : EndWith(p, r)
      BY <3>1, EndWithIs
    <3>2. CASE proc' = [proc EXCEPT ![p].at = "Request", ![p].attempt = 0]
      BY <3>2 DEF Jobs, Keeps, IsJob
    <3> QED
      BY <2>1, <3>1, <3>2 DEF Load
  <2>2. CASE Request(p)
    BY <2>2 DEF Request, Jobs, Keeps, IsJob
  <2>3. CASE Answer(p)
    <3>1. CASE EndWith(p, Failed)
      BY <3>1, EndWithIs
    <3>2. CASE ~EndWith(p, Failed)
      BY <2>3, <3>2 DEF Answer, Jobs, Keeps, IsJob
    <3> QED
      BY <3>1, <3>2
  <2>4. CASE Retry(p)
    <3>1. CASE EndWith(p, Failed)
      BY <3>1, EndWithIs
    <3>2. CASE ~EndWith(p, Failed)
      BY <2>4, <3>2 DEF Retry, Jobs, Keeps, IsJob
    <3> QED
      BY <3>1, <3>2
  <2>5. CASE NotModified(p)
    <3>1. CASE EndWith(p, Failed)
      BY <3>1, EndWithIs
    <3>2. CASE ~EndWith(p, Failed)
      BY <2>5, <3>2 DEF NotModified, Jobs, Keeps, IsJob
    <3> QED
      BY <3>1, <3>2
  <2>6. CASE ReadShard(p)
    BY <2>6 DEF ReadShard, Jobs, Keeps, IsJob
  <2>7. CASE WriteShard(p)
    BY <2>7, EndWithIs DEF WriteShard
  <2> QED
    BY <1>1, <2>1, <2>2, <2>3, <2>4, <2>5, <2>6, <2>7
<1>2. CASE WebLogin(p) \/ PollForToken(p) \/ CouchLogin(p) \/ ExistingUser(p)
  <2>1. CASE \E r : EndWith(p, r)
    BY <2>1, EndWithIs
  <2>2. CASE \E s : ToStep(p, s)
    BY <2>2, ToStepIs
  <2>3. CASE proc' = [proc EXCEPT ![p].at = "Poll", ![p].attempt = 1]
    BY <2>3 DEF Jobs, Keeps, IsJob
  <2>4. CASE proc' = [proc EXCEPT ![p].attempt = @ + 1]
    BY <2>4 DEF Jobs, Keeps, IsJob
  <2>5. CASE Authenticate(p)
    BY <2>5 DEF Authenticate, Jobs, Keeps, IsJob
  <2> QED
    BY <1>2, <2>1, <2>2, <2>3, <2>4, <2>5 DEF WebLogin, PollForToken, CouchLogin, ExistingUser, HandleCouchResponse
<1>3. CASE SaveCredentials(p) \/ Logout(p) \/ Release(p) \/ Bump(p)
  <2>1. \E r : EndWith(p, r)
    BY <1>3 DEF SaveCredentials, Logout, Release, Bump
  <2> QED
    BY <2>1, EndWithIs
<1>4. CASE PackProject(p)
  <2>1. CASE NextProject(p)
    BY <2>1, NextProjectIs
  <2>2. CASE EndWith(p, Failed)
    BY <2>2, EndWithIs
  <2>3. CASE ~NextProject(p) /\ ~EndWith(p, Failed)
    BY <1>4, <2>3 DEF PackProject, Jobs, Keeps, IsJob
  <2> QED
    BY <2>1, <2>2, <2>3
<1>5. CASE Publish(p)
  <2>1. NextProject(p) \/ EndWith(p, Failed) \/ ToStep(p, "Clean")
    BY <1>5 DEF Publish
  <2> QED
    BY <2>1, NextProjectIs, EndWithIs, ToStepIs
<1>6. CASE CleanTarball(p)
  BY <1>6, NextProjectIs DEF CleanTarball
<1> QED
  BY <1>1, <1>2, <1>3, <1>4, <1>5, <1>6 DEF Step

LEMMA StepPhase ==
    ASSUME Jobs, NEW p \in Process, Phase(proc[p]), Step(p)
    PROVE  Phase(proc'[p])
<1>1. CASE \E r : EndWith(p, r)
  BY <1>1, EndWithIs DEF Phase, LookAt, LoginAt
<1>2. CASE Load(p) \/ Request(p) \/ Answer(p) \/ Retry(p) \/ NotModified(p) \/ ReadShard(p)
  <2>1. SUFFICES ASSUME ~ \E r : EndWith(p, r) PROVE Phase(proc'[p])
    BY <1>1
  <2>2. proc[p].at \in LookAt
    BY <1>2 DEF Load, Request, Answer, Retry, NotModified, ReadShard, At, LookAt
  <2>3. proc'[p].at \in LookAt
    <3>1. CASE Load(p)
      BY <2>1, <3>1 DEF Load, Jobs, IsJob, LookAt
    <3>2. CASE Request(p) \/ ReadShard(p)
      BY <3>2 DEF Request, ReadShard, Jobs, IsJob, LookAt
    <3>3. CASE Answer(p) \/ Retry(p)
      BY <2>1, <3>3 DEF Answer, Retry, Jobs, IsJob, LookAt
    <3>4. CASE NotModified(p)
      BY <2>1, <3>4 DEF NotModified, Jobs, IsJob, LookAt
    <3> QED
      BY <1>2, <3>1, <3>2, <3>3, <3>4
  <2>4. proc'[p].cmd = proc[p].cmd
    BY StepKeeps DEF Keeps
  <2> QED
    BY <2>2, <2>3, <2>4 DEF Phase, LookAt, LoginAt
<1>3. CASE WriteShard(p) \/ SaveCredentials(p) \/ Logout(p) \/ Release(p) \/ Bump(p)
  BY <1>1, <1>3 DEF WriteShard, SaveCredentials, Logout, Release, Bump
<1>4. CASE WebLogin(p) \/ PollForToken(p) \/ CouchLogin(p) \/ ExistingUser(p)
  <2>1. SUFFICES ASSUME ~ \E r : EndWith(p, r) PROVE Phase(proc'[p])
    BY <1>1
  <2>2. proc[p].at \in LoginAt
    BY <1>4 DEF WebLogin, PollForToken, CouchLogin, ExistingUser, At, LoginAt
  <2>3. proc'[p].at \in LoginAt
    <3>1. CASE \E s \in LoginAt : ToStep(p, s)
      BY <3>1, ToStepIs
    <3>2. CASE proc' = [proc EXCEPT ![p].at = "Poll", ![p].attempt = 1]
      BY <3>2 DEF Jobs, IsJob, LoginAt
    <3>3. CASE proc' = [proc EXCEPT ![p].attempt = @ + 1]
      BY <2>2, <3>3 DEF Jobs, IsJob
    <3>4. CASE Authenticate(p)
      BY <3>4 DEF Authenticate, LoginWithFallback, Jobs, IsJob, LoginAt
    <3> QED
      BY <1>4, <2>1, <3>1, <3>2, <3>3, <3>4
         DEF WebLogin, PollForToken, CouchLogin, ExistingUser, HandleCouchResponse, LoginAt
  <2>4. proc'[p].cmd = proc[p].cmd
    BY StepKeeps DEF Keeps
  <2> QED
    BY <2>2, <2>3, <2>4 DEF Phase, LookAt, LoginAt
<1>5. CASE PackProject(p) \/ Publish(p) \/ CleanTarball(p)
  <2>1. SUFFICES ASSUME ~ \E r : EndWith(p, r) PROVE Phase(proc'[p])
    BY <1>1
  <2>2. proc[p].at \in {"Pack", "Publish", "Clean"}
    BY <1>5 DEF PackProject, Publish, CleanTarball, At
  <2>3. \/ proc'[p].at = "Idle"
        \/ proc'[p].at \in {"Pack", "Publish", "Clean"} /\ proc'[p].todo # << >>
    <3>1. CASE NextProject(p)
      BY <3>1, NextProjectIs
    <3>2. CASE ToStep(p, "Clean")
      BY <2>2, <3>2, ToStepIs DEF Phase
    <3>3. NextProject(p) \/ ToStep(p, "Clean") \/ PackProject(p)
      BY <1>5, <2>1 DEF Publish, CleanTarball
    <3>4. CASE PackProject(p) /\ ~NextProject(p)
      BY <2>1, <2>2, <3>4 DEF PackProject, Phase, Jobs, IsJob
    <3> QED
      BY <3>1, <3>2, <3>3, <3>4
  <2>4. proc'[p].cmd = proc[p].cmd
    BY StepKeeps DEF Keeps
  <2> QED
    BY <2>2, <2>3, <2>4 DEF Phase, LookAt, LoginAt
<1> QED
  BY <1>2, <1>3, <1>4, <1>5 DEF Step

-----------------------------------------------------------------------------
(* The workspace *)

Members ==
    /\ disk = [k \in DOMAIN disk |-> disk[k]]
    /\ \E n \in Nat : DOMAIN disk = 1..n
    /\ \A k \in DOMAIN disk : IsProject(disk[k])

\* The manifests of two projects are the same but for the version.
SameManifest(x, y) ==
    /\ x.name = y.name /\ x.private = y.private /\ x.list = y.list /\ x.main = y.main /\ x.bins = y.bins
    /\ x.deps = y.deps /\ x.dev = y.dev /\ x.dir = y.dir /\ x.to = y.to /\ x.policy = y.policy
    /\ x.ignore = y.ignore

\* A step changes at most the files and the version of a project.
Edits(k) ==
    /\ Members' /\ DOMAIN disk' = DOMAIN disk
    /\ \A j \in DOMAIN disk : j # k => disk'[j] = disk[j]
    /\ SameManifest(disk'[k], disk[k])

LEMMA FilesEdit ==
    ASSUME Members, NEW k \in DOMAIN disk, NEW files, IsTree(files),
           disk' = [disk EXCEPT ![k].files = files]
    PROVE  Edits(k) /\ disk'[k].files = files /\ disk'[k].version = disk[k].version
<1>1. /\ DOMAIN disk' = DOMAIN disk /\ disk' = [j \in DOMAIN disk' |-> disk'[j]]
      /\ \A j \in DOMAIN disk : j # k => disk'[j] = disk[j]
      /\ disk'[k] = [disk[k] EXCEPT !.files = files]
  BY DEF Members
<1> DEFINE x == disk[k]
           y == disk'[k]
<1>2. IsProject(x) /\ y = [x EXCEPT !.files = files]
  BY <1>1 DEF Members
<1> HIDE DEF x, y
<1>3. SameManifest(y, x) /\ y.files = files /\ y.version = x.version
  BY <1>2 DEF IsProject, SameManifest
<1>4. y \in [name : PkgName, version : Nat \ {0}, private : BOOLEAN, list : {y.list}, main : {y.main}, bins : {y.bins},
             deps : {y.deps}, dev : {y.dev}, dir : {y.dir}, to : Host \cup {NONE}, policy : {y.policy},
             ignore : {y.ignore}, files : {y.files}]
  BY <1>2 DEF IsProject
<1>5. IsProject(y)
  BY <1>2, <1>3, <1>4 DEF IsProject, SameManifest
<1>6. \A j \in DOMAIN disk' : IsProject(disk'[j])
  BY <1>1, <1>5 DEF Members, y
<1>7. Members'
  BY <1>1, <1>6 DEF Members
<1> QED
  BY <1>1, <1>3, <1>7 DEF Edits, x, y

LEMMA VersionEdit ==
    ASSUME Members, NEW k \in DOMAIN disk, disk' = [disk EXCEPT ![k].version = @ + 1]
    PROVE  Edits(k) /\ disk'[k].files = disk[k].files /\ disk'[k].version = disk[k].version + 1
<1>1. /\ DOMAIN disk' = DOMAIN disk /\ disk' = [j \in DOMAIN disk' |-> disk'[j]]
      /\ \A j \in DOMAIN disk : j # k => disk'[j] = disk[j]
      /\ disk'[k] = [disk[k] EXCEPT !.version = disk[k].version + 1]
  BY DEF Members
<1> DEFINE x == disk[k]
           y == disk'[k]
<1>2. IsProject(x) /\ y = [x EXCEPT !.version = x.version + 1]
  BY <1>1 DEF Members
<1> HIDE DEF x, y
<1>3. SameManifest(y, x) /\ y.files = x.files /\ y.version = x.version + 1
  BY <1>2 DEF IsProject, SameManifest
<1>4. y \in [name : PkgName, version : Nat \ {0}, private : BOOLEAN, list : {y.list}, main : {y.main}, bins : {y.bins},
             deps : {y.deps}, dev : {y.dev}, dir : {y.dir}, to : Host \cup {NONE}, policy : {y.policy},
             ignore : {y.ignore}, files : {y.files}]
  <2>1. x.version \in Nat \ {0}
    BY <1>2 DEF IsProject
  <2>2. x.version + 1 \in Nat \ {0}
    BY <2>1
  <2> QED
    BY <1>2, <2>2 DEF IsProject
<1>5. IsProject(y)
  BY <1>2, <1>3, <1>4 DEF IsProject, SameManifest
<1>6. \A j \in DOMAIN disk' : IsProject(disk'[j])
  BY <1>1, <1>5 DEF Members, y
<1>7. Members'
  BY <1>1, <1>6 DEF Members
<1> QED
  BY <1>1, <1>3, <1>7 DEF Edits, x, y

LEMMA TarballPath == \A x : IsSeq(TarballOf(x)) /\ TarballOf(x) # << >>
<1> SUFFICES ASSUME NEW x PROVE IsSeq(TarballOf(x)) /\ TarballOf(x) # << >>
  OBVIOUS
<1> DEFINE t == Tarball[<<x.name, x.version>>]
<1> HIDE DEF t
<1>1. TarballOf(x) = <<t>>
  BY DEF TarballOf, t
<1>2. <<t>> \in Seq({<<t>>[k] : k \in DOMAIN <<t>>}) /\ <<t>> # << >>
  OBVIOUS
<1> QED
  BY <1>1, <1>2 DEF IsSeq


-----------------------------------------------------------------------------
(* Sequences and the lines of rc files *)

LEMMA SeqIs ==
    ASSUME NEW S, NEW s \in Seq(S)
    PROVE  IsSeq(s)
<1> DEFINE T == {s[k] : k \in DOMAIN s}
<1>1. Len(s) \in Nat /\ DOMAIN s = 1..Len(s) /\ s = [k \in 1..Len(s) |-> s[k]]
  OBVIOUS
<1>2. \A k \in 1..Len(s) : s[k] \in T
  BY <1>1
<1> HIDE DEF T
<1>3. s \in Seq(T)
  BY <1>1, <1>2
<1> QED
  BY <1>3 DEF IsSeq, T

LEMMA IsSeqIs ==
    ASSUME NEW s, IsSeq(s)
    PROVE  Len(s) \in Nat /\ DOMAIN s = 1..Len(s) /\ s = [k \in 1..Len(s) |-> s[k]]
<1> DEFINE T == {s[k] : k \in DOMAIN s}
<1>1. s \in Seq(T)
  BY DEF IsSeq
<1> HIDE DEF T
<1> QED
  BY <1>1

LEMMA ConcatIs ==
    ASSUME NEW s, NEW t, IsSeq(s), IsSeq(t)
    PROVE  /\ IsSeq(s \o t) /\ Len(s \o t) = Len(s) + Len(t) /\ DOMAIN (s \o t) = 1..(Len(s) + Len(t))
           /\ \A k \in 1..Len(s) : (s \o t)[k] = s[k]
           /\ \A k \in 1..Len(t) : (s \o t)[Len(s) + k] = t[k]
           /\ \A k \in DOMAIN (s \o t) :
                  k \in 1..Len(s) \/ \E j \in 1..Len(t) : k = Len(s) + j
<1> DEFINE S == {s[k] : k \in DOMAIN s}
           T == {t[k] : k \in DOMAIN t}
           U == S \cup T
<1>1. s \in Seq(S) /\ t \in Seq(T)
  BY DEF IsSeq
<1>2. \A k \in 1..Len(s) : s[k] \in U
  BY <1>1
<1>3. \A k \in 1..Len(t) : t[k] \in U
  BY <1>1
<1> HIDE DEF S, T, U
<1>4. s \in Seq(U) /\ t \in Seq(U)
  BY <1>1, <1>2, <1>3
<1>5. s \o t \in Seq(U)
  BY <1>4
<1>6. Len(s) \in Nat /\ Len(t) \in Nat /\ Len(s \o t) = Len(s) + Len(t) /\ DOMAIN (s \o t) = 1..(Len(s) + Len(t))
  BY <1>4
<1>7. \A k \in 1..Len(s) : (s \o t)[k] = s[k]
  BY <1>4, <1>6
<1>8. ASSUME NEW k \in 1..Len(t) PROVE (s \o t)[Len(s) + k] = t[k]
  <2>1. Len(s) + k \in 1..(Len(s) + Len(t)) /\ ~(Len(s) + k <= Len(s)) /\ (Len(s) + k) - Len(s) = k
    BY <1>6, <1>8
  <2> QED
    BY <1>4, <2>1
<1>9. ASSUME NEW k \in 1..(Len(s) + Len(t)), k \notin 1..Len(s) PROVE \E j \in 1..Len(t) : k = Len(s) + j
  <2>1. k - Len(s) \in 1..Len(t) /\ k = Len(s) + (k - Len(s))
    BY <1>6, <1>9
  <2> QED
    BY <2>1
<1> QED
  BY <1>5, <1>6, <1>7, <1>8, <1>9, SeqIs

LEMMA ConcatRc ==
    ASSUME NEW s, NEW t, IsRc(s), IsRc(t)
    PROVE  IsRc(s \o t)
<1>1. IsSeq(s) /\ IsSeq(t)
  BY DEF IsRc
<1>2. IsSeq(s \o t)
  BY <1>1, ConcatIs
<1>3. ASSUME NEW k \in DOMAIN (s \o t) PROVE IsLine((s \o t)[k])
  <2>1. CASE k \in 1..Len(s)
    BY <1>1, <2>1, ConcatIs, IsSeqIs DEF IsRc
  <2>2. CASE \E j \in 1..Len(t) : k = Len(s) + j
    BY <1>1, <2>2, ConcatIs, IsSeqIs DEF IsRc
  <2> QED
    BY <1>1, <1>3, <2>1, <2>2, ConcatIs
<1> QED
  BY <1>2, <1>3 DEF IsRc

LEMMA SingleRc ==
    ASSUME NEW l, IsLine(l)
    PROVE  IsRc(<<l>>)
<1>1. <<l>> \in Seq({l}) /\ DOMAIN <<l>> = 1..1 /\ \A k \in 1..1 : <<l>>[k] = l
  OBVIOUS
<1> QED
  BY <1>1, SeqIs DEF IsRc

LEMMA EmptyRc == IsRc(<< >>)
<1>1. << >> \in Seq({}) /\ DOMAIN << >> = {}
  OBVIOUS
<1> QED
  BY <1>1, SeqIs DEF IsRc

LEMMA ChosenRc ==
    ASSUME NEW s, IsRc(s), NEW at
    PROVE  IsRc(Chosen(s, at))
<1> DEFINE T == {s[k] : k \in DOMAIN s}
<1>1. s \in Seq(T)
  BY DEF IsRc, IsSeq
<1>2. \A l \in T : IsLine(l)
  BY DEF IsRc
<1> HIDE DEF T
<1>3. Chosen(s, at) \in Seq(T)
  BY <1>1, ChosenEmbeds
<1>4. \A k \in DOMAIN Chosen(s, at) : Chosen(s, at)[k] \in T
  BY <1>3
<1> QED
  BY <1>2, <1>3, <1>4, SeqIs DEF IsRc

\* Of some places of a sequence there is a last one.
LEMMA LastIn ==
    ASSUME NEW lines, IsSeq(lines), NEW hits, hits \subseteq DOMAIN lines, hits # {}
    PROVE  LastOf(hits) \in hits /\ \A j \in hits : LastOf(hits) >= j
<1>1. Len(lines) \in Nat /\ DOMAIN lines = 1..Len(lines)
  BY IsSeqIs
<1>2. hits \subseteq 0..Len(lines)
  BY <1>1
<1> QED
  BY <1>1, <1>2, LastOfGreatest

LEMMA RegistryIsHost ==
    ASSUME NEW lines, IsRc(lines)
    PROVE  DefaultRegistry(lines) \in Host /\ \A name : RegistryFor(lines, name) \in Host
<1>1. \A hits : hits \subseteq DOMAIN lines /\ hits # {} => LastOf(hits) \in hits
  BY LastIn DEF IsRc
<1>2. RcRegistry(lines) \in Host
  BY <1>1, RegistryAssumption DEF RcRegistry, OfKind, LastLine, IsRc, IsLine
<1>3. DefaultRegistry(lines) \in Host
  BY <1>2, RegistryAssumption DEF DefaultRegistry
<1>4. ASSUME NEW name PROVE RegistryFor(lines, name) \in Host
  BY <1>1, <1>3 DEF RegistryFor, OfKind, LastLine, IsRc, IsLine
<1> QED
  BY <1>3, <1>4


-----------------------------------------------------------------------------
(* Types *)

\* The commands that are yet to run.
Scripted(s, projects) == \E S : s \in Seq(S) /\ \A c \in S : IsCommand(c, projects)

JobTyped(j) ==
    /\ Phase(j)
    /\ j.cmd = NONE \/ IsCommand(j.cmd, DOMAIN disk)
    /\ j.todo \in Seq(DOMAIN disk) /\ IsRc(j.lines)
    /\ j.at = "Write" => j.copy = [n \in PkgName |-> j.copy[n]]

Typed ==
    /\ Jobs /\ \A p \in Process : JobTyped(proc[p])
    /\ script = [p \in Process |-> script[p]] /\ \A p \in Process : Scripted(script[p], DOMAIN disk)
    /\ shard \in [now : {shard.now}, legacy : {shard.legacy}]
    /\ shard.now = [n \in PkgName |-> shard.now[n]]
    /\ IsRc(rc.lines) /\ Members
    /\ server = [h \in Host |-> [n \in PkgName |-> server[h][n]]]
    /\ tokens = [h \in Host |-> tokens[h]]
    /\ commands \in Nat /\ clock \in Nat

LEMMA TargetIsHost ==
    ASSUME NEW p \in Process, JobTyped(proc[p]), proc[p].at \in {"Credentials", "Logout"}
    PROVE  Target(p) \in Host
<1>1. proc[p].cmd.kind \in {"login", "logout"} /\ IsCommand(proc[p].cmd, DOMAIN disk)
  BY DEF JobTyped, Phase, LoginAt
<1>2. proc[p].cmd.host \in Host \cup {NONE}
  BY <1>1 DEF IsCommand
<1> QED
  BY <1>2, RegistryIsHost DEF Target, JobTyped

LEMMA LinesRc == IsRc(rc.lines) => IsRc(Lines)
  BY ConcatRc, RegistryAssumption DEF Lines

LEMMA BeginIs ==
    ASSUME Jobs, NEW p \in Process, Begin(p)
    PROVE  LET j == proc'[p]
               c == Head(script[p])
           IN /\ Jobs' /\ \A q \in Process : q # p => proc'[q] = proc[q]
              /\ j.cmd = c /\ j.lines = Lines /\ j.todo = Selection(c) /\ j.selected = Selection(c) /\ j.bound = tokens
              /\ j.at = IF c.filters # NONE /\ Selection(c) = << >> THEN "Idle"
                        ELSE IF c.kind = "login" THEN LoginWithFallback(c) ELSE First[c.kind]
              /\ j.result = IF c.filters # NONE /\ Selection(c) = << >> THEN Failed ELSE NONE
              /\ j.keeps = FALSE
<1> DEFINE c == Head(script[p])
           todo == Selection(c)
           nothing == c.filters # NONE /\ todo = << >>
           at == IF nothing THEN "Idle" ELSE IF c.kind = "login" THEN LoginWithFallback(c) ELSE First[c.kind]
           result == IF nothing THEN Failed ELSE NONE
           j == [Idle EXCEPT !.at = at, !.cmd = c, !.lines = Lines, !.result = result,
                             !.todo = todo, !.selected = todo, !.bound = tokens]
<1>1. proc' = [proc EXCEPT ![p] = j]
  BY DEF Begin
<1> HIDE DEF c, todo, nothing, at, result
<1>2. /\ IsJob(j) /\ j.cmd = c /\ j.lines = Lines /\ j.todo = todo /\ j.selected = todo /\ j.bound = tokens
      /\ j.at = at /\ j.result = result /\ j.keeps = FALSE
  BY IdleJob DEF Idle, IsJob
<1> HIDE DEF j
<1>3. proc'[p] = j /\ Jobs' /\ \A q \in Process : q # p => proc'[q] = proc[q]
  BY <1>1, <1>2 DEF Jobs
<1> QED
  BY <1>2, <1>3 DEF c, todo, nothing, at, result

LEMMA SelectionTyped ==
    ASSUME Members, NEW c, IsCommand(c, DOMAIN disk)
    PROVE  Selection(c) \in Seq(DOMAIN disk)
<1>1. CASE c.filters = NONE
  BY <1>1 DEF Selection, IsCommand
<1>2. CASE c.filters # NONE
  <2>1. PICK n \in Nat : DOMAIN disk = 1..n
    BY DEF Members
  <2> DEFINE s == [k \in DOMAIN disk |-> k]
  <2>2. s \in Seq(DOMAIN disk)
    BY <2>1
  <2> HIDE DEF s
  <2>3. \A at : Chosen(s, at) \in Seq(DOMAIN disk)
    BY <2>2, ChosenEmbeds
  <2> QED
    BY <1>2, <2>3 DEF Selection, SelectProjects, s
<1> QED
  BY <1>1, <1>2

LEMMA BeginTyped ==
    ASSUME Jobs, Members, IsRc(rc.lines), NEW p \in Process, Begin(p), Scripted(script[p], DOMAIN disk)
    PROVE  /\ Phase(proc'[p]) /\ IsCommand(proc'[p].cmd, DOMAIN disk) /\ proc'[p].todo \in Seq(DOMAIN disk)
           /\ IsRc(proc'[p].lines) /\ proc'[p].at # "Write"
           /\ Scripted(Tail(script[p]), DOMAIN disk)
<1> DEFINE c == Head(script[p])
           j == proc'[p]
           todo == Selection(c)
<1>1. script[p] # << >>
  BY DEF Begin
<1>2. PICK S : script[p] \in Seq(S) /\ \A d \in S : IsCommand(d, DOMAIN disk)
  BY DEF Scripted
<1>3. c \in S /\ Tail(script[p]) \in Seq(S)
  BY <1>1, <1>2
<1>4. IsCommand(c, DOMAIN disk) /\ Scripted(Tail(script[p]), DOMAIN disk)
  BY <1>2, <1>3 DEF Scripted
<1>5. /\ j.cmd = c /\ j.lines = Lines /\ j.todo = todo
      /\ j.at = IF c.filters # NONE /\ todo = << >> THEN "Idle"
                ELSE IF c.kind = "login" THEN LoginWithFallback(c) ELSE First[c.kind]
  BY BeginIs
<1> HIDE DEF c, j, todo
<1>6. todo \in Seq(DOMAIN disk)
  BY <1>4, SelectionTyped DEF todo
<1>7. c.kind \in {"pack", "publish", "bump"} /\ c.filters = NONE => todo # << >>
  BY <1>4 DEF todo, Selection, IsCommand
<1>8. c # NONE /\ c.kind \in {"lookup", "login", "logout", "pack", "publish", "release", "bump"}
  BY <1>4 DEF IsCommand
<1>9. Phase(j) /\ j.at # "Write"
  BY <1>5, <1>7, <1>8 DEF Phase, LookAt, LoginAt, LoginWithFallback, First
<1> QED
  BY <1>4, <1>5, <1>6, <1>9, LinesRc DEF j

LEMMA StepTodo ==
    ASSUME Jobs, NEW p \in Process, Step(p)
    PROVE  proc'[p].todo = proc[p].todo \/ (proc'[p].todo = Tail(proc[p].todo) /\ proc[p].at \in {"Pack", "Publish", "Clean"})
<1>1. CASE \E r : EndWith(p, r)
  BY <1>1, EndWithIs
<1>2. CASE \E s : ToStep(p, s)
  BY <1>2, ToStepIs
<1>3. CASE NextProject(p) /\ (PackProject(p) \/ Publish(p) \/ CleanTarball(p))
  BY <1>3, NextProjectIs DEF PackProject, Publish, CleanTarball, At
<1> SUFFICES ASSUME ~ \E r : EndWith(p, r), ~ \E s : ToStep(p, s), 
                    ~(NextProject(p) /\ (PackProject(p) \/ Publish(p) \/ CleanTarball(p)))
             PROVE  proc'[p].todo = proc[p].todo
  BY <1>1, <1>2, <1>3
<1>4. CASE Load(p)
  BY <1>4 DEF Load, Jobs, IsJob
<1>5. CASE Request(p) \/ ReadShard(p)
  BY <1>5 DEF Request, ReadShard, Jobs, IsJob
<1>6. CASE Answer(p) \/ Retry(p) \/ NotModified(p)
  BY <1>6 DEF Answer, Retry, NotModified, Jobs, IsJob
<1>7. CASE WebLogin(p) \/ PollForToken(p) \/ CouchLogin(p) \/ ExistingUser(p)
  BY <1>7 DEF WebLogin, PollForToken, CouchLogin, ExistingUser, HandleCouchResponse, Authenticate, Jobs, IsJob
<1>8. CASE PackProject(p)
  BY <1>8 DEF PackProject, Jobs, IsJob
<1>9. CASE WriteShard(p) \/ SaveCredentials(p) \/ Logout(p) \/ Release(p) \/ Bump(p) \/ Publish(p) \/ CleanTarball(p)
  BY <1>9 DEF WriteShard, SaveCredentials, Logout, Release, Bump, Publish, CleanTarball
<1> QED
  BY <1>4, <1>5, <1>6, <1>7, <1>8, <1>9 DEF Step

\* Only the read of the shard leads to the write of it.
LEMMA WriteFrom ==
    ASSUME Jobs, NEW p \in Process, Step(p), proc'[p].at = "Write"
    PROVE  ReadShard(p)
<1>1. ~ \E r : EndWith(p, r)
  BY EndWithIs
<1>2. ~NextProject(p) /\ ~ToStep(p, "Couch") /\ ~ToStep(p, "Credentials") /\ ~ToStep(p, "Existing") /\ ~ToStep(p, "Clean")
  BY NextProjectIs, ToStepIs
<1>3. CASE Load(p)
  BY <1>1, <1>3 DEF Load, Jobs, IsJob
<1>4. CASE Request(p)
  BY <1>4 DEF Request, Jobs, IsJob
<1>5. CASE Answer(p) \/ Retry(p) \/ NotModified(p)
  BY <1>1, <1>5 DEF Answer, Retry, NotModified, Jobs, IsJob
<1>6. CASE WebLogin(p) \/ PollForToken(p) \/ CouchLogin(p) \/ ExistingUser(p)
  BY <1>1, <1>2, <1>6
     DEF WebLogin, PollForToken, CouchLogin, ExistingUser, HandleCouchResponse, Authenticate, LoginWithFallback, Jobs, IsJob, At
<1>7. CASE PackProject(p)
  BY <1>1, <1>2, <1>7 DEF PackProject, Jobs, IsJob
<1>8. CASE WriteShard(p) \/ SaveCredentials(p) \/ Logout(p) \/ Release(p) \/ Bump(p) \/ Publish(p) \/ CleanTarball(p)
  BY <1>1, <1>2, <1>8 DEF WriteShard, SaveCredentials, Logout, Release, Bump, Publish, CleanTarball
<1> QED
  BY <1>3, <1>4, <1>5, <1>6, <1>7, <1>8 DEF Step


LEMMA TodoIn ==
    ASSUME NEW p \in Process, JobTyped(proc[p]), proc[p].at \in {"Pack", "Publish", "Clean", "Bump"}
    PROVE  Todo(p) \in DOMAIN disk /\ Tail(proc[p].todo) \in Seq(DOMAIN disk)
<1>1. proc[p].todo \in Seq(DOMAIN disk) /\ proc[p].todo # << >>
  BY DEF JobTyped, Phase
<1> DEFINE s == proc[p].todo
           D == DOMAIN disk
<1>2. s \in Seq(D) /\ s # << >>
  BY <1>1
<1> HIDE DEF s, D
<1>3. s[1] \in D /\ Tail(s) \in Seq(D)
  BY <1>2
<1> QED
  BY <1>3 DEF Todo, s, D

\* The tree of a project with its tarball, and without it.
Packed(project) ==
    [f \in DOMAIN project.files \cup {TarballOf(project)} |->
        IF f = TarballOf(project) THEN "tarball" ELSE project.files[f]]

Cleaned(project) == [f \in DOMAIN project.files \ {TarballOf(project)} |-> project.files[f]]

LEMMA PackEdits ==
    ASSUME Typed, NEW p \in Process, PackProject(p)
    PROVE  \/ disk' = disk
           \/ /\ Todo(p) \in DOMAIN disk /\ Edits(Todo(p)) /\ disk'[Todo(p)].files = Packed(disk[Todo(p)])
              /\ disk'[Todo(p)].version = disk[Todo(p)].version
<1> DEFINE k == Todo(p)
           tree == Packed(disk[k])
<1>1. k \in DOMAIN disk /\ IsTree(disk[k].files)
  BY TodoIn DEF Typed, PackProject, At, Members, IsProject
<1>2. disk' = disk \/ disk' = [disk EXCEPT ![k].files = tree]
  BY DEF PackProject, Packed
<1>3. IsTree(tree)
  BY <1>1, TarballPath DEF IsTree, Packed
<1> HIDE DEF k, tree
<1>4. disk' = disk \/ (Edits(k) /\ disk'[k].files = tree /\ disk'[k].version = disk[k].version)
  BY <1>1, <1>2, <1>3, FilesEdit DEF Typed
<1> QED
  BY <1>1, <1>4 DEF k, tree

LEMMA CleanEdits ==
    ASSUME Typed, NEW p \in Process, CleanTarball(p)
    PROVE  /\ Todo(p) \in DOMAIN disk /\ Edits(Todo(p)) /\ disk'[Todo(p)].files = Cleaned(disk[Todo(p)])
           /\ disk'[Todo(p)].version = disk[Todo(p)].version
<1> DEFINE k == Todo(p)
           tree == Cleaned(disk[k])
<1>1. k \in DOMAIN disk /\ IsTree(disk[k].files)
  BY TodoIn DEF Typed, CleanTarball, At, Members, IsProject
<1>2. disk' = [disk EXCEPT ![k].files = tree]
  BY DEF CleanTarball, Cleaned
<1>3. IsTree(tree)
  BY <1>1 DEF IsTree, Cleaned
<1> HIDE DEF k, tree
<1>4. Edits(k) /\ disk'[k].files = tree /\ disk'[k].version = disk[k].version
  BY <1>1, <1>2, <1>3, FilesEdit DEF Typed
<1> QED
  BY <1>1, <1>4 DEF k, tree

LEMMA BumpEdits ==
    ASSUME Typed, NEW p \in Process, Bump(p)
    PROVE  /\ Todo(p) \in DOMAIN disk /\ Edits(Todo(p)) /\ disk'[Todo(p)].files = disk[Todo(p)].files
           /\ disk'[Todo(p)].version = disk[Todo(p)].version + 1
  BY TodoIn, VersionEdit DEF Typed, Bump, At

LEMMA StepEdits ==
    ASSUME Typed, NEW p \in Process, Step(p)
    PROVE  /\ Members' /\ DOMAIN disk' = DOMAIN disk
           /\ \A k \in DOMAIN disk : SameManifest(disk'[k], disk[k])
<1>1. disk' = disk \/ \E k \in DOMAIN disk : Edits(k)
  <2>1. CASE PackProject(p)
    BY <2>1, PackEdits
  <2>2. CASE CleanTarball(p)
    BY <2>2, CleanEdits
  <2>3. CASE Bump(p)
    BY <2>3, BumpEdits
  <2>4. CASE ~PackProject(p) /\ ~CleanTarball(p) /\ ~Bump(p)
    BY <2>4 DEF Step, Load, Request, Answer, Retry, NotModified, ReadShard, WriteShard, WebLogin, PollForToken,
                CouchLogin, ExistingUser, SaveCredentials, Logout, Publish, Release, world
  <2> QED
    BY <2>1, <2>2, <2>3, <2>4
<1>2. CASE disk' = disk
  BY <1>2 DEF Typed, Members, SameManifest
<1>3. CASE \E k \in DOMAIN disk : Edits(k)
  BY <1>3 DEF Edits, SameManifest
<1> QED
  BY <1>1, <1>2, <1>3

LEMMA StepRc ==
    ASSUME Typed, NEW p \in Process, Step(p)
    PROVE  IsRc(rc'.lines) /\ tokens' = [h \in Host |-> tokens'[h]]
<1>1. CASE SaveCredentials(p)
  <2> DEFINE host == Target(p)
             scope == proc[p].cmd.scope
             token == [kind |-> "token", host |-> host, path |-> FALSE, basic |-> FALSE, value |-> commands]
             bind == IF scope = NONE THEN << >> ELSE <<[kind |-> "scope", scope |-> scope, host |-> host]>>
  <2>1. rc'.lines = KeptLines(host, scope) \o <<token>> \o bind
    BY <1>1 DEF SaveCredentials
  <2>2. tokens' = [Unbound(scope) EXCEPT ![host] = [token |-> commands, scope |-> scope]]
    BY <1>1 DEF SaveCredentials
  <2>3. host \in Host
    BY <1>1, TargetIsHost DEF Typed, SaveCredentials, At
  <2>4. IsLine(token)
    BY <2>3 DEF IsLine
  <2>5. IsLine([kind |-> "scope", scope |-> scope, host |-> host])
    BY <2>3 DEF IsLine
  <2>6. IsRc(<<token>>) /\ IsRc(bind)
    BY <2>4, <2>5, SingleRc, EmptyRc
  <2>7. IsRc(KeptLines(host, scope))
    BY ChosenRc DEF KeptLines, Typed
  <2> HIDE DEF host, scope, token, bind
  <2>8. IsRc(KeptLines(host, scope) \o <<token>>)
    BY <2>6, <2>7, ConcatRc
  <2>9. IsRc(rc'.lines)
    BY <2>1, <2>6, <2>8, ConcatRc
  <2>10. tokens' = [h \in Host |-> tokens'[h]]
    BY <2>2 DEF Unbound
  <2> QED
    BY <2>9, <2>10
<1>2. CASE Logout(p)
  <2>1. CASE UNCHANGED <<rc, tokens>>
    BY <2>1 DEF Typed
  <2>2. CASE ~UNCHANGED <<rc, tokens>>
    <3>1. /\ rc'.lines = KeptLines(Target(p), proc[p].cmd.scope)
          /\ tokens' = [Unbound(proc[p].cmd.scope) EXCEPT ![Target(p)] = [token |-> NONE, scope |-> NONE]]
      BY <1>2, <2>2 DEF Logout
    <3>2. IsRc(rc'.lines)
      BY <3>1, ChosenRc DEF KeptLines, Typed
    <3>3. tokens' = [h \in Host |-> tokens'[h]]
      BY <3>1 DEF Unbound
    <3> QED
      BY <3>2, <3>3
  <2> QED
    BY <2>1, <2>2
<1>3. CASE ~SaveCredentials(p) /\ ~Logout(p)
  <2>1. UNCHANGED <<rc, tokens>>
    BY <1>3 DEF Step, Load, Request, Answer, Retry, NotModified, ReadShard, WriteShard, WebLogin, PollForToken,
                CouchLogin, ExistingUser, PackProject, CleanTarball, Publish, Release, Bump, world
  <2> QED
    BY <2>1 DEF Typed
<1> QED
  BY <1>1, <1>2, <1>3

\* What a registry has of a name grows, by one version at most.
Grows ==
    \/ UNCHANGED <<server, history>>
    \/ \E h \in Host, n \in PkgName : \E v :
           /\ server' = [server EXCEPT ![h][n] = server[h][n] \cup {v}]
           /\ history' = history \cup {[host |-> h, name |-> n, day |-> clock, versions |-> server[h][n] \cup {v}]}

LEMMA UploadIs ==
    ASSUME Typed, NEW p \in Process, At(p, "Publish")
    PROVE  /\ Todo(p) \in DOMAIN disk /\ Upload(p).project = disk[Todo(p)] /\ Upload(p).project.name \in PkgName
           /\ Upload(p).host = PublishRegistry(proc[p].lines, disk[Todo(p)]) /\ Upload(p).host \in Host
<1>1. Todo(p) \in DOMAIN disk /\ IsRc(proc[p].lines)
  BY TodoIn DEF Typed, At, JobTyped
<1>2. disk[Todo(p)].name \in PkgName /\ disk[Todo(p)].to \in Host \cup {NONE}
  BY <1>1 DEF Typed, Members, IsProject
<1>3. PublishRegistry(proc[p].lines, disk[Todo(p)]) \in Host
  BY <1>1, <1>2, RegistryIsHost DEF PublishRegistry
<1> QED
  BY <1>1, <1>2, <1>3 DEF Upload

LEMMA StepGrows ==
    ASSUME Typed, NEW p \in Process, Step(p)
    PROVE  Grows
<1>1. CASE Publish(p)
  <2>1. UNCHANGED <<server, history>> \/ Arrives(Upload(p))
    BY <1>1 DEF Publish
  <2>2. CASE Arrives(Upload(p))
    BY <1>1, <2>2, UploadIs DEF Arrives, Grows, Publish
  <2> QED
    BY <2>1, <2>2 DEF Grows
<1>2. CASE Release(p)
  <2>1. proc[p].cmd.host \in Host /\ proc[p].cmd.name \in PkgName
    BY <1>2 DEF Release, At, Typed, JobTyped, Phase, IsCommand
  <2> QED
    BY <1>2, <2>1 DEF Release, Grows
<1>3. CASE ~Publish(p) /\ ~Release(p)
  <2>1. UNCHANGED <<server, history>>
    BY <1>3 DEF Step, Load, Request, Answer, Retry, NotModified, ReadShard, WriteShard, WebLogin, PollForToken,
                CouchLogin, ExistingUser, SaveCredentials, Logout, PackProject, CleanTarball, Bump, world
  <2> QED
    BY <2>1 DEF Grows
<1> QED
  BY <1>1, <1>2, <1>3

LEMMA GrowsTyped ==
    ASSUME server = [h \in Host |-> [n \in PkgName |-> server[h][n]]], Grows
    PROVE  /\ server' = [h \in Host |-> [n \in PkgName |-> server'[h][n]]]
           /\ \A h \in Host, n \in PkgName : server[h][n] \subseteq server'[h][n]
<1>1. CASE server' = server
  BY <1>1
<1>2. CASE server' # server
  <2>1. PICK h \in Host : \E n \in PkgName : \E v :
            /\ server' = [server EXCEPT ![h][n] = server[h][n] \cup {v}]
            /\ history' = history \cup {[host |-> h, name |-> n, day |-> clock, versions |-> server[h][n] \cup {v}]}
    BY <1>2, Zenon DEF Grows
  <2>2. PICK n \in PkgName : \E v : server' = [server EXCEPT ![h][n] = server[h][n] \cup {v}]
    BY <2>1
  <2>3. PICK v : server' = [server EXCEPT ![h][n] = server[h][n] \cup {v}]
    BY <2>2
  <2> DEFINE V == server[h][n] \cup {v}
  <2>4. server' = [server EXCEPT ![h][n] = V] /\ server[h][n] \subseteq V
    BY <2>3
  <2> HIDE DEF V
  <2> QED
    BY <2>4
<1> QED
  BY <1>1, <1>2

LEMMA StepShard ==
    ASSUME Typed, NEW p \in Process, Step(p)
    PROVE  /\ shard' \in [now : {shard'.now}, legacy : {shard'.legacy}]
           /\ shard'.now = [n \in PkgName |-> shard'.now[n]] /\ shard'.legacy = shard.legacy
           /\ ~WriteShard(p) => UNCHANGED cache
<1>1. CASE WriteShard(p)
  <2>1. shard' = shard \/ shard' = [shard EXCEPT !.now = proc[p].copy]
    BY <1>1 DEF WriteShard, cache
  <2>2. proc[p].copy = [n \in PkgName |-> proc[p].copy[n]]
    BY <1>1 DEF WriteShard, At, Typed, JobTyped
  <2> QED
    BY <1>1, <2>1, <2>2 DEF Typed
<1>2. CASE ~WriteShard(p)
  <2>1. UNCHANGED cache
    BY <1>2 DEF Step, Load, Request, Answer, Retry, NotModified, ReadShard, WebLogin, PollForToken,
                CouchLogin, ExistingUser, SaveCredentials, Logout, PackProject, Publish, Release, CleanTarball, Bump, world
  <2> QED
    BY <2>1 DEF Typed, cache
<1> QED
  BY <1>1, <1>2


LEMMA TypedInit == Init => Typed
<1> SUFFICES ASSUME Init PROVE Typed
  OBVIOUS
<1>1. PICK w \in Worlds : script = w.script /\ shard = w.cache /\ rc = w.rc /\ server = w.server /\ disk = w.workspace
  BY DEF Init
<1>2. IsWorld(w)
  BY RegistryAssumption
<1>3. Members
  <2>1. IsSeq(disk)
    BY <1>1, <1>2 DEF IsWorld
  <2>2. \A k \in DOMAIN disk : IsProject(disk[k])
    BY <1>1, <1>2 DEF IsWorld
  <2> QED
    BY <2>1, <2>2, IsSeqIs DEF Members
<1>4. Jobs /\ \A p \in Process : proc[p] = Idle
  BY IdleJob DEF Init, Jobs
<1>5. JobTyped(Idle)
  <2>1. Idle.at = "Idle" /\ Idle.cmd = NONE /\ Idle.todo = << >> /\ Idle.lines = << >>
    BY DEF Idle
  <2>2. << >> \in Seq(DOMAIN disk)
    OBVIOUS
  <2> QED
    BY <2>1, <2>2, EmptyRc DEF JobTyped, Phase, LookAt, LoginAt
<1>6. script = [p \in Process |-> script[p]]
  BY <1>1, <1>2 DEF IsWorld
<1>7. ASSUME NEW p \in Process PROVE Scripted(script[p], DOMAIN disk)
  <2> DEFINE s == script[p]
             S == {s[k] : k \in DOMAIN s}
  <2>1. IsSeq(s) /\ \A j \in DOMAIN s : IsCommand(s[j], DOMAIN disk)
    BY <1>1, <1>2, <1>7 DEF IsWorld
  <2>2. s \in Seq(S) /\ \A c \in S : IsCommand(c, DOMAIN disk)
    BY <2>1 DEF IsSeq
  <2> HIDE DEF s, S
  <2>3. Scripted(s, DOMAIN disk)
    BY <2>2 DEF Scripted
  <2> QED
    BY <2>3 DEF s
<1>8. shard \in [now : {shard.now}, legacy : {shard.legacy}] /\ shard.now = [n \in PkgName |-> shard.now[n]]
  BY <1>1, <1>2 DEF IsWorld
<1>9. IsRc(rc.lines) /\ server = [h \in Host |-> [n \in PkgName |-> server[h][n]]]
  BY <1>1, <1>2 DEF IsWorld
<1>10. tokens = [h \in Host |-> tokens[h]] /\ commands \in Nat /\ clock \in Nat
  BY DEF Init
<1> QED
  BY <1>3, <1>4, <1>5, <1>6, <1>7, <1>8, <1>9, <1>10 DEF Typed

LEMMA TypedStep ==
    ASSUME Typed, NEW p \in Process, Step(p)
    PROVE  Typed'
<1> DEFINE D == DOMAIN disk
<1>1. Members' /\ DOMAIN disk' = D
  BY StepEdits
<1>2. Keeps(p) /\ Phase(proc'[p])
  BY StepKeeps, StepPhase DEF Typed, JobTyped
<1>3. proc'[p].todo \in Seq(D)
  <2>1. proc[p].todo \in Seq(D)
    BY DEF Typed, JobTyped
  <2>2. proc[p].at \in {"Pack", "Publish", "Clean"} => Tail(proc[p].todo) \in Seq(D)
    BY TodoIn DEF Typed
  <2>3. proc'[p].todo = proc[p].todo \/ (proc'[p].todo = Tail(proc[p].todo) /\ proc[p].at \in {"Pack", "Publish", "Clean"})
    BY StepTodo DEF Typed
  <2> QED
    BY <2>1, <2>2, <2>3
<1>4. proc'[p].at = "Write" => proc'[p].copy = [n \in PkgName |-> proc'[p].copy[n]]
  <2>1. SUFFICES ASSUME ReadShard(p) PROVE proc'[p].copy = [n \in PkgName |-> proc'[p].copy[n]]
    BY WriteFrom DEF Typed
  <2>2. \E r : proc'[p].copy = [shard.now EXCEPT ![proc[p].cmd.name] = r]
    BY <2>1 DEF ReadShard, Typed, Jobs, IsJob
  <2> QED
    BY <2>2 DEF Typed
<1> HIDE DEF D
<1>5. (proc'[p].cmd = NONE \/ IsCommand(proc'[p].cmd, D)) /\ IsRc(proc'[p].lines)
  BY <1>2 DEF Keeps, Typed, JobTyped, D
<1>6. \A q \in Process : JobTyped(proc[q])'
  <2>1. JobTyped(proc[p])'
    BY <1>1, <1>2, <1>3, <1>4, <1>5 DEF JobTyped
  <2>2. ASSUME NEW q \in Process, q # p PROVE JobTyped(proc[q])'
    BY <1>1, <1>2, <2>2 DEF Keeps, Typed, JobTyped, D
  <2> QED
    BY <2>1, <2>2
<1>7. script' = script /\ commands' = commands /\ clock' = clock
  BY DEF Step, Load, Request, Answer, Retry, NotModified, ReadShard, WriteShard, WebLogin, PollForToken,
         CouchLogin, ExistingUser, SaveCredentials, Logout, PackProject, Publish, Release, CleanTarball, Bump, world
<1>8. \A q \in Process : Scripted(script[q], DOMAIN disk)'
  BY <1>1, <1>7 DEF Typed, Scripted, D
<1>9. server' = [h \in Host |-> [n \in PkgName |-> server'[h][n]]]
  BY StepGrows, GrowsTyped DEF Typed
<1>10. Jobs'
  BY <1>2 DEF Keeps
<1> QED
  BY <1>1, <1>6, <1>7, <1>8, <1>9, <1>10, StepRc, StepShard DEF Typed

LEMMA TypedNext == Typed /\ [Next]_vars => Typed'
<1> SUFFICES ASSUME Typed, [Next]_vars PROVE Typed'
  OBVIOUS
<1>1. CASE UNCHANGED vars
  BY <1>1 DEF vars, Typed, Jobs, JobTyped, Members
<1>2. ASSUME NEW p \in Process, Step(p) PROVE Typed'
  BY <1>2, TypedStep
<1>3. ASSUME NEW p \in Process, Begin(p) PROVE Typed'
  <2>1. UNCHANGED <<cache, rc, server, history, uploads, disk, tokens, clock, lost, kills>> /\ commands' = commands + 1
    BY <1>3 DEF Begin
  <2>2. script' = [script EXCEPT ![p] = Tail(script[p])]
    BY <1>3 DEF Begin
  <2>3. Jobs' /\ \A q \in Process : q # p => proc'[q] = proc[q]
    BY <1>3, BeginIs DEF Typed
  <2>4. Scripted(script[p], DOMAIN disk)
    BY DEF Typed
  <2>5. JobTyped(proc[p])' /\ Scripted(Tail(script[p]), DOMAIN disk)
    BY <1>3, <2>1, <2>4, BeginTyped DEF Typed, JobTyped
  <2>6. \A q \in Process : JobTyped(proc[q])'
    <3>1. ASSUME NEW q \in Process, q # p PROVE JobTyped(proc[q])'
      <4>1. JobTyped(proc[q]) /\ proc'[q] = proc[q] /\ disk' = disk
        BY <2>1, <2>3, <3>1 DEF Typed
      <4> QED
        BY <4>1 DEF JobTyped
    <3> QED
      BY <2>5, <3>1
  <2>7. script' = [q \in Process |-> script'[q]] /\ \A q \in Process : Scripted(script'[q], DOMAIN disk)
    BY <2>2, <2>5 DEF Typed
  <2>8. Members'
    BY <2>1 DEF Typed, Members
  <2>9. commands' \in Nat
    BY <2>1 DEF Typed
  <2> QED
    BY <2>1, <2>3, <2>6, <2>7, <2>8, <2>9 DEF Typed, cache
<1>4. ASSUME NEW p \in Process, Kill(p) PROVE Typed'
  <2>1. UNCHANGED <<script, cache, rc, server, disk, tokens, clock, commands>> /\ EndWith(p, NONE)
    BY <1>4 DEF Kill
  <2>2. Keeps(p) /\ proc'[p].at = "Idle" /\ proc'[p].todo = proc[p].todo
    BY <2>1, EndWithIs DEF Typed
  <2>3. \A q \in Process : JobTyped(proc[q])'
    <3>1. JobTyped(proc[p])'
      BY <2>1, <2>2 DEF Typed, JobTyped, Keeps, Phase, LookAt, LoginAt
    <3> QED
      BY <2>1, <2>2, <3>1 DEF Typed, JobTyped, Keeps
  <2>4. Members' /\ Jobs'
    BY <2>1, <2>2 DEF Typed, Members, Keeps
  <2> QED
    BY <2>1, <2>3, <2>4 DEF Typed, cache
<1>5. CASE Day
  <2>1. UNCHANGED <<proc, script, cache, rc, server, disk, tokens, commands>> /\ clock' = clock + 1
    BY <1>5 DEF Day
  <2>2. clock' \in Nat /\ Members' /\ Jobs' /\ \A q \in Process : JobTyped(proc[q])'
    BY <2>1 DEF Typed, Members, Jobs, JobTyped
  <2> QED
    BY <2>1, <2>2 DEF Typed, cache
<1> QED
  BY <1>1, <1>2, <1>3, <1>4, <1>5 DEF Next


-----------------------------------------------------------------------------
(* Lookups *)

\* A registry had just this of a name on that day.
Had(n, x, day) == [host |-> x.host, name |-> n, day |-> day, versions |-> x.versions] \in history

\* Where a record comes from: an answer on the day of its stamp, or an earlier version of snpm.
Sourced(n, r) ==
    Had(n, r.package, r.stamp) \/ \E w \in Worlds : r \in {w.cache.now[n], w.cache.legacy[n]}

RecordOK(n, r) ==
    r # NONE =>
        /\ IsPackument(r.package) /\ r.stamp \in Nat /\ (r.etag = NONE \/ IsPackument(r.etag))
        /\ n \notin crossed => (r.etag = NONE \/ r.package = r.etag) /\ Sourced(n, r)

\* What a lookup knows at each of its steps.
LookJob(j) ==
    LET n == j.cmd.name IN
    /\ j.at = "Answer" /\ n \notin crossed =>
           /\ Record(n) = NONE => j.etag = NONE
           /\ Record(n) # NONE => j.etag = Record(n).etag
    /\ j.at = "NotModified" => j.served # NONE
    /\ (j.at = "NotModified" \/ (j.at = "Save" /\ j.keeps = TRUE)) /\ n \notin crossed =>
           Record(n) # NONE /\ Record(n).etag = j.served
    /\ j.at \in {"NotModified", "Save", "Write"} => IsPackument(j.served) /\ Had(n, j.served, clock)
    /\ j.at \in {"Save", "Write"} => IsPackument(j.package) /\ (n \notin crossed => j.package = j.served)
    /\ j.at = "Write" => \A m \in PkgName : RecordOK(m, j.copy[m])
    /\ j.at = "Idle" /\ j.result # NONE /\ j.result.ok /\ j.cmd.kind = "lookup" /\ n \notin crossed =>
           j.result.served = NONE \/ j.result.package = j.result.served

Look ==
    /\ \A n \in PkgName : RecordOK(n, shard.now[n]) /\ RecordOK(n, shard.legacy[n])
    /\ \A h \in Host, n \in PkgName : [host |-> h, name |-> n, day |-> clock, versions |-> server[h][n]] \in history
    /\ \A p \in Process : LookJob(proc[p])

LEMMA LookInit == Init => Look
<1> SUFFICES ASSUME Init PROVE Look
  OBVIOUS
<1>1. PICK w \in Worlds : shard = w.cache
  BY DEF Init
<1>2. IsWorld(w)
  BY RegistryAssumption
<1>3. ASSUME NEW n \in PkgName, NEW r \in {shard.now[n], shard.legacy[n]} PROVE RecordOK(n, r)
  BY <1>1, <1>2, <1>3 DEF IsWorld, IsRecord, RecordOK, Sourced
<1>4. ASSUME NEW p \in Process PROVE LookJob(proc[p])
  BY <1>4 DEF Init, Idle, LookJob
<1>5. \A h \in Host, n \in PkgName : [host |-> h, name |-> n, day |-> clock, versions |-> server[h][n]] \in history
  BY DEF Init
<1> QED
  BY <1>3, <1>4, <1>5 DEF Look

LEMMA RecordSame ==
    ASSUME NEW n, NEW r, RecordOK(n, r), history \subseteq history', crossed \subseteq crossed'
    PROVE  RecordOK(n, r)'
  BY DEF RecordOK, Sourced, Had

\* A lookup that a step of another process does not touch.
LEMMA LookSame ==
    ASSUME NEW q \in Process, proc'[q] = proc[q], LookJob(proc[q]),
           history \subseteq history', clock' = clock, crossed \subseteq crossed',
           \/ shard' = shard
           \/ /\ shard'.legacy = shard.legacy
              /\ \A n \in PkgName : shard'.now[n] = shard.now[n] \/ n \in crossed' \/ ~Relies(q, n),
           proc[q].at \in LookAt => proc[q].cmd.name \in PkgName
    PROVE  LookJob(proc[q])'
<1> DEFINE j == proc[q]
           n == j.cmd.name
<1>1. Had(n, j.served, clock) => Had(n, j.served, clock)'
  BY DEF Had
<1>2. ASSUME Relies(q, n), j.at \in LookAt, n \notin crossed' PROVE Record(n)' = Record(n) /\ n \notin crossed
  BY <1>2 DEF Record
<1>3. j.at = "Write" => \A m \in PkgName : RecordOK(m, proc[q].copy[m])'
  <2>1. SUFFICES ASSUME j.at = "Write", NEW m \in PkgName PROVE RecordOK(m, proc[q].copy[m])'
    OBVIOUS
  <2>2. RecordOK(m, j.copy[m])
    BY <2>1 DEF LookJob
  <2> QED
    BY <2>2 DEF RecordOK, Sourced, Had
<1>4. j.at = "Answer" \/ j.at = "NotModified" \/ (j.at = "Save" /\ j.keeps = TRUE) => Relies(q, n) /\ j.at \in LookAt
  BY DEF Relies, At, LookAt
<1> QED
  BY <1>1, <1>2, <1>3, <1>4 DEF LookJob

LEMMA LookRecord ==
    ASSUME Look, NEW n \in PkgName
    PROVE  RecordOK(n, Record(n))
  BY DEF Look, Record

\* A step that is not of a lookup.
LEMMA OtherStep ==
    ASSUME Typed, Look, NEW p \in Process, Jobs', \A q \in Process : q # p => proc'[q] = proc[q],
           Phase(proc'[p]), proc'[p].cmd # NONE => proc'[p].cmd.kind # "lookup",
           proc'[p].cmd # NONE, Grows, UNCHANGED cache, clock' = clock
    PROVE  Look'
<1>1. history \subseteq history' /\ shard' = shard /\ crossed' = crossed
  BY DEF Grows, cache
<1>2. \A n \in PkgName : RecordOK(n, shard.now[n])' /\ RecordOK(n, shard.legacy[n])'
  BY <1>1 DEF Look, RecordOK, Sourced, Had
<1>3. ASSUME NEW h \in Host, NEW n \in PkgName
      PROVE  [host |-> h, name |-> n, day |-> clock', versions |-> server'[h][n]] \in history'
  <2>1. CASE UNCHANGED <<server, history>>
    BY <2>1 DEF Look
  <2>2. CASE ~UNCHANGED <<server, history>>
    <3>1. PICK i \in Host, m \in PkgName : \E v :
              /\ server' = [server EXCEPT ![i][m] = server[i][m] \cup {v}]
              /\ history' = history \cup {[host |-> i, name |-> m, day |-> clock, versions |-> server[i][m] \cup {v}]}
      BY <2>2, Zenon DEF Grows
    <3>2. PICK V : /\ server' = [server EXCEPT ![i][m] = V]
                   /\ history' = history \cup {[host |-> i, name |-> m, day |-> clock, versions |-> V]}
      BY <3>1, Zenon
    <3>3. server'[h][n] = IF h = i /\ n = m THEN V ELSE server[h][n]
      BY <3>2 DEF Typed
    <3> QED
      BY <1>3, <3>2, <3>3 DEF Look
  <2> QED
    BY <2>1, <2>2
<1>4. LookJob(proc[p])'
  BY DEF Phase, LookJob, LookAt
<1>5. ASSUME NEW q \in Process, q # p PROVE LookJob(proc[q])'
  <2>1. proc[q].at \in LookAt => proc[q].cmd.name \in PkgName
    BY DEF Typed, JobTyped, Phase, IsCommand, LookAt
  <2>2. LookJob(proc[q]) /\ proc'[q] = proc[q]
    BY <1>5 DEF Look
  <2> QED
    BY <1>1, <2>1, <2>2, LookSame
<1> QED
  BY <1>2, <1>3, <1>4, <1>5 DEF Look


\* A step of a lookup that writes nothing.
LEMMA LookFrame ==
    ASSUME Typed, Look, NEW p \in Process, \A q \in Process : q # p => proc'[q] = proc[q],
           UNCHANGED <<cache, world>>, LookJob(proc[p])'
    PROVE  Look'
<1>1. shard' = shard /\ crossed' = crossed /\ history' = history /\ server' = server /\ clock' = clock
  BY DEF cache, world
<1>2. \A n \in PkgName : RecordOK(n, shard.now[n])' /\ RecordOK(n, shard.legacy[n])'
  BY <1>1 DEF Look, RecordOK, Sourced, Had
<1>3. ASSUME NEW q \in Process, q # p PROVE LookJob(proc[q])'
  <2>1. proc[q].at \in LookAt => proc[q].cmd.name \in PkgName
    BY DEF Typed, JobTyped, Phase, IsCommand, LookAt
  <2>2. LookJob(proc[q]) /\ proc'[q] = proc[q]
    BY <1>3 DEF Look
  <2> QED
    BY <1>1, <2>1, <2>2, LookSame
<1> QED
  BY <1>1, <1>2, <1>3 DEF Look

LEMMA LoadIs ==
    ASSUME Jobs, NEW p \in Process, Load(p)
    PROVE  \/ /\ proc'[p].at = "Idle"
              /\ proc'[p].result = Failed \/ (proc'[p].result # Failed => proc'[p].result.served = NONE)
           \/ proc'[p].at = "Request"
<1>1. CASE \E r : EndWith(p, r) /\ (r = Failed \/ r.served = NONE)
  BY <1>1, EndWithIs
<1>2. CASE proc' = [proc EXCEPT ![p].at = "Request", ![p].attempt = 0]
  BY <1>2 DEF Jobs, IsJob
<1> QED
  BY <1>1, <1>2 DEF Load

LEMMA AnswerIs ==
    ASSUME Jobs, NEW p \in Process, Answer(p)
    PROVE  LET name == proc[p].cmd.name
               host == RegistryFor(proc[p].lines, name)
               has == Packument(host, name)
               j == proc'[p]
           IN \/ j.at = "Idle" /\ j.result = Failed
              \/ /\ server[host][name] # {} /\ j.served = has /\ j.package = has /\ j.keeps = FALSE
                 /\ \/ j.at = "NotModified" /\ proc[p].etag # NONE /\ proc[p].etag = has
                    \/ j.at = "Save"
<1>1. CASE EndWith(p, Failed)
  BY <1>1, EndWithIs
<1>2. CASE ~EndWith(p, Failed)
  <2> DEFINE name == proc[p].cmd.name
             host == RegistryFor(proc[p].lines, name)
             has == Packument(host, name)
             same == proc[p].etag # NONE /\ proc[p].etag = has
             at == IF same THEN "NotModified" ELSE "Save"
  <2>1. /\ server[host][name] # {}
        /\ proc' = [proc EXCEPT ![p].at = at, ![p].served = has, ![p].package = has, ![p].keeps = FALSE]
    BY <1>2 DEF Answer
  <2>2. at = "Save" \/ (at = "NotModified" /\ same)
    OBVIOUS
  <2> HIDE DEF has, host, name, at
  <2>3. proc'[p].at = at /\ proc'[p].served = has /\ proc'[p].package = has /\ proc'[p].keeps = FALSE
    BY <2>1 DEF Jobs, IsJob
  <2> QED
    BY <2>1, <2>2, <2>3 DEF has, host, name
<1> QED
  BY <1>1, <1>2

LEMMA NotModifiedIs ==
    ASSUME Jobs, NEW p \in Process, NotModified(p)
    PROVE  LET cached == LoadMetadata(proc[p].cmd.name, "offline")
               j == proc'[p]
           IN \/ j.at = "Idle" /\ j.result = Failed
              \/ cached # NONE /\ j.at = "Save" /\ j.package = cached /\ j.keeps = TRUE /\ j.served = proc[p].served
<1>1. CASE EndWith(p, Failed)
  BY <1>1, EndWithIs
<1>2. CASE ~EndWith(p, Failed)
  <2> DEFINE cached == LoadMetadata(proc[p].cmd.name, "offline")
  <2>1. cached # NONE /\ proc' = [proc EXCEPT ![p].at = "Save", ![p].package = cached, ![p].keeps = TRUE]
    BY <1>2 DEF NotModified
  <2> HIDE DEF cached
  <2>2. proc'[p].at = "Save" /\ proc'[p].package = cached /\ proc'[p].keeps = TRUE /\ proc'[p].served = proc[p].served
    BY <2>1 DEF Jobs, IsJob
  <2> QED
    BY <2>1, <2>2 DEF cached
<1> QED
  BY <1>1, <1>2

LEMMA ReadShardIs ==
    ASSUME Jobs, NEW p \in Process, ReadShard(p)
    PROVE  LET name == proc[p].cmd.name
               old == shard.now[name]
               j == proc'[p]
               x == proc[p].package
           IN /\ j.at = "Write" /\ j.package = x /\ j.served = proc[p].served
              /\ \E etag : /\ j.copy = [shard.now EXCEPT ![name] = [package |-> x, etag |-> etag, stamp |-> clock]]
                           /\ ~proc[p].keeps => etag = x
                           /\ proc[p].keeps => etag = NONE \/ (old # NONE /\ etag = old.etag)
<1> DEFINE name == proc[p].cmd.name
           old == shard.now[name]
           etag == IF ~proc[p].keeps THEN proc[p].package ELSE IF old # NONE THEN old.etag ELSE NONE
           copy == [shard.now EXCEPT ![name] = [package |-> proc[p].package, etag |-> etag, stamp |-> clock]]
<1>1. proc' = [proc EXCEPT ![p].at = "Write", ![p].copy = copy]
  BY DEF ReadShard
<1>2. (~proc[p].keeps => etag = proc[p].package) /\ (proc[p].keeps => etag = NONE \/ (old # NONE /\ etag = old.etag))
  OBVIOUS
<1> HIDE DEF etag, old, name
<1>3. \E e : /\ copy = [shard.now EXCEPT ![name] = [package |-> proc[p].package, etag |-> e, stamp |-> clock]]
             /\ (~proc[p].keeps => e = proc[p].package) /\ (proc[p].keeps => e = NONE \/ (old # NONE /\ e = old.etag))
  BY <1>2
<1> HIDE DEF copy
<1>4. proc'[p].at = "Write" /\ proc'[p].package = proc[p].package /\ proc'[p].served = proc[p].served /\ proc'[p].copy = copy
  BY <1>1 DEF Jobs, IsJob
<1> QED
  BY <1>3, <1>4 DEF old, name

\* A lookup is about a package.
LEMMA LookName ==
    ASSUME Typed, NEW p \in Process, proc[p].at \in LookAt
    PROVE  proc[p].cmd.name \in PkgName /\ proc[p].cmd.kind = "lookup" /\ IsRc(proc[p].lines)
  BY DEF Typed, JobTyped, Phase, IsCommand, LookAt

LEMMA LookSteps ==
    ASSUME Typed, Look, NEW p \in Process,
           Load(p) \/ Request(p) \/ Answer(p) \/ Retry(p) \/ NotModified(p) \/ ReadShard(p)
    PROVE  Look'
<1> DEFINE n == proc[p].cmd.name
<1>1. Step(p)
  BY DEF Step
<1>2. UNCHANGED <<cache, world>> /\ proc[p].at \in LookAt
  BY DEF Load, Request, Answer, Retry, NotModified, ReadShard, At, LookAt
<1>3. Keeps(p)
  BY <1>1, StepKeeps DEF Typed
<1>4. n \in PkgName /\ proc'[p].cmd = proc[p].cmd /\ IsRc(proc[p].lines) /\ Jobs
  BY <1>2, <1>3, LookName DEF Keeps, Typed
<1>5. shard' = shard /\ crossed' = crossed /\ history' = history /\ server' = server /\ clock' = clock
  BY <1>2 DEF cache, world
<1>6. Record(n)' = Record(n)
  BY <1>4, <1>5 DEF Record
<1>7. RecordOK(n, Record(n))
  BY <1>4, LookRecord
<1>8. LookJob(proc[p])
  BY DEF Look
<1>9. LookJob(proc[p])'
  <2>1. CASE \E r : EndWith(p, r) /\ (r = Failed \/ r.served = NONE)
    <3>1. proc'[p].at = "Idle" /\ (proc'[p].result = Failed \/ proc'[p].result.served = NONE)
      BY <1>4, <2>1, EndWithIs
    <3> QED
      BY <3>1 DEF LookJob, Failed
  <2>2. CASE Load(p)
    BY <1>4, <2>2, LoadIs DEF LookJob, Failed
  <2>3. CASE Request(p)
    <3>1. /\ proc'[p].at = "Answer"
          /\ Record(n) = NONE => proc'[p].etag = NONE
          /\ Record(n) # NONE => proc'[p].etag = Record(n).etag
      BY <1>4, <2>3 DEF Request, Jobs, IsJob
    <3> QED
      BY <1>4, <1>5, <1>6, <3>1 DEF LookJob
  <2>4. CASE Answer(p)
    <3> DEFINE host == RegistryFor(proc[p].lines, n)
               has == Packument(host, n)
    <3>1. CASE proc'[p].at = "Idle" /\ proc'[p].result = Failed
      BY <3>1 DEF LookJob, Failed
    <3>2. CASE ~(proc'[p].at = "Idle" /\ proc'[p].result = Failed)
      <4>1. /\ server[host][n] # {} /\ proc'[p].served = has /\ proc'[p].package = has /\ proc'[p].keeps = FALSE
            /\ \/ proc'[p].at = "NotModified" /\ proc[p].etag # NONE /\ proc[p].etag = has
               \/ proc'[p].at = "Save"
        BY <1>4, <2>4, <3>2, AnswerIs
      <4>2. host \in Host
        BY <1>4, RegistryIsHost
      <4>3. IsPackument(has)
        BY <4>1, <4>2, RegistryAssumption DEF IsPackument, Packument
      <4>4. Had(n, has, clock)
        BY <1>4, <4>2 DEF Look, Had, Packument
      <4> HIDE DEF has
      <4>6. n \notin crossed /\ proc[p].etag # NONE => Record(n) # NONE /\ Record(n).etag = proc[p].etag
        BY <1>8, <2>4 DEF LookJob, Answer, At
      <4>7. Had(proc[p].cmd.name, proc[p].served, clock)'
        BY <1>4, <1>5, <4>1, <4>4 DEF Had
      <4> QED
        BY <1>4, <1>5, <1>6, <4>1, <4>3, <4>6, <4>7 DEF LookJob
    <3> QED
      BY <3>1, <3>2
  <2>5. CASE Retry(p)
    <3>1. CASE EndWith(p, Failed)
      BY <2>1, <3>1
    <3>2. CASE ~EndWith(p, Failed)
      <4>1. proc'[p].at = "Request"
        BY <1>4, <2>5, <3>2 DEF Retry, Jobs, IsJob
      <4> QED
        BY <4>1 DEF LookJob
    <3> QED
      BY <3>1, <3>2
  <2>6. CASE NotModified(p)
    <3>1. CASE proc'[p].at = "Idle" /\ proc'[p].result = Failed
      BY <3>1 DEF LookJob, Failed
    <3>2. CASE ~(proc'[p].at = "Idle" /\ proc'[p].result = Failed)
      <4>1. /\ LoadMetadata(n, "offline") # NONE /\ proc'[p].at = "Save" /\ proc'[p].keeps = TRUE
            /\ proc'[p].package = LoadMetadata(n, "offline") /\ proc'[p].served = proc[p].served
        BY <1>4, <2>6, <3>2, NotModifiedIs
      <4>2. Record(n) # NONE /\ proc'[p].package = Record(n).package
        BY <4>1 DEF LoadMetadata
      <4>3. IsPackument(Record(n).package)
        BY <1>7, <4>2 DEF RecordOK
      <4>4. proc[p].served # NONE /\ IsPackument(proc[p].served) /\ Had(n, proc[p].served, clock)
        BY <1>8, <2>6 DEF LookJob, NotModified, At
      <4>5. n \notin crossed => Record(n).etag = proc[p].served /\ Record(n).package = proc[p].served
        BY <1>7, <1>8, <2>6, <4>2, <4>4 DEF LookJob, NotModified, At, RecordOK
      <4>6. Had(proc[p].cmd.name, proc[p].served, clock)'
        BY <1>4, <1>5, <4>1, <4>4 DEF Had
      <4> QED
        BY <1>4, <1>5, <1>6, <4>1, <4>2, <4>3, <4>4, <4>5, <4>6 DEF LookJob
    <3> QED
      BY <3>1, <3>2
  <2>7. CASE ReadShard(p)
    <3> DEFINE x == proc[p].package
               old == shard.now[n]
    <3>1. proc'[p].at = "Write" /\ proc'[p].package = x /\ proc'[p].served = proc[p].served
      BY <1>4, <2>7, ReadShardIs
    <3>2. PICK etag : /\ proc'[p].copy = [shard.now EXCEPT ![n] = [package |-> x, etag |-> etag, stamp |-> clock]]
                      /\ ~proc[p].keeps => etag = x
                      /\ proc[p].keeps => etag = NONE \/ (old # NONE /\ etag = old.etag)
      BY <1>4, <2>7, ReadShardIs
    <3>3. /\ IsPackument(x) /\ (n \notin crossed => x = proc[p].served)
          /\ IsPackument(proc[p].served) /\ Had(n, proc[p].served, clock)
      BY <1>8, <2>7 DEF LookJob, ReadShard, At
    <3>4. RecordOK(n, old)
      BY <1>4 DEF Look
    <3> DEFINE new == [package |-> x, etag |-> etag, stamp |-> clock]
    <3>5. new.package = x /\ new.etag = etag /\ new.stamp = clock /\ clock \in Nat
      BY DEF Typed
    <3> HIDE DEF x, old, new
    <3>6. etag = NONE \/ IsPackument(etag)
      BY <3>2, <3>3, <3>4 DEF RecordOK
    <3>7. n \notin crossed => etag = NONE \/ x = etag
      <4>1. SUFFICES ASSUME n \notin crossed, proc[p].keeps, old # NONE, etag = old.etag PROVE x = etag
        BY <3>2
      <4>2. Record(n) = old
        BY <4>1 DEF Record, old
      <4>3. Record(n).etag = proc[p].served
        BY <1>8, <2>7, <4>1 DEF LookJob, ReadShard, At
      <4> QED
        BY <3>3, <4>1, <4>2, <4>3
    <3>8. RecordOK(n, new)
      <4>1. n \notin crossed => Sourced(n, new)
        BY <3>3, <3>5 DEF Sourced, Had
      <4> QED
        BY <3>3, <3>5, <3>6, <3>7, <4>1 DEF RecordOK
    <3>9. ASSUME NEW m \in PkgName PROVE RecordOK(m, proc'[p].copy[m])
      <4>1. CASE m = n
        BY <1>4, <3>2, <3>8, <4>1 DEF Typed, new
      <4>2. CASE m # n
        BY <3>2, <4>2 DEF Typed, Look
      <4> QED
        BY <4>1, <4>2
    <3>10. \A m \in PkgName : RecordOK(m, proc[p].copy[m])'
      BY <1>5, <3>9 DEF RecordOK, Sourced, Had
    <3>11. Had(proc[p].cmd.name, proc[p].served, clock)'
      BY <1>4, <1>5, <3>1, <3>3 DEF Had
    <3> QED
      BY <1>4, <1>5, <3>1, <3>3, <3>10, <3>11 DEF LookJob
  <2> QED
    BY <2>2, <2>3, <2>4, <2>5, <2>6, <2>7
<1> QED
  BY <1>2, <1>3, <1>9, LookFrame DEF Keeps


LEMMA LookWrite ==
    ASSUME Typed, Look, NEW p \in Process, WriteShard(p)
    PROVE  Look'
<1> DEFINE n == proc[p].cmd.name
           r == [ok |-> TRUE, package |-> proc[p].package, served |-> proc[p].served]
<1>1. /\ UNCHANGED world /\ At(p, "Write") /\ EndWith(p, r)
      /\ \/ shard' = shard /\ crossed' = crossed
         \/ /\ shard' = [shard EXCEPT !.now = proc[p].copy]
            /\ crossed' = crossed \cup {m \in PkgName : /\ shard.now[m] # proc[p].copy[m]
                                                        /\ \E q \in Process : Relies(q, m)}
  BY DEF WriteShard, cache
<1>2. history' = history /\ server' = server /\ clock' = clock /\ crossed \subseteq crossed'
  BY <1>1 DEF world
<1>3. Keeps(p) /\ proc'[p].at = "Idle" /\ proc'[p].result = r
  BY <1>1, EndWithIs DEF Typed
<1>4. LookJob(proc[p])
  BY DEF Look
<1>5. LookJob(proc[p])'
  <2>1. n \notin crossed => proc[p].package = proc[p].served
    BY <1>1, <1>4 DEF LookJob, At
  <2>2. r.package = proc[p].package /\ r.served = proc[p].served
    OBVIOUS
  <2> HIDE DEF r
  <2> QED
    BY <1>2, <1>3, <2>1, <2>2 DEF LookJob, Keeps
<1>6. \/ shard' = shard
      \/ /\ shard'.legacy = shard.legacy /\ shard'.now = proc[p].copy
         /\ \A m \in PkgName : shard'.now[m] = shard.now[m] \/ m \in crossed' \/ \A q \in Process : ~Relies(q, m)
  BY <1>1 DEF Typed
<1>7. ASSUME NEW m \in PkgName PROVE RecordOK(m, shard.now[m])' /\ RecordOK(m, shard.legacy[m])'
  <2>1. RecordOK(m, shard.now[m]) /\ RecordOK(m, shard.legacy[m]) /\ RecordOK(m, proc[p].copy[m])
    BY <1>1, <1>4, <1>7 DEF LookJob, At, Look
  <2>2. RecordOK(m, shard'.now[m]) /\ RecordOK(m, shard'.legacy[m])
    BY <1>6, <2>1
  <2> QED
    BY <1>2, <2>2 DEF RecordOK, Sourced, Had
<1>8. ASSUME NEW q \in Process, q # p PROVE LookJob(proc[q])'
  <2>1. proc[q].at \in LookAt => proc[q].cmd.name \in PkgName
    BY DEF Typed, JobTyped, Phase, IsCommand, LookAt
  <2>2. LookJob(proc[q]) /\ proc'[q] = proc[q]
    BY <1>3, <1>8 DEF Look, Keeps
  <2>3. \/ shard' = shard
        \/ /\ shard'.legacy = shard.legacy
           /\ \A m \in PkgName : shard'.now[m] = shard.now[m] \/ m \in crossed' \/ ~Relies(q, m)
    BY <1>6
  <2> QED
    BY <1>2, <2>1, <2>2, <2>3, LookSame
<1> QED
  BY <1>2, <1>5, <1>7, <1>8 DEF Look

LEMMA LookNext == Typed /\ Look /\ [Next]_vars => Look'
<1> SUFFICES ASSUME Typed, Look, [Next]_vars PROVE Look'
  OBVIOUS
<1>1. CASE UNCHANGED vars
  <2>1. proc' = proc /\ shard' = shard /\ crossed' = crossed /\ history' = history /\ server' = server /\ clock' = clock
    BY <1>1 DEF vars
  <2>2. \A n \in PkgName : RecordOK(n, shard.now[n])' /\ RecordOK(n, shard.legacy[n])'
    BY <2>1 DEF Look, RecordOK, Sourced, Had
  <2>3. ASSUME NEW q \in Process PROVE LookJob(proc[q])'
    <3>1. proc[q].at \in LookAt => proc[q].cmd.name \in PkgName
      BY DEF Typed, JobTyped, Phase, IsCommand, LookAt
    <3> QED
      BY <2>1, <3>1, LookSame DEF Look
  <2> QED
    BY <2>1, <2>2, <2>3 DEF Look
<1>2. ASSUME NEW p \in Process, Step(p) PROVE Look'
  <2>1. CASE Load(p) \/ Request(p) \/ Answer(p) \/ Retry(p) \/ NotModified(p) \/ ReadShard(p)
    BY <2>1, LookSteps
  <2>2. CASE WriteShard(p)
    BY <2>2, LookWrite
  <2>3. CASE ~(Load(p) \/ Request(p) \/ Answer(p) \/ Retry(p) \/ NotModified(p) \/ ReadShard(p) \/ WriteShard(p))
    <3>1. UNCHANGED cache
      BY <1>2, <2>3, StepShard
    <3>2. clock' = clock
      BY <1>2 DEF Step, Load, Request, Answer, Retry, NotModified, ReadShard, WriteShard, WebLogin, PollForToken,
                  CouchLogin, ExistingUser, SaveCredentials, Logout, PackProject, Publish, Release, CleanTarball, Bump, world
    <3>3. proc[p].at \in LoginAt \cup {"Logout", "Pack", "Publish", "Clean", "Release", "Bump"}
      BY <1>2, <2>3 DEF Step, WebLogin, PollForToken, CouchLogin, ExistingUser, SaveCredentials, Logout,
                        PackProject, Publish, Release, CleanTarball, Bump, At, LoginAt
    <3>4. proc[p].cmd # NONE /\ proc[p].cmd.kind # "lookup"
      BY <3>3 DEF Typed, JobTyped, Phase, LoginAt
    <3>5. Keeps(p) /\ Phase(proc'[p])
      BY <1>2, StepKeeps, StepPhase DEF Typed, JobTyped
    <3>6. Grows
      BY <1>2, StepGrows
    <3> QED
      BY <3>1, <3>2, <3>4, <3>5, <3>6, OtherStep DEF Keeps
  <2> QED
    BY <2>1, <2>2, <2>3
<1>3. ASSUME NEW p \in Process, Begin(p) PROVE Look'
  <2>1. /\ shard' = shard /\ crossed' = crossed /\ history' = history /\ server' = server /\ clock' = clock
    BY <1>3 DEF Begin, cache
  <2>2. \A q \in Process : q # p => proc'[q] = proc[q]
    BY <1>3, BeginIs DEF Typed
  <2>3. Phase(proc'[p]) /\ (proc'[p].at \in {"Idle", "Load", "Logout", "Pack", "Release", "Bump"} \cup LoginAt)
    <3>1. Phase(proc'[p]) /\ IsCommand(proc'[p].cmd, DOMAIN disk)
      BY <1>3, BeginTyped DEF Typed
    <3>2. LET c == proc'[p].cmd IN
          proc'[p].at = "Idle" \/ (c.kind = "login" /\ proc'[p].at = LoginWithFallback(c)) \/ (c.kind # "login" /\ proc'[p].at = First[c.kind])
      BY <1>3, BeginIs DEF Typed
    <3>3. proc'[p].cmd.kind \in {"lookup", "login", "logout", "pack", "publish", "release", "bump"}
      BY <3>1 DEF IsCommand
    <3> QED
      BY <3>1, <3>2, <3>3 DEF LoginWithFallback, First, LoginAt
  <2>4. proc'[p].result = NONE \/ proc'[p].result = Failed
    BY <1>3, BeginIs DEF Typed
  <2>5. LookJob(proc[p])'
    BY <2>3, <2>4 DEF LookJob, Failed, LoginAt
  <2>6. \A n \in PkgName : RecordOK(n, shard.now[n])' /\ RecordOK(n, shard.legacy[n])'
    BY <2>1 DEF Look, RecordOK, Sourced, Had
  <2>7. ASSUME NEW q \in Process, q # p PROVE LookJob(proc[q])'
    <3>1. proc[q].at \in LookAt => proc[q].cmd.name \in PkgName
      BY DEF Typed, JobTyped, Phase, IsCommand, LookAt
    <3>2. LookJob(proc[q]) /\ proc'[q] = proc[q]
      BY <2>2, <2>7 DEF Look
    <3> QED
      BY <2>1, <3>1, <3>2, LookSame
  <2> QED
    BY <2>1, <2>5, <2>6, <2>7 DEF Look
<1>4. ASSUME NEW p \in Process, Kill(p) PROVE Look'
  <2>1. UNCHANGED <<cache, world>> \/ (UNCHANGED <<script, cache, rc, server, history, uploads, disk, tokens, clock, commands, lost>>)
    BY <1>4 DEF Kill
  <2>2. Keeps(p) /\ proc'[p].at = "Idle" /\ proc'[p].result = NONE
    BY <1>4, EndWithIs DEF Typed, Kill
  <2>3. shard' = shard /\ crossed' = crossed /\ history' = history /\ server' = server /\ clock' = clock
    BY <1>4 DEF Kill, cache
  <2>4. LookJob(proc[p])'
    BY <2>2 DEF LookJob
  <2>5. \A n \in PkgName : RecordOK(n, shard.now[n])' /\ RecordOK(n, shard.legacy[n])'
    BY <2>3 DEF Look, RecordOK, Sourced, Had
  <2>6. ASSUME NEW q \in Process, q # p PROVE LookJob(proc[q])'
    <3>1. proc[q].at \in LookAt => proc[q].cmd.name \in PkgName
      BY DEF Typed, JobTyped, Phase, IsCommand, LookAt
    <3>2. LookJob(proc[q]) /\ proc'[q] = proc[q]
      BY <2>2, <2>6 DEF Look, Keeps
    <3> QED
      BY <2>3, <3>1, <3>2, LookSame
  <2> QED
    BY <2>3, <2>4, <2>5, <2>6 DEF Look
<1>5. CASE Day
  <2>1. /\ proc' = proc /\ shard' = shard /\ crossed' = crossed /\ server' = server /\ clock' = clock + 1
        /\ \A p \in Process : proc[p].at \notin {"NotModified", "Save", "Write"}
        /\ history' = history \cup {[host |-> h, name |-> n, day |-> clock + 1, versions |-> server[h][n]] :
                                       h \in Host, n \in PkgName}
    BY <1>5 DEF Day, cache
  <2>2. history \subseteq history'
    BY <2>1
  <2>3. \A n \in PkgName : RecordOK(n, shard.now[n])' /\ RecordOK(n, shard.legacy[n])'
    BY <2>1, <2>2 DEF Look, RecordOK, Sourced, Had
  <2>4. ASSUME NEW q \in Process PROVE LookJob(proc[q])'
    <3>1. LookJob(proc[q])
      BY DEF Look
    <3>2. Record(proc[q].cmd.name)' = Record(proc[q].cmd.name)
      BY <2>1 DEF Record
    <3> QED
      BY <2>1, <3>1, <3>2 DEF LookJob
  <2>5. \A h \in Host, n \in PkgName : [host |-> h, name |-> n, day |-> clock', versions |-> server'[h][n]] \in history'
    BY <2>1
  <2> QED
    BY <2>3, <2>4, <2>5 DEF Look
<1> QED
  BY <1>1, <1>2, <1>3, <1>4, <1>5 DEF Next

\* The tarballs that lie in projects.
TarballsOf(x) ==
    \A f \in DOMAIN x.files : x.files[f] = "tarball" => \E v \in 1..x.version : f = <<Tarball[<<x.name, v>>]>>

TarballsRight == \A k \in DOMAIN disk : TarballsOf(disk[k])

LEMMA TarballsInit == Init => TarballsRight
<1> SUFFICES ASSUME Init PROVE TarballsRight
  OBVIOUS
<1>1. PICK w \in Worlds : disk = w.workspace
  BY DEF Init
<1>2. IsWorld(w)
  BY RegistryAssumption
<1> QED
  BY <1>1, <1>2 DEF IsWorld, TarballsRight, TarballsOf

LEMMA TarballsNext == Typed /\ TarballsRight /\ [Next]_vars => TarballsRight'
<1> SUFFICES ASSUME Typed, TarballsRight, [Next]_vars PROVE TarballsRight'
  OBVIOUS
<1>1. CASE disk' = disk
  BY <1>1 DEF TarballsRight, TarballsOf
<1>2. ASSUME NEW p \in Process, PackProject(p) PROVE TarballsRight'
  <2> DEFINE k == Todo(p)
             x == disk[k]
             y == disk'[k]
  <2>1. disk' = disk \/ (k \in DOMAIN disk /\ Edits(k) /\ y.files = Packed(x) /\ y.version = x.version)
    BY <1>2, PackEdits
  <2>2. CASE disk' # disk
    <3>1. k \in DOMAIN disk /\ Edits(k) /\ y.files = Packed(x) /\ y.version = x.version /\ y.name = x.name
      BY <2>1, <2>2 DEF Edits, SameManifest
    <3>2. x.version \in Nat \ {0} /\ TarballsOf(x)
      BY <3>1 DEF Typed, Members, IsProject, TarballsRight
    <3> HIDE DEF x, y
    <3>3. x.version \in 1..x.version
      BY <3>2
    <3>4. TarballsOf(y)
      BY <3>1, <3>2, <3>3 DEF TarballsOf, Packed, TarballOf
    <3>5. ASSUME NEW j \in DOMAIN disk' PROVE TarballsOf(disk'[j])
      BY <3>1, <3>4, <3>5 DEF Edits, TarballsRight, y
    <3> QED
      BY <3>5 DEF TarballsRight, TarballsOf
  <2> QED
    BY <1>1, <2>2
<1>3. ASSUME NEW p \in Process, CleanTarball(p) PROVE TarballsRight'
  <2> DEFINE k == Todo(p)
             x == disk[k]
             y == disk'[k]
  <2>1. k \in DOMAIN disk /\ Edits(k) /\ y.files = Cleaned(x) /\ y.version = x.version /\ y.name = x.name
    BY <1>3, CleanEdits DEF Edits, SameManifest
  <2>2. TarballsOf(x)
    BY <2>1 DEF TarballsRight
  <2> HIDE DEF x, y
  <2>3. TarballsOf(y)
    BY <2>1, <2>2 DEF TarballsOf, Cleaned
  <2>4. ASSUME NEW j \in DOMAIN disk' PROVE TarballsOf(disk'[j])
    BY <2>1, <2>3, <2>4 DEF Edits, TarballsRight, y
  <2> QED
    BY <2>4 DEF TarballsRight, TarballsOf
<1>4. ASSUME NEW p \in Process, Bump(p) PROVE TarballsRight'
  <2> DEFINE k == Todo(p)
             x == disk[k]
             y == disk'[k]
  <2>1. k \in DOMAIN disk /\ Edits(k) /\ y.files = x.files /\ y.version = x.version + 1 /\ y.name = x.name
    BY <1>4, BumpEdits DEF Edits, SameManifest
  <2>2. TarballsOf(x) /\ x.version \in Nat \ {0}
    BY <2>1 DEF TarballsRight, Typed, Members, IsProject
  <2> HIDE DEF x, y
  <2>3. \A v \in 1..x.version : v \in 1..(x.version + 1)
    BY <2>2
  <2>4. TarballsOf(y)
    BY <2>1, <2>2, <2>3 DEF TarballsOf
  <2>5. ASSUME NEW j \in DOMAIN disk' PROVE TarballsOf(disk'[j])
    BY <2>1, <2>4, <2>5 DEF Edits, TarballsRight, y
  <2> QED
    BY <2>5 DEF TarballsRight, TarballsOf
<1>5. ASSUME NEW p \in Process, Step(p), ~PackProject(p), ~CleanTarball(p), ~Bump(p) PROVE disk' = disk
  BY <1>5 DEF Step, Load, Request, Answer, Retry, NotModified, ReadShard, WriteShard, WebLogin, PollForToken,
              CouchLogin, ExistingUser, SaveCredentials, Logout, Publish, Release, world
<1>6. ASSUME NEW p \in Process, Begin(p) \/ Kill(p) PROVE disk' = disk
  BY <1>6 DEF Begin, Kill
<1>7. CASE Day
  BY <1>1, <1>7 DEF Day
<1>8. CASE UNCHANGED vars
  BY <1>1, <1>8 DEF vars
<1> QED
  BY <1>1, <1>2, <1>3, <1>4, <1>5, <1>6, <1>7, <1>8 DEF Next

LEMMA LookImplies == Typed /\ Look /\ TarballsRight => LookupRight
<1> SUFFICES ASSUME Typed, Look, TarballsRight PROVE LookupRight
  OBVIOUS
<1>1. TypeOK
  BY DEF Look, RecordOK, TarballsRight, TarballsOf, TypeOK
<1>2. Current
  BY DEF Look, LookJob, Current, Answered
<1>3. ASSUME NEW p \in Process, At(p, "Load"), proc[p].cmd.mode = "online", proc[p].cmd.name \notin crossed,
             LoadMetadata(proc[p].cmd.name, "online") # NONE
      PROVE  LET n == proc[p].cmd.name
                 x == LoadMetadata(n, "online")
             IN \/ \E s \in history : s.host = x.host /\ s.name = n /\ s.versions = x.versions /\ clock - s.day < MaxAge
                \/ \E w \in Worlds : \E r \in {w.cache.now[n], w.cache.legacy[n]} :
                       r # NONE /\ r.package = x /\ r.stamp <= clock /\ clock - r.stamp < MaxAge
  <2> DEFINE n == proc[p].cmd.name
             x == LoadMetadata(n, "online")
             r == Record(n)
  <2>1. n \in PkgName
    BY <1>3, LookName DEF At, LookAt
  <2>2. r # NONE /\ x = r.package /\ r.stamp <= clock /\ clock - r.stamp < MaxAge
    BY <1>3 DEF LoadMetadata, IsFresh
  <2>3. Sourced(n, r)
    BY <1>3, <2>1, <2>2, LookRecord DEF RecordOK
  <2>4. CASE Had(n, x, r.stamp)
    <3> DEFINE s == [host |-> x.host, name |-> n, day |-> r.stamp, versions |-> x.versions]
    <3>1. s \in history /\ s.host = x.host /\ s.name = n /\ s.versions = x.versions /\ s.day = r.stamp
      BY <2>4 DEF Had
    <3> HIDE DEF s, x, r, n
    <3>2. \E t \in history : t.host = x.host /\ t.name = n /\ t.versions = x.versions /\ clock - t.day < MaxAge
      BY <2>2, <3>1
    <3> QED
      BY <3>2 DEF x, n
  <2>5. CASE \E w \in Worlds : r \in {w.cache.now[n], w.cache.legacy[n]}
    BY <2>2, <2>5
  <2> QED
    BY <2>2, <2>3, <2>4, <2>5 DEF Sourced
<1>4. FreshEnough
  BY <1>3 DEF FreshEnough
<1> QED
  BY <1>1, <1>2, <1>4 DEF LookupRight


-----------------------------------------------------------------------------
(* Credentials *)

\* A line is the last one with credentials for a host.
LastFor(lines, h, l) ==
    \E k \in HostLines(lines, h) : lines[k] = l /\ \A j \in HostLines(lines, h) : k >= j

LEMMA LastForIs ==
    ASSUME NEW lines, IsSeq(lines), NEW h, NEW l, LastFor(lines, h, l)
    PROVE  HostLines(lines, h) # {} /\ LastLine(lines, HostLines(lines, h)) = l
<1>1. HostLines(lines, h) \subseteq Nat
  BY IsSeqIs DEF HostLines, OfKind
<1> QED
  BY <1>1, LastOfIs DEF LastFor, LastLine

LEMMA ChosenFrom ==
    ASSUME NEW s, IsSeq(s), NEW at
    PROVE  /\ IsSeq(Chosen(s, at))
           /\ \A i \in DOMAIN Chosen(s, at) : \E k \in at \cap DOMAIN s : Chosen(s, at)[i] = s[k]
           /\ \A k \in at \cap DOMAIN s : \E i \in DOMAIN Chosen(s, at) : Chosen(s, at)[i] = s[k]
<1> DEFINE S == {s[k] : k \in DOMAIN s}
           t == Chosen(s, at)
<1>1. s \in Seq(S)
  BY DEF IsSeq
<1> HIDE DEF S
<1>2. t \in Seq(S) /\ \E m : Embeds(m, s, at, Len(s), t)
  BY <1>1, ChosenEmbeds
<1> HIDE DEF t
<1>3. PICK m : Embeds(m, s, at, Len(s), t)
  BY <1>2
<1>4. DOMAIN s = 1..Len(s) /\ DOMAIN t = 1..Len(t) /\ IsSeq(t)
  BY <1>1, <1>2, SeqIs
<1> QED
  BY <1>3, <1>4 DEF Embeds, t

LEMMA LastForKept ==
    ASSUME NEW s, IsSeq(s), NEW at, NEW h, NEW l, LastFor(s, h, l), HostLines(s, h) \subseteq at
    PROVE  LastFor(Chosen(s, at), h, l)
<1> DEFINE S == {s[k] : k \in DOMAIN s}
           t == Chosen(s, at)
<1>1. s \in Seq(S)
  BY DEF IsSeq
<1> HIDE DEF S
<1>2. t \in Seq(S) /\ \E m : Embeds(m, s, at, Len(s), t)
  BY <1>1, ChosenEmbeds
<1> HIDE DEF t
<1>3. PICK m : Embeds(m, s, at, Len(s), t)
  BY <1>2
<1>4. DOMAIN s = 1..Len(s) /\ DOMAIN t = 1..Len(t) /\ Len(s) \in Nat /\ Len(t) \in Nat
  BY <1>1, <1>2
<1>5. PICK k \in HostLines(s, h) : s[k] = l /\ \A j \in HostLines(s, h) : k >= j
  BY DEF LastFor
<1>6. k \in at \cap (1..Len(s))
  BY <1>4, <1>5 DEF HostLines, OfKind
<1>7. PICK i \in 1..Len(t) : m[i] = k
  BY <1>3, <1>6 DEF Embeds
<1>8. t[i] = l
  BY <1>3, <1>5, <1>7 DEF Embeds
<1>9. i \in HostLines(t, h)
  BY <1>4, <1>5, <1>7, <1>8 DEF HostLines, OfKind
<1>10. ASSUME NEW j \in HostLines(t, h) PROVE i >= j
  <2>1. j \in 1..Len(t) /\ t[j].kind = "token" /\ t[j].host = h
    BY <1>4, <1>10 DEF HostLines, OfKind
  <2>2. t[j] = s[m[j]] /\ m[j] \in 1..Len(s)
    BY <1>3, <2>1 DEF Embeds
  <2>3. m[j] \in HostLines(s, h)
    BY <1>4, <2>1, <2>2 DEF HostLines, OfKind
  <2>4. k >= m[j]
    BY <1>5, <2>3
  <2>5. i < j => m[i] < m[j]
    BY <1>3, <2>1 DEF Embeds
  <2> QED
    BY <1>6, <1>7, <2>1, <2>2, <2>4, <2>5
<1> QED
  BY <1>8, <1>9, <1>10 DEF LastFor, t

LEMMA HostConcat ==
    ASSUME NEW s, NEW t, IsSeq(s), IsSeq(t), NEW h, HostLines(t, h) = {}
    PROVE  HostLines(s \o t, h) = HostLines(s, h) /\ \A k \in HostLines(s, h) : (s \o t)[k] = s[k]
<1>1. DOMAIN s = 1..Len(s) /\ DOMAIN t = 1..Len(t) /\ Len(s) \in Nat /\ Len(t) \in Nat
  BY IsSeqIs
<1>2. /\ DOMAIN (s \o t) = 1..(Len(s) + Len(t)) /\ \A k \in 1..Len(s) : (s \o t)[k] = s[k]
      /\ \A k \in 1..Len(t) : (s \o t)[Len(s) + k] = t[k]
      /\ \A k \in DOMAIN (s \o t) : k \in 1..Len(s) \/ \E j \in 1..Len(t) : k = Len(s) + j
  BY ConcatIs
<1> DEFINE u == s \o t
<1> HIDE DEF u
<1>3. ASSUME NEW k \in HostLines(s, h) PROVE k \in HostLines(u, h) /\ u[k] = s[k]
  <2>1. k \in 1..Len(s) /\ k \in 1..(Len(s) + Len(t))
    BY <1>1, <1>3 DEF HostLines, OfKind
  <2> QED
    BY <1>2, <1>3, <2>1 DEF HostLines, OfKind, u
<1>4. ASSUME NEW k \in HostLines(u, h) PROVE k \in HostLines(s, h)
  <2>1. CASE k \in 1..Len(s)
    BY <1>1, <1>2, <1>4, <2>1 DEF HostLines, OfKind, u
  <2>2. CASE \E j \in 1..Len(t) : k = Len(s) + j
    <3>1. PICK j \in 1..Len(t) : k = Len(s) + j
      BY <2>2
    <3>2. j \in HostLines(t, h)
      BY <1>1, <1>2, <1>4, <3>1 DEF HostLines, OfKind, u
    <3> QED
      BY <3>2
  <2> QED
    BY <1>2, <1>4, <2>1, <2>2 DEF HostLines, OfKind, u
<1> QED
  BY <1>3, <1>4 DEF u

LEMMA LastForConcat ==
    ASSUME NEW s, NEW t, IsSeq(s), IsSeq(t), NEW h, NEW l, HostLines(t, h) = {}, LastFor(s, h, l)
    PROVE  LastFor(s \o t, h, l)
<1> DEFINE u == s \o t
<1>1. HostLines(u, h) = HostLines(s, h) /\ \A k \in HostLines(s, h) : u[k] = s[k]
  BY HostConcat
<1> HIDE DEF u
<1> QED
  BY <1>1 DEF LastFor, u

LEMMA LastForEnd ==
    ASSUME NEW s, IsSeq(s), NEW l, l.kind = "token"
    PROVE  LastFor(s \o <<l>>, l.host, l)
<1> DEFINE one == <<l>>
           u == s \o one
           n == Len(s) + 1
<1>1. Len(s) \in Nat /\ one \in Seq({l}) /\ Len(one) = 1 /\ one[1] = l
  BY IsSeqIs
<1> HIDE DEF one
<1>2. IsSeq(one) /\ 1 \in 1..Len(one)
  BY <1>1, SeqIs
<1>3. DOMAIN u = 1..n /\ u[n] = l
  <2>1. DOMAIN u = 1..(Len(s) + Len(one)) /\ \A k \in 1..Len(one) : u[Len(s) + k] = one[k]
    BY <1>2, ConcatIs
  <2> HIDE DEF u
  <2> QED
    BY <1>1, <1>2, <2>1
<1> HIDE DEF u
<1>4. n \in HostLines(u, l.host) /\ HostLines(u, l.host) \subseteq 1..n
  BY <1>1, <1>3 DEF HostLines, OfKind
<1>5. \A j \in 1..n : n >= j
  BY <1>1
<1> QED
  BY <1>3, <1>4, <1>5 DEF LastFor, u, one

\* Where a scope leads, by the lines of an rc file.
LeadsTo(lines, scope, h) ==
    /\ Binds(lines, scope)
    /\ \A k \in OfKind(lines, "scope") : lines[k].scope = scope => lines[k].host = h

\* What lines say of a host and a scope goes with what a login or logout said.
Says(lines, h, t) ==
    /\ t.token # NONE => \E l : LastFor(lines, h, l) /\ l.basic = FALSE /\ l.value = t.token
    /\ t.token = NONE => \A k \in HostLines(lines, h) : lines[k].basic = TRUE
    /\ t.scope # NONE => LeadsTo(lines, t.scope, h)

IsSession(t) == t = [token |-> t.token, scope |-> t.scope]

SessionAt(h) == tokens[h] # NONE => IsSession(tokens[h]) /\ Says(rc.lines, h, tokens[h])

\* What a command goes by is what there was when it began.
BoundAt(j) ==
    j.cmd # NONE =>
        \A h \in Host, n \in PkgName :
            ScopeOf[n] # NONE /\ j.bound[h] # NONE /\ j.bound[h].scope = ScopeOf[n] /\ ~Binds(ProjectRc, ScopeOf[n])
                => RegistryFor(j.lines, n) = h

Session ==
    /\ \A h \in Host : SessionAt(h)
    /\ \A p \in Process : BoundAt(proc[p])
    /\ ScopeBound

LEMMA SessionShows ==
    ASSUME Typed, NEW h \in Host, SessionAt(h), tokens[h] # NONE, ~Speaks(ProjectRc, h)
    PROVE  LET header == AuthorizationHeader(Lines, h) IN
           IF tokens[h].token # NONE THEN header = [scheme |-> "Bearer", token |-> tokens[h].token]
           ELSE header = NONE \/ header.scheme = "Basic"
                \/ (h = DefaultRegistry(Lines) /\ header.token = DefaultToken(Lines))
<1> DEFINE L == Lines
           hits == HostLines(L, h)
<1>1. IsSeq(rc.lines) /\ IsSeq(ProjectRc) /\ HostLines(ProjectRc, h) = {} /\ IsSeq(L)
  BY LinesRc, RegistryAssumption DEF Typed, IsRc, Speaks
<1>2. hits = HostLines(rc.lines, h) /\ \A k \in hits : L[k] = rc.lines[k]
  <2> DEFINE s == rc.lines
             t == ProjectRc
  <2>1. L = s \o t /\ IsSeq(s) /\ IsSeq(t) /\ HostLines(t, h) = {}
    BY <1>1 DEF Lines
  <2> HIDE DEF L, s, t
  <2>2. HostLines(L, h) = HostLines(s, h) /\ \A k \in HostLines(s, h) : L[k] = s[k]
    BY <2>1, HostConcat
  <2> QED
    BY <2>2 DEF s
<1>3. CASE tokens[h].token # NONE
  <2>1. PICK l : LastFor(rc.lines, h, l) /\ l.basic = FALSE /\ l.value = tokens[h].token
    BY <1>3 DEF SessionAt, Says
  <2>2. LastFor(L, h, l)
    BY <1>1, <2>1, LastForConcat DEF Lines
  <2>3. hits # {} /\ LastLine(L, hits) = l
    BY <1>1, <2>2, LastForIs
  <2> QED
    BY <1>3, <2>1, <2>3 DEF AuthorizationHeader
<1>4. CASE tokens[h].token = NONE
  <2>1. CASE hits = {}
    BY <1>4, <2>1 DEF AuthorizationHeader
  <2>2. CASE hits # {}
    <3>1. LastOf(hits) \in hits
      BY <1>1, <2>2, LastIn DEF HostLines, OfKind
    <3>2. LastLine(L, hits).basic = TRUE
      BY <1>2, <1>4, <3>1 DEF SessionAt, Says, LastLine
    <3> QED
      BY <1>4, <2>2, <3>2 DEF AuthorizationHeader
  <2> QED
    BY <2>1, <2>2
<1> QED
  BY <1>3, <1>4

LEMMA LeadsThere ==
    ASSUME Typed, NEW h \in Host, NEW n \in PkgName, ScopeOf[n] # NONE, ~Binds(ProjectRc, ScopeOf[n]),
           LeadsTo(rc.lines, ScopeOf[n], h)
    PROVE  RegistryFor(Lines, n) = h
<1> DEFINE s == rc.lines
           t == ProjectRc
           L == Lines
           scope == ScopeOf[n]
           hits == {k \in OfKind(L, "scope") : L[k].scope = scope}
<1>1. IsSeq(s) /\ IsSeq(t) /\ IsSeq(L)
  BY LinesRc, RegistryAssumption DEF Typed, IsRc
<1>2. DOMAIN s = 1..Len(s) /\ DOMAIN t = 1..Len(t) /\ Len(s) \in Nat /\ Len(t) \in Nat
  BY <1>1, IsSeqIs
<1>3. /\ DOMAIN L = 1..(Len(s) + Len(t)) /\ \A k \in 1..Len(s) : L[k] = s[k]
      /\ \A k \in 1..Len(t) : L[Len(s) + k] = t[k]
      /\ \A k \in DOMAIN L : k \in 1..Len(s) \/ \E j \in 1..Len(t) : k = Len(s) + j
  <2>1. L = s \o t
    BY DEF Lines
  <2> HIDE DEF L, s, t
  <2> QED
    BY <1>1, <2>1, ConcatIs
<1> HIDE DEF L, s, t
<1>4. hits # {}
  <2>1. PICK k \in OfKind(s, "scope") : s[k].scope = scope
    BY DEF LeadsTo, Binds, s
  <2>2. k \in 1..Len(s) /\ k \in 1..(Len(s) + Len(t))
    BY <1>2, <2>1 DEF OfKind
  <2>3. k \in hits
    BY <1>3, <2>1, <2>2 DEF OfKind
  <2> QED
    BY <2>3
<1>5. ASSUME NEW k \in hits PROVE L[k].host = h
  <2>1. CASE k \in 1..Len(s)
    BY <1>2, <1>3, <1>5, <2>1 DEF OfKind, LeadsTo, s
  <2>2. CASE \E j \in 1..Len(t) : k = Len(s) + j
    <3>1. PICK j \in 1..Len(t) : k = Len(s) + j
      BY <2>2
    <3>2. Binds(t, scope)
      BY <1>2, <1>3, <1>5, <3>1 DEF Binds, OfKind
    <3> QED
      BY <3>2 DEF t
  <2> QED
    BY <1>3, <1>5, <2>1, <2>2 DEF OfKind
<1>6. LastOf(hits) \in hits
  BY <1>1, <1>4, LastIn DEF OfKind
<1> QED
  BY <1>4, <1>5, <1>6 DEF RegistryFor, LastLine, L


LEMMA AddLine ==
    ASSUME NEW s, IsSeq(s), NEW l
    PROVE  LET u == s \o <<l>> IN
           /\ IsSeq(u) /\ IsSeq(<<l>>) /\ Len(s) + 1 \in DOMAIN u /\ u[Len(s) + 1] = l
           /\ \A k \in DOMAIN s : k \in DOMAIN u /\ u[k] = s[k]
           /\ \A k \in DOMAIN u : k \in DOMAIN s \/ k = Len(s) + 1
<1> DEFINE one == <<l>>
           u == s \o one
<1>1. Len(s) \in Nat /\ DOMAIN s = 1..Len(s) /\ one \in Seq({l}) /\ Len(one) = 1 /\ one[1] = l
  BY IsSeqIs
<1> HIDE DEF one
<1>2. IsSeq(one) /\ 1 \in 1..Len(one)
  BY <1>1, SeqIs
<1>3. /\ IsSeq(u) /\ DOMAIN u = 1..(Len(s) + Len(one)) /\ \A k \in 1..Len(s) : u[k] = s[k]
      /\ \A k \in 1..Len(one) : u[Len(s) + k] = one[k]
  BY <1>2, ConcatIs
<1> HIDE DEF u
<1>4. u[Len(s) + 1] = l /\ DOMAIN u = 1..(Len(s) + 1)
  BY <1>1, <1>2, <1>3
<1>5. \A k \in DOMAIN u : k \in DOMAIN s \/ k = Len(s) + 1
  BY <1>1, <1>4
<1>6. \A k \in DOMAIN s : k \in DOMAIN u
  BY <1>1, <1>4
<1>7. Len(s) + 1 \in DOMAIN u
  BY <1>1, <1>4
<1> QED
  BY <1>1, <1>2, <1>3, <1>4, <1>5, <1>6, <1>7 DEF u, one

LEMMA SaysAdd ==
    ASSUME NEW s, IsSeq(s), NEW h, NEW t, Says(s, h, t), NEW l,
           l.kind = "token" => l.host # h, l.kind = "scope" => l.scope # t.scope
    PROVE  Says(s \o <<l>>, h, t)
<1> DEFINE one == <<l>>
           u == s \o one
<1>1. /\ IsSeq(u) /\ IsSeq(one) /\ Len(s) + 1 \in DOMAIN u /\ u[Len(s) + 1] = l
      /\ \A k \in DOMAIN s : k \in DOMAIN u /\ u[k] = s[k]
      /\ \A k \in DOMAIN u : k \in DOMAIN s \/ k = Len(s) + 1
  BY AddLine
<1>2. HostLines(one, h) = {}
  <2>1. DOMAIN one = {1} /\ one[1] = l
    OBVIOUS
  <2> HIDE DEF one
  <2> QED
    BY <2>1 DEF HostLines, OfKind
<1> HIDE DEF one
<1>3. HostLines(u, h) = HostLines(s, h) /\ \A k \in HostLines(s, h) : u[k] = s[k]
  <2>1. IsSeq(one)
    BY <1>1
  <2> QED
    BY <1>2, <2>1, HostConcat
<1>4. \A x : LastFor(s, h, x) => LastFor(u, h, x)
  BY <1>1, <1>2, LastForConcat
<1> HIDE DEF u
<1>5. LeadsTo(s, t.scope, h) => LeadsTo(u, t.scope, h)
  BY <1>1 DEF LeadsTo, Binds, OfKind
<1>6. Says(u, h, t)
  BY <1>3, <1>4, <1>5 DEF Says
<1> QED
  BY <1>6 DEF u, one

LEMMA KeptIs ==
    ASSUME Typed, NEW H, NEW sc
    PROVE  /\ IsSeq(KeptLines(H, sc))
           /\ \A i \in DOMAIN KeptLines(H, sc) : \E k \in DOMAIN rc.lines :
                  KeptLines(H, sc)[i] = rc.lines[k] /\ ShouldKeepLine(rc.lines[k], H, sc)
           /\ \A k \in DOMAIN rc.lines : ShouldKeepLine(rc.lines[k], H, sc) =>
                  \E i \in DOMAIN KeptLines(H, sc) : KeptLines(H, sc)[i] = rc.lines[k]
<1> DEFINE s == rc.lines
           at == {k \in DOMAIN s : ShouldKeepLine(s[k], H, sc)}
           t == Chosen(s, at)
<1>1. IsSeq(s)
  BY DEF Typed, IsRc
<1> HIDE DEF s, at
<1>2. /\ IsSeq(t) /\ \A i \in DOMAIN t : \E k \in at \cap DOMAIN s : t[i] = s[k]
      /\ \A k \in at \cap DOMAIN s : \E i \in DOMAIN t : t[i] = s[k]
  BY <1>1, ChosenFrom
<1>3. KeptLines(H, sc) = t
  BY DEF KeptLines, s, at
<1> HIDE DEF t
<1>4. \A k \in at : k \in DOMAIN s /\ ShouldKeepLine(s[k], H, sc)
  BY DEF at
<1>5. \A k \in DOMAIN s : ShouldKeepLine(s[k], H, sc) => k \in at
  BY DEF at
<1> QED
  BY <1>2, <1>3, <1>4, <1>5 DEF s

LEMMA SaysKept ==
    ASSUME Typed, NEW H, NEW sc, NEW h, h # H, NEW t, Says(rc.lines, h, t),
           sc # NONE /\ t.scope # NONE => t.scope # sc
    PROVE  Says(KeptLines(H, sc), h, t)
<1> DEFINE s == rc.lines
           at == {k \in DOMAIN s : ShouldKeepLine(s[k], H, sc)}
           u == KeptLines(H, sc)
<1>1. IsSeq(s)
  BY DEF Typed, IsRc
<1>2. /\ IsSeq(u) /\ \A i \in DOMAIN u : \E k \in DOMAIN s : u[i] = s[k] /\ ShouldKeepLine(s[k], H, sc)
      /\ \A k \in DOMAIN s : ShouldKeepLine(s[k], H, sc) => \E i \in DOMAIN u : u[i] = s[k]
  <2>1. IsSeq(u)
    BY KeptIs
  <2>2. \A i \in DOMAIN u : \E k \in DOMAIN s : u[i] = s[k] /\ ShouldKeepLine(s[k], H, sc)
    BY KeptIs
  <2>3. ASSUME NEW k \in DOMAIN s, ShouldKeepLine(s[k], H, sc) PROVE \E i \in DOMAIN u : u[i] = s[k]
    BY <2>3, KeptIs
  <2> HIDE DEF u
  <2> QED
    BY <2>1, <2>2, <2>3
<1>3. HostLines(s, h) \subseteq at
  BY DEF HostLines, OfKind, ShouldKeepLine
<1>4. u = Chosen(s, at)
  BY DEF KeptLines
<1> HIDE DEF s, at, u
<1>5. \A x : LastFor(s, h, x) => LastFor(u, h, x)
  BY <1>1, <1>3, <1>4, LastForKept
<1>6. ASSUME \A k \in HostLines(s, h) : s[k].basic = TRUE, NEW i \in HostLines(u, h) PROVE u[i].basic = TRUE
  <2>1. PICK k \in DOMAIN s : u[i] = s[k]
    BY <1>2, <1>6 DEF HostLines, OfKind
  <2>2. k \in HostLines(s, h)
    BY <1>6, <2>1 DEF HostLines, OfKind
  <2> QED
    BY <1>6, <2>1, <2>2
<1>7. ASSUME t.scope # NONE, LeadsTo(s, t.scope, h) PROVE LeadsTo(u, t.scope, h)
  <2>1. PICK k \in OfKind(s, "scope") : s[k].scope = t.scope
    BY <1>7 DEF LeadsTo, Binds
  <2>2. ShouldKeepLine(s[k], H, sc)
    BY <1>7, <2>1 DEF ShouldKeepLine, OfKind
  <2>3. Binds(u, t.scope)
    BY <1>2, <2>1, <2>2 DEF Binds, OfKind
  <2>4. ASSUME NEW i \in OfKind(u, "scope"), u[i].scope = t.scope PROVE u[i].host = h
    BY <1>2, <1>7, <2>4 DEF LeadsTo, OfKind
  <2> QED
    BY <2>3, <2>4 DEF LeadsTo
<1> QED
  BY <1>5, <1>6, <1>7 DEF Says, s, u

LEMMA KeptBasic ==
    ASSUME Typed, NEW H, NEW sc, NEW i \in HostLines(KeptLines(H, sc), H)
    PROVE  KeptLines(H, sc)[i].basic = TRUE
<1> DEFINE s == rc.lines
           u == KeptLines(H, sc)
<1>1. u[i].kind = "token" /\ u[i].host = H /\ i \in DOMAIN u
  BY DEF HostLines, OfKind
<1>2. PICK k \in DOMAIN s : u[i] = s[k] /\ ShouldKeepLine(s[k], H, sc)
  BY <1>1, KeptIs
<1>3. IsLine(s[k])
  BY DEF Typed, IsRc
<1> HIDE DEF s, u
<1> QED
  BY <1>1, <1>2, <1>3 DEF IsLine, ShouldKeepLine, u

LEMMA KeptUnbound ==
    ASSUME Typed, NEW H, NEW sc, sc # NONE
    PROVE  ~Binds(KeptLines(H, sc), sc)
<1> DEFINE s == rc.lines
           u == KeptLines(H, sc)
<1>1. \A i \in DOMAIN u : \E k \in DOMAIN s : u[i] = s[k] /\ ShouldKeepLine(s[k], H, sc)
  BY KeptIs
<1> HIDE DEF s, u
<1>2. ~Binds(u, sc)
  BY <1>1 DEF Binds, OfKind, ShouldKeepLine
<1> QED
  BY <1>2 DEF u

LEMMA UnboundIs ==
    ASSUME NEW sc, NEW h \in Host, SessionAt(h), NEW t, t = Unbound(sc)[h], t # NONE
    PROVE  /\ IsSession(t) /\ t.token = tokens[h].token
           /\ t.scope # NONE => t.scope = tokens[h].scope /\ t.scope # sc
           /\ tokens[h] # NONE /\ Says(rc.lines, h, t)
<1>1. tokens[h] # NONE
  BY DEF Unbound
<1> DEFINE x == tokens[h]
<1>2. IsSession(x) /\ Says(rc.lines, h, x)
  BY <1>1 DEF SessionAt
<1>3. (t = x /\ x.scope # sc) \/ (x.scope = sc /\ t = [x EXCEPT !.scope = NONE])
  BY <1>1 DEF Unbound
<1> HIDE DEF x
<1>4. IsSession(t) /\ t.token = x.token /\ (t.scope # NONE => t.scope = x.scope /\ t.scope # sc)
  BY <1>2, <1>3 DEF IsSession
<1>5. Says(rc.lines, h, t)
  BY <1>2, <1>4 DEF Says
<1> QED
  BY <1>1, <1>4, <1>5 DEF x


LEMMA SaveSession ==
    ASSUME Typed, Session, NEW p \in Process, SaveCredentials(p), NEW h \in Host
    PROVE  SessionAt(h)'
<1> DEFINE H == Target(p)
           sc == proc[p].cmd.scope
           token == [kind |-> "token", host |-> H, path |-> FALSE, basic |-> FALSE, value |-> commands]
           line == [kind |-> "scope", scope |-> sc, host |-> H]
           bind == IF sc = NONE THEN << >> ELSE <<line>>
           kept == KeptLines(H, sc)
           s == kept \o <<token>>
           mine == [token |-> commands, scope |-> sc]
<1>1. rc'.lines = s \o bind
  BY DEF SaveCredentials
<1>2. tokens' = [Unbound(sc) EXCEPT ![H] = mine]
  BY DEF SaveCredentials
<1>3. H \in Host
  BY TargetIsHost DEF Typed, SaveCredentials, At
<1>4. /\ token.kind = "token" /\ token.host = H /\ token.basic = FALSE /\ token.value = commands
      /\ line.kind = "scope" /\ line.scope = sc /\ line.host = H
      /\ mine.token = commands /\ mine.scope = sc /\ IsSession(mine) /\ commands # NONE
  BY RegistryAssumption DEF Typed, IsSession
<1> HIDE DEF H, sc, token, line, mine
<1>5. IsSeq(kept)
  BY KeptIs
<1> HIDE DEF kept
<1>6. IsSeq(s)
  BY <1>5, AddLine
<1>7. sc = NONE => rc'.lines = s
  <2>1. \A S : \A x \in Seq(S) : x \o << >> = x
    OBVIOUS
  <2>2. s \o << >> = s
    BY <1>6, <2>1 DEF IsSeq
  <2> QED
    BY <1>1, <2>2
<1>8. sc # NONE => rc'.lines = s \o <<line>>
  BY <1>1
<1> HIDE DEF s
<1>9. \A t, i : /\ Says(s, i, t) /\ (sc # NONE => t.scope # sc)
                => Says(rc'.lines, i, t)
  <2>1. SUFFICES ASSUME NEW t, NEW i, Says(s, i, t), sc # NONE => t.scope # sc
                 PROVE  Says(rc'.lines, i, t)
    OBVIOUS
  <2>2. CASE sc = NONE
    BY <1>7, <2>1, <2>2
  <2>3. CASE sc # NONE
    BY <1>4, <1>6, <1>8, <2>1, <2>3, SaysAdd
  <2> QED
    BY <2>2, <2>3
<1>10. CASE h # H
  <2>1. SUFFICES ASSUME tokens'[h] # NONE PROVE IsSession(tokens'[h]) /\ Says(rc'.lines, h, tokens'[h])
    BY DEF SessionAt, IsSession, Says, LastFor, LeadsTo, HostLines, OfKind, Binds
  <2> DEFINE t == tokens'[h]
  <2>2. t = Unbound(sc)[h]
    BY <1>2, <1>10 DEF Unbound
  <2> HIDE DEF t
  <2>3. IsSession(t) /\ (t.scope # NONE => t.scope # sc) /\ Says(rc.lines, h, t)
    BY <2>1, <2>2, UnboundIs DEF Session, t
  <2>4. Says(kept, h, t)
    BY <1>10, <2>3, SaysKept DEF kept
  <2>5. Says(s, h, t)
    BY <1>4, <1>5, <1>10, <2>4, SaysAdd DEF s
  <2>6. Says(rc'.lines, h, t)
    BY <1>9, <2>3, <2>5
  <2> QED
    BY <2>3, <2>6 DEF t
<1>11. CASE h = H
  <2>1. tokens'[h] = mine
    BY <1>2, <1>3, <1>11 DEF Unbound
  <2>2. LastFor(s, H, token)
    BY <1>4, <1>5, LastForEnd DEF s
  <2>3. LastFor(rc'.lines, H, token)
    <3>1. CASE sc = NONE
      BY <1>7, <2>2, <3>1
    <3>2. CASE sc # NONE
      <4> DEFINE one == <<line>>
      <4>1. IsSeq(one)
        BY <1>6, AddLine
      <4>2. DOMAIN one = {1} /\ one[1] = line
        OBVIOUS
      <4>3. rc'.lines = s \o one
        BY <1>8, <3>2
      <4> HIDE DEF one
      <4>4. HostLines(one, H) = {}
        BY <1>4, <4>2 DEF HostLines, OfKind
      <4> QED
        BY <1>6, <2>2, <4>1, <4>3, <4>4, LastForConcat
    <3> QED
      BY <3>1, <3>2
  <2>4. sc # NONE => LeadsTo(rc'.lines, sc, H)
    <3>1. SUFFICES ASSUME sc # NONE PROVE LeadsTo(rc'.lines, sc, H)
      OBVIOUS
    <3>2. ~Binds(kept, sc)
      BY <3>1, KeptUnbound DEF kept
    <3>3. ~Binds(s, sc)
      <4>1. \A k \in DOMAIN s : (k \in DOMAIN kept /\ s[k] = kept[k]) \/ s[k] = token
        BY <1>5, AddLine DEF s
      <4> QED
        BY <1>4, <3>2, <4>1 DEF Binds, OfKind
    <3> DEFINE u == rc'.lines
               n == Len(s) + 1
    <3>4. /\ n \in DOMAIN u /\ u[n] = line
          /\ \A k \in DOMAIN u : (k \in DOMAIN s /\ u[k] = s[k]) \/ u[k] = line
      <4>1. u = s \o <<line>>
        BY <1>8, <3>1
      <4> HIDE DEF u
      <4>2. /\ n \in DOMAIN u /\ u[n] = line
            /\ \A k \in DOMAIN s : k \in DOMAIN u /\ u[k] = s[k]
            /\ \A k \in DOMAIN u : k \in DOMAIN s \/ k = n
        BY <1>6, <4>1, AddLine
      <4> QED
        BY <4>2
    <3> HIDE DEF u, n
    <3>5. LeadsTo(u, sc, H)
      BY <1>4, <3>3, <3>4 DEF LeadsTo, Binds, OfKind
    <3> QED
      BY <3>5 DEF u
  <2>5. Says(rc'.lines, h, mine)
    BY <1>4, <1>11, <2>3, <2>4 DEF Says
  <2> QED
    BY <1>4, <2>1, <2>5 DEF SessionAt, IsSession, Says, LastFor, LeadsTo, HostLines, OfKind, Binds
<1> QED
  BY <1>10, <1>11

LEMMA LogoutSession ==
    ASSUME Typed, Session, NEW p \in Process, Logout(p), NEW h \in Host
    PROVE  SessionAt(h)'
<1>1. CASE UNCHANGED <<rc, tokens>>
  BY <1>1 DEF Session, SessionAt, IsSession, Says, LastFor, LeadsTo, HostLines, OfKind, Binds
<1>2. CASE ~UNCHANGED <<rc, tokens>>
  <2> DEFINE H == Target(p)
             sc == proc[p].cmd.scope
             kept == KeptLines(H, sc)
             none == [token |-> NONE, scope |-> NONE]
  <2>1. rc'.lines = kept /\ tokens' = [Unbound(sc) EXCEPT ![H] = none]
    BY <1>2 DEF Logout
  <2>2. H \in Host
    BY TargetIsHost DEF Typed, Logout, At
  <2>3. none.token = NONE /\ none.scope = NONE /\ IsSession(none)
    BY DEF IsSession
  <2> HIDE DEF H, sc, none
  <2>4. CASE h # H
    <3>1. SUFFICES ASSUME tokens'[h] # NONE PROVE IsSession(tokens'[h]) /\ Says(rc'.lines, h, tokens'[h])
      BY DEF SessionAt, IsSession, Says, LastFor, LeadsTo, HostLines, OfKind, Binds
    <3> DEFINE t == tokens'[h]
    <3>2. t = Unbound(sc)[h]
      BY <2>1, <2>4 DEF Unbound
    <3> HIDE DEF t
    <3>3. IsSession(t) /\ (t.scope # NONE => t.scope # sc) /\ Says(rc.lines, h, t)
      BY <3>1, <3>2, UnboundIs DEF Session, t
    <3>4. Says(kept, h, t)
      BY <2>4, <3>3, SaysKept
    <3> QED
      BY <2>1, <3>3, <3>4 DEF t
  <2>5. CASE h = H
    <3>1. tokens'[h] = none
      BY <2>1, <2>2, <2>5 DEF Unbound
    <3>2. \A k \in HostLines(kept, H) : kept[k].basic = TRUE
      BY KeptBasic
    <3> HIDE DEF kept
    <3>3. Says(rc'.lines, h, none)
      BY <2>1, <2>3, <2>5, <3>2 DEF Says
    <3> QED
      BY <2>3, <3>1, <3>3 DEF SessionAt, IsSession, Says, LastFor, LeadsTo, HostLines, OfKind, Binds
  <2> QED
    BY <2>4, <2>5
<1> QED
  BY <1>1, <1>2

LEMMA SessionSame ==
    ASSUME Session, UNCHANGED <<rc, tokens>>
    PROVE  \A h \in Host : SessionAt(h)'
  BY DEF Session, SessionAt, IsSession, Says, LastFor, LeadsTo, HostLines, OfKind, Binds

LEMMA BoundSame ==
    ASSUME Session, NEW q \in Process, proc'[q].cmd = proc[q].cmd, proc'[q].lines = proc[q].lines, proc'[q].bound = proc[q].bound
    PROVE  BoundAt(proc[q])'
<1>1. BoundAt(proc[q])
  BY DEF Session
<1>2. \A n : RegistryFor(proc[q].lines, n)' = RegistryFor(proc[q].lines, n)
  BY DEF RegistryFor, OfKind, LastLine, LastOf, DefaultRegistry, RcRegistry
<1> QED
  BY <1>1, <1>2 DEF BoundAt


LEMMA StepUploads ==
    ASSUME NEW p \in Process, Step(p)
    PROVE  \/ uploads' = uploads
           \/ /\ Publish(p) /\ At(p, "Publish") /\ uploads' = uploads \cup {Upload(p)}
              /\ ~Refused(Upload(p).project, Upload(p).files, Upload(p).allow)
<1>1. CASE Publish(p)
  BY <1>1 DEF Publish, Arrives
<1>2. CASE ~Publish(p)
  BY <1>2 DEF Step, Load, Request, Answer, Retry, NotModified, ReadShard, WriteShard, WebLogin, PollForToken,
              CouchLogin, ExistingUser, SaveCredentials, Logout, PackProject, Release, CleanTarball, Bump, world
<1> QED
  BY <1>1, <1>2

LEMMA BeginBound ==
    ASSUME Typed, Session, NEW p \in Process, Begin(p)
    PROVE  BoundAt(proc[p])'
<1>1. proc'[p].lines = Lines /\ proc'[p].bound = tokens
  BY BeginIs DEF Typed
<1>2. ASSUME NEW h \in Host, NEW n \in PkgName, ScopeOf[n] # NONE, tokens[h] # NONE,
             tokens[h].scope = ScopeOf[n], ~Binds(ProjectRc, ScopeOf[n])
      PROVE  RegistryFor(Lines, n) = h
  <2>1. LeadsTo(rc.lines, ScopeOf[n], h)
    BY <1>2 DEF Session, SessionAt, Says
  <2> QED
    BY <1>2, <2>1, LeadsThere
<1>3. \A n : RegistryFor(proc[p].lines, n)' = RegistryFor(Lines, n)
  BY <1>1 DEF RegistryFor, OfKind, LastLine, LastOf, DefaultRegistry, RcRegistry
<1> QED
  BY <1>1, <1>2, <1>3 DEF BoundAt, Binds, OfKind

LEMMA SessionInit == Init => Session
<1> SUFFICES ASSUME Init PROVE Session
  OBVIOUS
<1>1. \A h \in Host : SessionAt(h)
  BY DEF Init, SessionAt
<1>2. \A p \in Process : BoundAt(proc[p])
  BY DEF Init, Idle, BoundAt
<1>3. ScopeBound
  BY DEF Init, ScopeBound
<1> QED
  BY <1>1, <1>2, <1>3 DEF Session

LEMMA SessionNext == Typed /\ Session /\ [Next]_vars => Session'
<1> SUFFICES ASSUME Typed, Session, [Next]_vars PROVE Session'
  OBVIOUS
<1>1. ASSUME uploads' = uploads PROVE ScopeBound'
  BY <1>1 DEF Session, ScopeBound
<1>2. CASE UNCHANGED vars
  <2>1. \A q \in Process : BoundAt(proc[q])'
    BY <1>2, BoundSame DEF vars
  <2> QED
    BY <1>1, <1>2, <2>1, SessionSame DEF vars, Session
<1>3. ASSUME NEW p \in Process, Step(p) PROVE Session'
  <2>1. \A q \in Process : BoundAt(proc[q])'
    <3>1. Keeps(p)
      BY <1>3, StepKeeps DEF Typed
    <3> QED
      BY <3>1, BoundSame DEF Keeps
  <2>2. \A h \in Host : SessionAt(h)'
    <3>1. CASE SaveCredentials(p)
      BY <3>1, SaveSession
    <3>2. CASE Logout(p)
      BY <3>2, LogoutSession
    <3>3. CASE ~SaveCredentials(p) /\ ~Logout(p)
      <4>1. UNCHANGED <<rc, tokens>>
        BY <1>3, <3>3 DEF Step, Load, Request, Answer, Retry, NotModified, ReadShard, WriteShard, WebLogin, PollForToken,
                    CouchLogin, ExistingUser, PackProject, CleanTarball, Publish, Release, Bump, world
      <4> QED
        BY <4>1, SessionSame
    <3> QED
      BY <3>1, <3>2, <3>3
  <2>3. ScopeBound'
    <3>1. CASE uploads' = uploads
      BY <1>1, <3>1
    <3>2. CASE uploads' # uploads
      <4> DEFINE u == Upload(p)
                 x == disk[Todo(p)]
      <4>1. At(p, "Publish") /\ uploads' = uploads \cup {u}
        BY <1>3, <3>2, StepUploads
      <4>2. u.project = x /\ x.name \in PkgName /\ u.host = PublishRegistry(proc[p].lines, x)
        BY <4>1, UploadIs
      <4>3. u.bound = proc[p].bound
        BY DEF Upload
      <4>4. proc[p].cmd # NONE /\ BoundAt(proc[p])
        BY <4>1 DEF Typed, JobTyped, Phase, At, Session
      <4> HIDE DEF u, x
      <4>5. ASSUME NEW h \in Host, u.project.to = NONE, ScopeOf[u.project.name] # NONE, u.bound[h] # NONE,
                   u.bound[h].scope = ScopeOf[u.project.name], ~Binds(ProjectRc, u.bound[h].scope)
            PROVE  u.host = h
        <5>1. u.host = RegistryFor(proc[p].lines, x.name)
          BY <4>2, <4>5 DEF PublishRegistry
        <5> QED
          BY <4>2, <4>3, <4>4, <4>5, <5>1 DEF BoundAt
      <4> QED
        BY <4>1, <4>5 DEF Session, ScopeBound
    <3> QED
      BY <3>1, <3>2
  <2> QED
    BY <2>1, <2>2, <2>3 DEF Session
<1>4. ASSUME NEW p \in Process, Begin(p) PROVE Session'
  <2>1. UNCHANGED <<rc, tokens>> /\ uploads' = uploads
    BY <1>4 DEF Begin
  <2>2. \A q \in Process : q # p => proc'[q] = proc[q]
    BY <1>4, BeginIs DEF Typed
  <2>3. \A q \in Process : BoundAt(proc[q])'
    BY <1>4, <2>2, BeginBound, BoundSame
  <2> QED
    BY <1>1, <2>1, <2>3, SessionSame DEF Session
<1>5. ASSUME NEW p \in Process, Kill(p) PROVE Session'
  <2>1. UNCHANGED <<rc, tokens>> /\ uploads' = uploads /\ EndWith(p, NONE)
    BY <1>5 DEF Kill
  <2>2. Keeps(p)
    BY <2>1, EndWithIs DEF Typed
  <2>3. \A q \in Process : BoundAt(proc[q])'
    BY <2>2, BoundSame DEF Keeps
  <2> QED
    BY <1>1, <2>1, <2>3, SessionSame DEF Session
<1>6. CASE Day
  <2>1. UNCHANGED <<rc, tokens>> /\ uploads' = uploads /\ proc' = proc
    BY <1>6 DEF Day
  <2>2. \A q \in Process : BoundAt(proc[q])'
    BY <2>1, BoundSame
  <2> QED
    BY <1>1, <2>1, <2>2, SessionSame DEF Session
<1> QED
  BY <1>2, <1>3, <1>4, <1>5, <1>6 DEF Next

LEMMA SessionImplies == Typed /\ Session => CredentialsHold
<1> SUFFICES ASSUME Typed, Session PROVE CredentialsHold
  OBVIOUS
<1>1. SessionHolds
  BY SessionShows DEF Session, SessionHolds
<1> QED
  BY <1>1 DEF CredentialsHold, Session


-----------------------------------------------------------------------------
(* Walks over the dependencies of a workspace (Filters) *)

\* One step further than the projects that are known.
Beyond(edges, seeds, known) == {e[2] : e \in {e \in edges : e[1] \in seeds \cup known}}

Rounds(f, edges, seeds, n) ==
    f = [i \in 0..n |-> IF i = 0 THEN {} ELSE f[i - 1] \cup Beyond(edges, seeds, f[i - 1])]

LEMMA RoundsExists == \A edges, seeds : \A n \in Nat : \E f : Rounds(f, edges, seeds, n)
<1> SUFFICES ASSUME NEW edges, NEW seeds PROVE \A n \in Nat : \E f : Rounds(f, edges, seeds, n)
  OBVIOUS
<1> DEFINE bad == {n \in Nat : ~ \E f : Rounds(f, edges, seeds, n)}
<1>1. SUFFICES ASSUME bad # {} PROVE FALSE
  OBVIOUS
<1>2. PICK b \in bad : \A j \in bad : b <= j
  <2>1. bad \subseteq Nat
    OBVIOUS
  <2> QED
    BY <1>1, <2>1, Least
<1>3. b # 0
  <2> DEFINE g == [i \in 0..0 |-> {}]
  <2>1. Rounds(g, edges, seeds, 0)
    BY DEF Rounds
  <2> QED
    BY <1>2, <2>1
<1>4. b \in Nat /\ b - 1 \in Nat /\ b - 1 \notin bad
  BY <1>2, <1>3
<1>5. PICK f : Rounds(f, edges, seeds, b - 1)
  BY <1>4
<1> DEFINE g == [i \in 0..b |-> IF i = b THEN f[b - 1] \cup Beyond(edges, seeds, f[b - 1]) ELSE f[i]]
<1>6. Rounds(g, edges, seeds, b)
  <2> DEFINE h == [i \in 0..b |-> IF i = 0 THEN {} ELSE g[i - 1] \cup Beyond(edges, seeds, g[i - 1])]
  <2>1. ASSUME NEW i \in 0..b PROVE g[i] = h[i]
    <3>1. CASE i = b
      <4>1. b - 1 \in 0..b /\ b - 1 # b /\ i # 0
        BY <1>3, <1>4, <3>1
      <4>2. g[b - 1] = f[b - 1]
        BY <4>1
      <4> QED
        BY <3>1, <4>1, <4>2
    <3>2. CASE i # b
      <4>1. i \in 0..(b - 1) /\ g[i] = f[i]
        BY <1>4, <3>2
      <4>2. f[i] = IF i = 0 THEN {} ELSE f[i - 1] \cup Beyond(edges, seeds, f[i - 1])
        BY <1>5, <4>1 DEF Rounds
      <4>3. i # 0 => i - 1 \in 0..b /\ i - 1 # b
        BY <1>4, <3>2
      <4>4. i # 0 => g[i - 1] = f[i - 1]
        BY <4>3
      <4> QED
        BY <4>1, <4>2, <4>4
    <3> QED
      BY <3>1, <3>2
  <2>2. g = h
    BY <2>1
  <2> QED
    BY <2>2 DEF Rounds
<1> QED
  BY <1>2, <1>6

LEMMA WalkRounds ==
    ASSUME NEW edges, NEW seeds, Cardinality({e[2] : e \in edges}) \in Nat
    PROVE  LET n == Cardinality({e[2] : e \in edges}) IN
           \E f : Rounds(f, edges, seeds, n) /\ Walk(edges, seeds) = f[n]
<1> DEFINE n == Cardinality({e[2] : e \in edges})
           Body(f) == [i \in 0..n |-> IF i = 0 THEN {} ELSE
                          f[i - 1] \cup {e[2] : e \in {e \in edges : e[1] \in seeds \cup f[i - 1]}}]
           result == CHOOSE f : f = Body(f)
<1>1. Walk(edges, seeds) = result[n]
  BY DEF Walk
<1>2. PICK f : Rounds(f, edges, seeds, n)
  BY RoundsExists
<1> HIDE DEF n
<1>3. f = Body(f)
  BY <1>2 DEF Rounds, Beyond
<1>4. result = Body(result)
  BY <1>3
<1> HIDE DEF result
<1>5. Rounds(result, edges, seeds, n)
  BY <1>4 DEF Rounds, Beyond
<1> QED
  BY <1>1, <1>5 DEF n

\* A set of projects that no edge leads out of, from the seeds either.
Closed(edges, seeds, S) == \A e \in edges : e[1] \in seeds \cup S => e[2] \in S

LEMMA WalkReaches ==
    ASSUME NEW D, IsFiniteSet(D), NEW edges, edges \subseteq D \X D, NEW seeds
    PROVE  /\ Walk(edges, seeds) \subseteq D /\ Closed(edges, seeds, Walk(edges, seeds))
           /\ \A S : Closed(edges, seeds, S) => Walk(edges, seeds) \subseteq S
<1> DEFINE T == {e[2] : e \in edges}
           n == Cardinality(T)
<1>1. T \subseteq D
  OBVIOUS
<1>2. IsFiniteSet(T) /\ n \in Nat
  BY <1>1, FS_Subset, FS_CardinalityType
<1>3. PICK f : Rounds(f, edges, seeds, n) /\ Walk(edges, seeds) = f[n]
  BY <1>2, WalkRounds
<1>4. \A K : Beyond(edges, seeds, K) \subseteq T
  BY DEF Beyond
<1>5. \A K : Closed(edges, seeds, K) <=> Beyond(edges, seeds, K) \subseteq K
  BY DEF Beyond, Closed
<1>6. \A S, K : Closed(edges, seeds, S) /\ K \subseteq S => Beyond(edges, seeds, K) \subseteq S
  BY DEF Beyond, Closed
<1> HIDE DEF T, n
<1>7. f[0] = {}
  BY <1>2, <1>3 DEF Rounds
<1>8. \A i \in 1..n : f[i] = f[i - 1] \cup Beyond(edges, seeds, f[i - 1])
  <2>1. ASSUME NEW i \in 1..n PROVE f[i] = f[i - 1] \cup Beyond(edges, seeds, f[i - 1])
    <3>1. i \in 0..n /\ i # 0
      BY <1>2, <2>1
    <3> QED
      BY <1>3, <3>1 DEF Rounds
  <2> QED
    BY <2>1
<1> DEFINE Good(i) == /\ f[i] \subseteq T
                      /\ Closed(edges, seeds, f[i]) \/ Cardinality(f[i]) >= i
                      /\ \A S : Closed(edges, seeds, S) => f[i] \subseteq S
           bad == {i \in 0..n : ~Good(i)}
<1>9. bad = {}
  <2>1. SUFFICES ASSUME bad # {} PROVE FALSE
    OBVIOUS
  <2>2. PICK b \in bad : \A j \in bad : b <= j
    <3>1. bad \subseteq Nat
      BY <1>2
    <3> QED
      BY <2>1, <3>1, Least
  <2>3. Good(0)
    BY <1>7, FS_EmptySet
  <2>4. b \in 1..n /\ b - 1 \in 0..n /\ b - 1 \notin bad /\ b - 1 \in Nat
    <3>1. b \in 0..n /\ b # 0
      BY <2>2, <2>3
    <3>2. b \in 1..n /\ b - 1 \in 0..n /\ b - 1 \in Nat /\ ~(b <= b - 1)
      BY <1>2, <3>1
    <3> QED
      BY <2>2, <3>2
  <2>5. Good(b - 1)
    BY <2>4
  <2> DEFINE K == f[b - 1]
             M == f[b]
  <2>6. M = K \cup Beyond(edges, seeds, K)
    BY <1>8, <2>4
  <2>7. K \subseteq T /\ (Closed(edges, seeds, K) \/ Cardinality(K) >= b - 1) /\ \A S : Closed(edges, seeds, S) => K \subseteq S
    BY <2>5
  <2> HIDE DEF K, M, bad
  <2>8. M \subseteq T
    BY <1>4, <2>6, <2>7
  <2>9. \A S : Closed(edges, seeds, S) => M \subseteq S
    BY <1>6, <2>6, <2>7
  <2>10. Closed(edges, seeds, M) \/ Cardinality(M) >= b
    <3>1. CASE Closed(edges, seeds, K)
      <4>1. M = K
        BY <1>5, <2>6, <3>1
      <4> QED
        BY <3>1, <4>1
    <3>2. CASE ~Closed(edges, seeds, K)
      <4>1. PICK x : x \in Beyond(edges, seeds, K) /\ x \notin K
        BY <1>5, <3>2
      <4>2. IsFiniteSet(K) /\ IsFiniteSet(M) /\ Cardinality(K) \in Nat /\ Cardinality(M) \in Nat
        BY <1>2, <2>7, <2>8, FS_Subset, FS_CardinalityType
      <4>3. Cardinality(K \cup {x}) = Cardinality(K) + 1
        BY <4>1, <4>2, FS_AddElement
      <4>4. K \cup {x} \subseteq M
        BY <2>6, <4>1
      <4>5. Cardinality(K \cup {x}) <= Cardinality(M)
        BY <4>2, <4>4, FS_Subset
      <4>6. Cardinality(K) >= b - 1
        BY <2>7, <3>2
      <4> QED
        BY <2>4, <4>2, <4>3, <4>5, <4>6
    <3> QED
      BY <3>1, <3>2
  <2>11. Good(b)
    BY <2>8, <2>9, <2>10 DEF M
  <2> QED
    BY <2>2, <2>11 DEF bad
<1>10. n \in 0..n
  BY <1>2
<1>11. Good(n)
  BY <1>9, <1>10
<1>12. Closed(edges, seeds, f[n])
  <2>1. CASE Closed(edges, seeds, f[n])
    BY <2>1
  <2>2. CASE Cardinality(f[n]) >= n
    <3>1. f[n] \subseteq T /\ Cardinality(f[n]) <= n /\ Cardinality(f[n]) \in Nat
      BY <1>2, <1>11, FS_Subset, FS_CardinalityType DEF n
    <3>2. Cardinality(f[n]) = n
      BY <1>2, <2>2, <3>1
    <3>3. f[n] = T
      BY <1>2, <3>1, <3>2, FS_Subset DEF n
    <3> QED
      BY <1>4, <1>5, <3>3
  <2> QED
    BY <1>11, <2>1, <2>2
<1> QED
  BY <1>1, <1>3, <1>11, <1>12


\* Reached, Wants and FilterExact of a workspace.
ReachedIn(D, edges, seeds) ==
    {k \in D : \A S \in SUBSET D : (\A e \in edges : e[1] \in seeds \cup S => e[2] \in S) => k \in S}

SeedsIn(d, s) == {j \in DOMAIN d : SelectorMatches(s, d[j])}

DownIn(d, s) ==
    {e \in (DOMAIN d) \X (DOMAIN d) :
        d[e[2]].name \in DOMAIN d[e[1]].deps \/ (~s.prod /\ d[e[2]].name \in d[e[1]].dev)}

UpIn(d, s) == {<<e[2], e[1]>> : e \in DownIn(d, s)}

WantsIn(d, s, k) ==
    IF k \in SeedsIn(d, s) THEN ~s.bare
    ELSE (s.below /\ k \in ReachedIn(DOMAIN d, DownIn(d, s), SeedsIn(d, s)))
         \/ (s.above /\ k \in ReachedIn(DOMAIN d, UpIn(d, s), SeedsIn(d, s)))

ExactIn(d, F, all) ==
    /\ \A i, j \in DOMAIN all : i < j => all[i] < all[j]
    /\ \A k \in DOMAIN d :
           (\E j \in DOMAIN all : all[j] = k)
               <=> /\ (\A j \in DOMAIN F : F[j].exclude) \/ (\E j \in DOMAIN F : ~F[j].exclude /\ WantsIn(d, F[j], k))
                   /\ ~ \E j \in DOMAIN F : F[j].exclude /\ WantsIn(d, F[j], k)
                   /\ \A j \in DOMAIN F : ~ParseFails(F[j])

IsWorkspace(d) == \E n \in Nat : DOMAIN d = 1..n

LEMMA WalkIs ==
    ASSUME NEW D, IsFiniteSet(D), NEW edges, edges \subseteq D \X D, NEW seeds
    PROVE  Walk(edges, seeds) = ReachedIn(D, edges, seeds)
<1> DEFINE R == Walk(edges, seeds)
<1>1. R \subseteq D /\ Closed(edges, seeds, R) /\ \A S : Closed(edges, seeds, S) => R \subseteq S
  BY WalkReaches
<1> HIDE DEF R
<1>2. ASSUME NEW k \in R PROVE k \in ReachedIn(D, edges, seeds)
  BY <1>1, <1>2 DEF ReachedIn, Closed
<1>3. ASSUME NEW k \in ReachedIn(D, edges, seeds) PROVE k \in R
  <2>1. R \in SUBSET D /\ \A e \in edges : e[1] \in seeds \cup R => e[2] \in R
    BY <1>1 DEF Closed
  <2> QED
    BY <1>3, <2>1 DEF ReachedIn
<1> QED
  BY <1>2, <1>3 DEF R

LEMMA ExpandIs ==
    ASSUME NEW d, IsWorkspace(d), NEW s, IsSelector(s), NEW k \in DOMAIN d
    PROVE  k \in ExpandSelector(d, s) <=> WantsIn(d, s, k)
<1> DEFINE D == DOMAIN d
           seeds == SeedsIn(d, s)
           down == DownIn(d, s)
           up == UpIn(d, s)
<1>1. IsFiniteSet(D)
  <2>1. PICK n \in Nat : D = 1..n
    BY DEF IsWorkspace
  <2> QED
    BY <2>1, FS_Interval
<1>2. down \subseteq D \X D
  BY DEF DownIn
<1>3. up \subseteq D \X D
  <2>1. ASSUME NEW e \in down PROVE <<e[2], e[1]>> \in D \X D
    BY <1>2, <2>1
  <2> QED
    BY <2>1 DEF UpIn
<1>4. Walk(down, seeds) = ReachedIn(D, down, seeds)
  BY <1>1, <1>2, WalkIs
<1>5. Walk(up, seeds) = ReachedIn(D, up, seeds)
  BY <1>1, <1>3, WalkIs
<1>6. s.prod \in BOOLEAN /\ s.below \in BOOLEAN /\ s.above \in BOOLEAN /\ s.bare \in BOOLEAN
  BY DEF IsSelector
<1>7. DependencyGraph(d, s.prod) = down
  BY <1>6 DEF DependencyGraph, DownIn
<1>8. {j \in DOMAIN d : SelectorMatches(s, d[j])} = seeds
  BY DEF SeedsIn
<1>9. {<<e[2], e[1]>> : e \in down} = up
  BY DEF UpIn
<1>10. ExpandSelector(d, s) = (seeds \cup (IF s.below THEN Walk(down, seeds) ELSE {})
                                     \cup (IF s.above THEN Walk(up, seeds) ELSE {}))
                               \ (IF s.bare THEN seeds ELSE {})
  BY <1>7, <1>8, <1>9 DEF ExpandSelector
<1> HIDE DEF down, up, seeds, D
<1>11. k \in ExpandSelector(d, s) <=> (IF k \in seeds THEN ~s.bare
                                       ELSE (s.below /\ k \in Walk(down, seeds)) \/ (s.above /\ k \in Walk(up, seeds)))
  BY <1>6, <1>10
<1> QED
  BY <1>4, <1>5, <1>11 DEF WantsIn, down, up, seeds, D

LEMMA SelectExact ==
    ASSUME NEW d, IsWorkspace(d), NEW F, IsSeq(F), \A j \in DOMAIN F : IsSelector(F[j])
    PROVE  ExactIn(d, F, SelectProjects(d, F))
<1> DEFINE D == DOMAIN d
           fails == \E j \in DOMAIN F : ParseFails(F[j])
           In == \A j \in DOMAIN F : F[j].exclude
           in(k) == \E j \in DOMAIN F : ~F[j].exclude /\ WantsIn(d, F[j], k)
           out(k) == \E j \in DOMAIN F : F[j].exclude /\ WantsIn(d, F[j], k)
           selected == IF fails THEN {} ELSE IF F = << >> THEN D ELSE ApplySelectors(d, F)
           s == [k \in D |-> k]
           t == Chosen(s, selected)
<1>1. PICK n \in Nat : D = 1..n
  BY DEF IsWorkspace
<1>2. \A j \in DOMAIN F : F[j].exclude \in BOOLEAN
  BY DEF IsSelector
<1>3. ASSUME NEW k \in D PROVE k \in ApplySelectors(d, F) <=> (In \/ in(k)) /\ ~out(k)
  <2> DEFINE of(b) == UNION {ExpandSelector(d, F[j]) : j \in {j \in DOMAIN F : F[j].exclude = b}}
  <2>1. \A j \in DOMAIN F : k \in ExpandSelector(d, F[j]) <=> WantsIn(d, F[j], k)
    BY <1>3, ExpandIs
  <2>2. k \in of(TRUE) <=> out(k)
    BY <1>2, <2>1
  <2>3. k \in of(FALSE) <=> in(k)
    BY <1>2, <2>1
  <2>4. ApplySelectors(d, F) = (IF In THEN D ELSE of(FALSE)) \ of(TRUE)
    BY DEF ApplySelectors
  <2> HIDE DEF of, in, out, In
  <2> QED
    BY <1>3, <2>2, <2>3, <2>4
<1>4. ASSUME NEW k \in D PROVE k \in selected <=> (In \/ in(k)) /\ ~out(k) /\ ~fails
  <2>1. CASE fails
    BY <2>1
  <2>2. CASE ~fails /\ F = << >>
    <3>1. DOMAIN F = {}
      BY <2>2
    <3> QED
      BY <1>4, <2>2, <3>1
  <2>3. CASE ~fails /\ F # << >>
    <3> HIDE DEF fails, in, out, In
    <3> QED
      BY <1>3, <1>4, <2>3
  <2> QED
    BY <2>1, <2>2, <2>3
<1>5. SelectProjects(d, F) = t
  BY DEF SelectProjects
<1>6. s \in Seq(D) /\ Len(s) = n /\ \A k \in D : s[k] = k
  BY <1>1
<1> HIDE DEF selected, s, t, fails, in, out, In
<1>7. t \in Seq(D) /\ \E m : Embeds(m, s, selected, Len(s), t)
  BY <1>6, ChosenEmbeds DEF t
<1>8. PICK m : Embeds(m, s, selected, n, t)
  BY <1>6, <1>7
<1>9. DOMAIN t = 1..Len(t) /\ \A i \in DOMAIN t : t[i] = m[i] /\ m[i] \in selected
  BY <1>1, <1>6, <1>7, <1>8 DEF Embeds
<1>10. \A i, j \in DOMAIN t : i < j => t[i] < t[j]
  BY <1>8, <1>9 DEF Embeds
<1>11. ASSUME NEW k \in D PROVE (\E j \in DOMAIN t : t[j] = k) <=> k \in selected
  BY <1>1, <1>8, <1>9, <1>11 DEF Embeds
<1>12. ASSUME NEW k \in D
       PROVE (\E j \in DOMAIN t : t[j] = k) <=> (In \/ in(k)) /\ ~out(k) /\ \A j \in DOMAIN F : ~ParseFails(F[j])
  <2>1. ~fails <=> \A j \in DOMAIN F : ~ParseFails(F[j])
    BY DEF fails
  <2> QED
    BY <1>4, <1>11, <1>12, <2>1
<1> QED
  BY <1>5, <1>10, <1>12 DEF ExactIn, in, out, In

\* Which projects a selector wants is not up to versions and files.
LEMMA WantsSame ==
    ASSUME NEW d, NEW c, DOMAIN c = DOMAIN d, \A k \in DOMAIN d : SameManifest(c[k], d[k]), NEW s, NEW k \in DOMAIN d
    PROVE  WantsIn(c, s, k) <=> WantsIn(d, s, k)
<1>1. SeedsIn(c, s) = SeedsIn(d, s)
  <2>1. ASSUME NEW j \in DOMAIN d PROVE SelectorMatches(s, c[j]) <=> SelectorMatches(s, d[j])
    <3>1. c[j].name = d[j].name /\ c[j].dir = d[j].dir
      BY DEF SameManifest
    <3> QED
      BY <3>1 DEF SelectorMatches
  <2> QED
    BY <2>1 DEF SeedsIn
<1>2. DownIn(c, s) = DownIn(d, s)
  BY DEF DownIn, SameManifest
<1>3. UpIn(c, s) = UpIn(d, s)
  BY <1>2 DEF UpIn
<1> QED
  BY <1>1, <1>2, <1>3 DEF WantsIn

LEMMA ExactSame ==
    ASSUME NEW d, NEW c, DOMAIN c = DOMAIN d, \A k \in DOMAIN d : SameManifest(c[k], d[k]), NEW F, NEW all,
           ExactIn(d, F, all)
    PROVE  ExactIn(c, F, all)
<1>1. \A k \in DOMAIN d : \A s : WantsIn(c, s, k) <=> WantsIn(d, s, k)
  BY WantsSame
<1> QED
  BY <1>1 DEF ExactIn


-----------------------------------------------------------------------------
(* What is packed (Pack) *)

Hits(rules, f) == {k \in DOMAIN rules : RuleMatches(rules[k], f)}

\* The last rule of a list that is about a file leaves it out.
LEMMA IgnoredConcat ==
    ASSUME NEW s, NEW t, IsSeq(s), IsSeq(t), NEW f
    PROVE  /\ Hits(t, f) = {} => (IsIgnored(f, s \o t) <=> IsIgnored(f, s))
           /\ Hits(t, f) # {} => (IsIgnored(f, s \o t) <=> ~t[LastOf(Hits(t, f))].negated)
           /\ Hits(s \o t, f) = {} <=> Hits(s, f) = {} /\ Hits(t, f) = {}
<1> DEFINE u == s \o t
<1>1. DOMAIN s = 1..Len(s) /\ DOMAIN t = 1..Len(t) /\ Len(s) \in Nat /\ Len(t) \in Nat
  BY IsSeqIs
<1>2. /\ IsSeq(u) /\ DOMAIN u = 1..(Len(s) + Len(t)) /\ \A k \in 1..Len(s) : u[k] = s[k]
      /\ \A k \in 1..Len(t) : u[Len(s) + k] = t[k]
      /\ \A k \in DOMAIN u : k \in 1..Len(s) \/ \E j \in 1..Len(t) : k = Len(s) + j
  BY ConcatIs
<1> HIDE DEF u
<1>3. ASSUME NEW k \in Hits(s, f) PROVE k \in Hits(u, f) /\ u[k] = s[k]
  <2>1. k \in 1..Len(s) /\ k \in 1..(Len(s) + Len(t))
    BY <1>1, <1>3 DEF Hits
  <2> QED
    BY <1>2, <1>3, <2>1 DEF Hits
<1>4. ASSUME NEW k \in Hits(t, f) PROVE Len(s) + k \in Hits(u, f) /\ u[Len(s) + k] = t[k]
  <2>1. k \in 1..Len(t) /\ Len(s) + k \in 1..(Len(s) + Len(t))
    BY <1>1, <1>4 DEF Hits
  <2> QED
    BY <1>2, <1>4, <2>1 DEF Hits
<1>5. ASSUME NEW k \in Hits(u, f) PROVE k \in Hits(s, f) \/ \E j \in Hits(t, f) : k = Len(s) + j
  <2>1. CASE k \in 1..Len(s)
    BY <1>1, <1>2, <1>5, <2>1 DEF Hits
  <2>2. CASE \E j \in 1..Len(t) : k = Len(s) + j
    <3>1. PICK j \in 1..Len(t) : k = Len(s) + j
      BY <2>2
    <3>2. j \in Hits(t, f)
      BY <1>1, <1>2, <1>5, <3>1 DEF Hits
    <3> QED
      BY <3>1, <3>2
  <2> QED
    BY <1>2, <1>5, <2>1, <2>2 DEF Hits
<1>6. \A rules : IsIgnored(f, rules) <=> Hits(rules, f) # {} /\ ~rules[LastOf(Hits(rules, f))].negated
  BY DEF IsIgnored, Hits
<1>7. ASSUME Hits(t, f) = {} PROVE IsIgnored(f, u) <=> IsIgnored(f, s)
  <2>1. Hits(u, f) = Hits(s, f)
    BY <1>3, <1>5, <1>7
  <2>2. Hits(s, f) # {} => LastOf(Hits(s, f)) \in Hits(s, f)
    BY LastIn DEF Hits
  <2>3. Hits(s, f) # {} => u[LastOf(Hits(s, f))] = s[LastOf(Hits(s, f))]
    BY <1>3, <2>2
  <2> QED
    BY <1>6, <2>1, <2>3
<1>8. ASSUME Hits(t, f) # {} PROVE IsIgnored(f, u) <=> ~t[LastOf(Hits(t, f))].negated
  <2> DEFINE a == LastOf(Hits(t, f))
             b == Len(s) + a
  <2>1. a \in Hits(t, f) /\ \A j \in Hits(t, f) : a >= j
    BY <1>8, LastIn DEF Hits
  <2> HIDE DEF a
  <2>2. b \in Hits(u, f) /\ u[b] = t[a]
    BY <1>4, <2>1
  <2>3. a \in 1..Len(t)
    BY <1>1, <2>1 DEF Hits
  <2>4. ASSUME NEW k \in Hits(u, f) PROVE b >= k
    <3>1. CASE k \in Hits(s, f)
      <4>1. k \in 1..Len(s)
        BY <1>1, <3>1 DEF Hits
      <4> QED
        BY <1>1, <2>3, <4>1
    <3>2. CASE \E j \in Hits(t, f) : k = Len(s) + j
      <4>1. PICK j \in Hits(t, f) : k = Len(s) + j
        BY <3>2
      <4>2. j \in 1..Len(t) /\ a >= j
        BY <1>1, <2>1 DEF Hits
      <4> QED
        BY <1>1, <2>3, <4>1, <4>2
    <3> QED
      BY <1>5, <2>4, <3>1, <3>2
  <2>5. Hits(u, f) \subseteq Nat
    BY <1>1, <1>2 DEF Hits
  <2> HIDE DEF b
  <2>6. LastOf(Hits(u, f)) = b
    BY <2>2, <2>4, <2>5, LastOfIs
  <2>7. IsIgnored(f, u) <=> ~u[b].negated
    BY <1>6, <2>2, <2>6
  <2> QED
    BY <2>2, <2>7 DEF a
<1>9. Hits(u, f) = {} <=> Hits(s, f) = {} /\ Hits(t, f) = {}
  BY <1>3, <1>4, <1>5
<1> QED
  BY <1>7, <1>8, <1>9 DEF u

\* The definition of RulesAlong has a solution, so that it is one.
Along(r, R, n) == r = [i \in 0..n |-> IF i = 0 THEN R[0] ELSE r[i - 1] \o R[i]]

LEMMA AlongExists == \A R : \A n \in Nat : \E r : Along(r, R, n)
<1> SUFFICES ASSUME NEW R PROVE \A n \in Nat : \E r : Along(r, R, n)
  OBVIOUS
<1> DEFINE bad == {n \in Nat : ~ \E r : Along(r, R, n)}
<1>1. SUFFICES ASSUME bad # {} PROVE FALSE
  OBVIOUS
<1>2. PICK b \in bad : \A j \in bad : b <= j
  <2>1. bad \subseteq Nat
    OBVIOUS
  <2> QED
    BY <1>1, <2>1, Least
<1>3. b # 0
  <2> DEFINE g == [i \in 0..0 |-> R[0]]
  <2>1. Along(g, R, 0)
    BY DEF Along
  <2> QED
    BY <1>2, <2>1
<1>4. b \in Nat /\ b - 1 \in Nat /\ b - 1 \notin bad
  BY <1>2, <1>3
<1>5. PICK r : Along(r, R, b - 1)
  BY <1>4
<1> DEFINE g == [i \in 0..b |-> IF i = b THEN r[b - 1] \o R[b] ELSE r[i]]
<1>6. Along(g, R, b)
  <2> DEFINE h == [i \in 0..b |-> IF i = 0 THEN R[0] ELSE g[i - 1] \o R[i]]
  <2>1. ASSUME NEW i \in 0..b PROVE g[i] = h[i]
    <3>1. CASE i = b
      <4>1. b - 1 \in 0..b /\ b - 1 # b /\ i # 0
        BY <1>3, <1>4, <3>1
      <4>2. g[b - 1] = r[b - 1]
        BY <4>1
      <4> QED
        BY <3>1, <4>1, <4>2
    <3>2. CASE i # b
      <4>1. i \in 0..(b - 1) /\ g[i] = r[i]
        BY <1>4, <3>2
      <4>2. r[i] = IF i = 0 THEN R[0] ELSE r[i - 1] \o R[i]
        BY <1>5, <4>1 DEF Along
      <4>3. i # 0 => i - 1 \in 0..b /\ i - 1 # b
        BY <1>4, <3>2
      <4>4. i # 0 => g[i - 1] = r[i - 1]
        BY <4>3
      <4> QED
        BY <4>1, <4>2, <4>4
    <3> QED
      BY <3>1, <3>2
  <2>2. g = h
    BY <2>1
  <2> QED
    BY <2>2 DEF Along
<1> QED
  BY <1>2, <1>6

LEMMA AlongLists ==
    ASSUME NEW project, NEW dir, Len(dir) \in Nat, SubSeq(dir, 1, 0) = Root
    PROVE  LET R == [i \in 0..Len(dir) |-> RulesIn(project, SubSeq(dir, 1, i))]
           IN \E r : Along(r, R, Len(dir)) /\ RulesAlong(project, Root, dir) = r[Len(dir)]
<1> DEFINE n == Len(dir)
           R == [i \in 0..n |-> RulesIn(project, SubSeq(dir, 1, i))]
           Body(r) == [i \in Len(Root)..n |-> IF i = Len(Root) THEN RulesIn(project, Root)
                                              ELSE r[i - 1] \o RulesIn(project, SubSeq(dir, 1, i))]
           down == CHOOSE r : r = Body(r)
<1>1. RulesAlong(project, Root, dir) = down[n]
  BY DEF RulesAlong
<1>2. Len(Root) = 0
  BY DEF Root
<1>3. R[0] = RulesIn(project, Root) /\ \A i \in 0..n : R[i] = RulesIn(project, SubSeq(dir, 1, i))
  <2>1. \A i \in 0..n : R[i] = RulesIn(project, SubSeq(dir, 1, i))
    OBVIOUS
  <2>2. 0 \in 0..n
    OBVIOUS
  <2> HIDE DEF R
  <2>3. R[0] = RulesIn(project, SubSeq(dir, 1, 0))
    BY <2>1, <2>2
  <2> QED
    BY <2>1, <2>3
<1>4. PICK r : Along(r, R, n)
  BY AlongExists
<1> HIDE DEF R, n
<1>5. r = Body(r)
  BY <1>2, <1>3, <1>4 DEF Along
<1>6. down = Body(down)
  BY <1>5
<1> HIDE DEF down
<1>7. Along(down, R, n)
  BY <1>2, <1>3, <1>6 DEF Along
<1> QED
  BY <1>1, <1>7 DEF R, n


LEMMA FunctionIsSeq ==
    ASSUME NEW n \in Nat, NEW s, s = [k \in 1..n |-> s[k]]
    PROVE  IsSeq(s)
<1> DEFINE S == {s[k] : k \in 1..n}
<1>1. \A k \in 1..n : s[k] \in S
  OBVIOUS
<1> HIDE DEF S
<1>2. s \in Seq(S)
  BY <1>1
<1> QED
  BY <1>2, SeqIs

LEMMA EmptyIsSeq == IsSeq(<< >>)
<1>1. << >> \in Seq({})
  OBVIOUS
<1> QED
  BY <1>1, SeqIs

LEMMA RulesInSeq ==
    ASSUME NEW x, IsIgnore(x.ignore), NEW dir
    PROVE  IsSeq(RulesIn(x, dir))
<1>1. CASE dir \notin DOMAIN x.ignore
  BY <1>1, EmptyIsSeq DEF RulesIn
<1>2. CASE dir \in DOMAIN x.ignore
  <2> DEFINE both == x.ignore[dir]
             lines == IF both.npm # NONE THEN both.npm ELSE IF both.git # NONE THEN both.git ELSE << >>
             rules == [k \in DOMAIN lines |-> [base |-> dir, negated |-> lines[k].negated, dir |-> lines[k].dir,
                                                pattern |-> lines[k].pattern]]
  <2>1. RulesIn(x, dir) = rules
    BY <1>2 DEF RulesIn
  <2>2. IsSeq(lines)
    BY <1>2, EmptyIsSeq DEF IsIgnore
  <2> HIDE DEF lines
  <2>3. Len(lines) \in Nat /\ DOMAIN lines = 1..Len(lines)
    BY <2>2, IsSeqIs
  <2>4. DOMAIN rules = 1..Len(lines) /\ rules = [k \in 1..Len(lines) |-> rules[k]]
    BY <2>3
  <2> HIDE DEF rules
  <2> QED
    BY <2>1, <2>3, <2>4, FunctionIsSeq
<1> QED
  BY <1>1, <1>2

LEMMA IgnoredAlong ==
    ASSUME NEW x, IsIgnore(x.ignore), NEW dir, Len(dir) \in Nat, SubSeq(dir, 1, 0) = Root, NEW f
    PROVE  IsIgnored(f, RulesAlong(x, Root, dir)) <=> LeftOut(x, dir, f)
<1> DEFINE N == Len(dir)
           R == [i \in 0..N |-> RulesIn(x, SubSeq(dir, 1, i))]
           H(i) == Hits(R[i], f)
           kept(i) == R[i][LastOf(H(i))].negated
           Out(n) == \E m \in 0..n : H(m) # {} /\ (\A j \in (m + 1)..n : H(j) = {}) /\ ~kept(m)
<1>1. PICK r : Along(r, R, N) /\ RulesAlong(x, Root, dir) = r[N]
  BY AlongLists
<1>2. \A i \in 0..N : R[i] = RulesIn(x, SubSeq(dir, 1, i))
  OBVIOUS
<1>3. \A i \in 0..N : IsSeq(R[i])
  BY <1>2, RulesInSeq
<1>4. LeftOut(x, dir, f) <=> Out(N)
  <2>1. \A n \in 0..N : /\ {k \in DOMAIN RulesIn(x, SubSeq(dir, 1, n)) : RuleMatches(RulesIn(x, SubSeq(dir, 1, n))[k], f)} = H(n)
                        /\ RulesIn(x, SubSeq(dir, 1, n)) = R[n]
    BY <1>2 DEF Hits
  <2>2. \A n \in 0..N : \A m \in (n + 1)..N : m \in 0..N
    OBVIOUS
  <2> HIDE DEF R, N, H
  <2>3. LeftOut(x, dir, f) <=>
        \E n \in 0..N : /\ {k \in DOMAIN RulesIn(x, SubSeq(dir, 1, n)) : RuleMatches(RulesIn(x, SubSeq(dir, 1, n))[k], f)} # {}
                        /\ \A m \in (n + 1)..N :
                              {k \in DOMAIN RulesIn(x, SubSeq(dir, 1, m)) : RuleMatches(RulesIn(x, SubSeq(dir, 1, m))[k], f)} = {}
                        /\ ~RulesIn(x, SubSeq(dir, 1, n))[LastOf({k \in DOMAIN RulesIn(x, SubSeq(dir, 1, n)) :
                               RuleMatches(RulesIn(x, SubSeq(dir, 1, n))[k], f)})].negated
    BY DEF LeftOut, N
  <2> QED
    BY <2>1, <2>2, <2>3
<1>5. \A i : IsIgnored(f, R[i]) <=> H(i) # {} /\ ~kept(i)
  BY DEF IsIgnored, Hits
<1> HIDE DEF R
<1>6. r[0] = R[0] /\ \A i \in 1..N : r[i] = r[i - 1] \o R[i]
  <2>1. \A i \in 0..N : r[i] = IF i = 0 THEN R[0] ELSE r[i - 1] \o R[i]
    BY <1>1 DEF Along
  <2>2. 0 \in 0..N /\ \A i \in 1..N : i \in 0..N /\ i # 0
    OBVIOUS
  <2> QED
    BY <2>1, <2>2
<1>7. ASSUME NEW i \in 1..N, IsSeq(r[i - 1])
      PROVE  /\ IsSeq(r[i])
             /\ H(i) = {} => (IsIgnored(f, r[i]) <=> IsIgnored(f, r[i - 1]))
             /\ H(i) # {} => (IsIgnored(f, r[i]) <=> ~kept(i))
  <2> DEFINE s == r[i - 1]
             t == R[i]
  <2>1. i \in 0..N
    OBVIOUS
  <2>2. IsSeq(s) /\ IsSeq(t) /\ r[i] = s \o t
    BY <1>3, <1>6, <1>7, <2>1
  <2> HIDE DEF s, t
  <2>3. /\ IsSeq(r[i])
        /\ Hits(t, f) = {} => (IsIgnored(f, r[i]) <=> IsIgnored(f, s))
        /\ Hits(t, f) # {} => (IsIgnored(f, r[i]) <=> ~t[LastOf(Hits(t, f))].negated)
    BY <2>2, IgnoredConcat, ConcatIs
  <2> QED
    BY <2>3 DEF s, t
<1> HIDE DEF H, kept
<1> DEFINE Good(n) == IsSeq(r[n]) /\ (IsIgnored(f, r[n]) <=> Out(n))
           bad == {n \in 0..N : ~Good(n)}
<1>8. bad = {}
  <2>1. SUFFICES ASSUME bad # {} PROVE FALSE
    OBVIOUS
  <2>2. PICK b \in bad : \A j \in bad : b <= j
    <3>1. bad \subseteq Nat
      OBVIOUS
    <3> QED
      BY <2>1, <3>1, Least
  <2>3. Good(0)
    <3>1. 0 \in 0..N
      OBVIOUS
    <3>2. Out(0) <=> H(0) # {} /\ ~kept(0)
      OBVIOUS
    <3> QED
      BY <1>3, <1>5, <1>6, <3>1, <3>2
  <2>4. b \in 1..N /\ b - 1 \in 0..N /\ b - 1 \notin bad
    <3>1. b \in 0..N /\ b # 0
      BY <2>2, <2>3
    <3>2. b \in 1..N /\ b - 1 \in 0..N /\ ~(b <= b - 1)
      BY <3>1
    <3> QED
      BY <2>2, <3>2
  <2>5. Good(b - 1)
    BY <2>4
  <2>6. CASE H(b) = {}
    <3>1. Out(b) <=> Out(b - 1)
      <4>1. \A m \in 0..(b - 1) : m \in 0..b /\ b \in (m + 1)..b /\ \A j \in (m + 1)..b : j = b \/ j \in (m + 1)..(b - 1)
        BY <2>4
      <4>2. \A m \in 0..(b - 1) : \A j \in (m + 1)..(b - 1) : j \in (m + 1)..b
        BY <2>4
      <4>3. \A m \in 0..b : m = b \/ m \in 0..(b - 1)
        BY <2>4
      <4> QED
        BY <2>6, <4>1, <4>2, <4>3
    <3> QED
      BY <1>7, <2>2, <2>4, <2>5, <2>6, <3>1
  <2>7. CASE H(b) # {}
    <3>1. Out(b) <=> ~kept(b)
      <4>1. b \in 0..b /\ \A j \in (b + 1)..b : FALSE
        BY <2>4
      <4>2. \A m \in 0..b : m = b \/ b \in (m + 1)..b
        BY <2>4
      <4> QED
        BY <2>7, <4>1, <4>2
    <3> QED
      BY <1>7, <2>2, <2>4, <2>5, <2>7, <3>1
  <2> QED
    BY <2>6, <2>7
<1>9. N \in 0..N
  OBVIOUS
<1> QED
  BY <1>1, <1>4, <1>8, <1>9

\* What PackedRight asks of a file.
Wanted(x, f) ==
    \/ f = <<"package.json">> \/ f = x.main \/ f \in x.bins
    \/ Len(f) = 1 /\ f[1] \in Mandatory
    \/ ~LeftOut(x, Dir(f), f) /\ \A k \in DOMAIN f : f[k] \notin Skipped

LEMMA PathIs ==
    ASSUME NEW f, IsSeq(f), f # << >>
    PROVE  /\ Len(Dir(f)) \in Nat /\ SubSeq(Dir(f), 1, 0) = Root /\ Below(Root, f)
           /\ (\A k \in (Len(Root) + 1)..Len(f) : ~ShouldSkip(SubSeq(f, 1, k))) <=> \A k \in DOMAIN f : f[k] \notin Skipped
<1> DEFINE S == {f[k] : k \in DOMAIN f}
<1>1. f \in Seq(S)
  BY DEF IsSeq
<1> HIDE DEF S
<1>2. Len(f) \in Nat /\ Len(f) # 0 /\ DOMAIN f = 1..Len(f)
  BY <1>1
<1>3. Len(f) - 1 \in 0..Len(f)
  BY <1>2
<1>4. Dir(f) \in Seq(S)
  BY <1>1, <1>2 DEF Dir
<1>5. Len(Dir(f)) \in Nat /\ SubSeq(Dir(f), 1, 0) = << >>
  BY <1>4
<1>6. SubSeq(f, 1, 0) = << >>
  BY <1>1
<1>7. Len(Root) = 0
  BY DEF Root
<1>8. Below(Root, f)
  BY <1>2, <1>6, <1>7 DEF Below, Root
<1>9. ASSUME NEW k \in 1..Len(f) PROVE ShouldSkip(SubSeq(f, 1, k)) <=> f[k] \in Skipped
  <2> DEFINE s == SubSeq(f, 1, k)
  <2>1. Len(s) = k /\ s[k] = f[k]
    BY <1>1, <1>2, <1>9
  <2> QED
    BY <2>1 DEF ShouldSkip, Name
<1>10. (Len(Root) + 1)..Len(f) = DOMAIN f
  BY <1>2, <1>7
<1> QED
  BY <1>2, <1>5, <1>8, <1>9, <1>10 DEF Root

LEMMA CollectRight ==
    ASSUME NEW x, IsProject(x), x.list = NONE, NEW f \in DOMAIN x.files
    PROVE  f \in CollectPackFiles(x) <=> Wanted(x, f)
<1>1. IsSeq(f) /\ f # << >> /\ IsIgnore(x.ignore)
  BY DEF IsProject, IsTree
<1>2. IsIgnored(f, RulesAlong(x, Root, Dir(f))) <=> LeftOut(x, Dir(f), f)
  BY <1>1, PathIs, IgnoredAlong
<1>3. f \in DefaultFiles(x) <=> ~LeftOut(x, Dir(f), f) /\ \A k \in DOMAIN f : f[k] \notin Skipped
  <2>1. f \in DefaultFiles(x) <=> /\ Below(Root, f)
                                  /\ \A k \in (Len(Root) + 1)..Len(f) : ~ShouldSkip(SubSeq(f, 1, k))
                                  /\ ~IsIgnored(f, RulesAlong(x, Root, Dir(f)))
    BY DEF DefaultFiles, CollectDir
  <2> QED
    BY <1>1, <1>2, <2>1, PathIs
<1>4. f \in MandatoryFiles(x) <=> Len(f) = 1 /\ f[1] \in Mandatory
  BY DEF MandatoryFiles
<1>5. f \in EntryFiles(x) <=> f = x.main \/ f \in x.bins
  BY DEF EntryFiles
<1> QED
  BY <1>3, <1>4, <1>5 DEF CollectPackFiles, Wanted

LEMMA WantedSame ==
    ASSUME NEW x, NEW y, SameManifest(y, x), NEW f
    PROVE  Wanted(y, f) <=> Wanted(x, f)
<1>1. \A d : RulesIn(y, d) = RulesIn(x, d)
  BY DEF SameManifest, RulesIn
<1>2. LeftOut(y, Dir(f), f) <=> LeftOut(x, Dir(f), f)
  <2>1. \A d : {k \in DOMAIN RulesIn(y, d) : RuleMatches(RulesIn(y, d)[k], f)}
                 = {k \in DOMAIN RulesIn(x, d) : RuleMatches(RulesIn(x, d)[k], f)}
    BY <1>1
  <2> QED
    BY <1>1, <2>1 DEF LeftOut
<1> QED
  BY <1>2 DEF Wanted, SameManifest


\* What Installable asks of a spec.
SpecRight(members, n, was, is) ==
    LET asks == IF is.protocol = "npm" THEN is.alias ELSE n IN
    /\ is.protocol \in {"", "npm"}
    /\ was.protocol = "workspace" =>
           /\ asks = IF was.alias # NONE THEN was.alias ELSE n
           /\ was.range \in {"", "*", "^", "~"} =>
                  \E k \in DOMAIN members : members[k].name = asks /\ is.range[2] = members[k].version

LEMMA SiblingIs ==
    ASSUME NEW members, DOMAIN members \subseteq Nat, NEW name, SiblingVersion(members, name) # NONE
    PROVE  \E k \in DOMAIN members : members[k].name = name /\ members[k].version = SiblingVersion(members, name)
<1> DEFINE found == {k \in DOMAIN members : members[k].name = name}
<1>1. found # {} /\ SiblingVersion(members, name) = members[FirstOf(found)].version
  BY DEF SiblingVersion
<1>2. FirstOf(found) \in found
  BY <1>1, FirstOfLeast
<1> QED
  BY <1>1, <1>2

LEMMA SpecRewritten ==
    ASSUME NEW members, DOMAIN members \subseteq Nat, NEW catalog, NEW n, NEW was,
           was \in [protocol : {was.protocol}, alias : {was.alias}, range : {was.range}],
           was.protocol \in {"", "npm", "workspace", "catalog"},
           NEW is, is = RewriteSpec(members, catalog, n, was), is # NONE
    PROVE  SpecRight(members, n, was, is)
<1>1. CASE was.protocol = "workspace"
  <2> DEFINE of == IF was.alias # NONE THEN was.alias ELSE n
             version == SiblingVersion(members, of)
             needed == was.range \in {"", "*", "^", "~"}
             protocol == IF was.alias # NONE THEN "npm" ELSE ""
             range == ConcreteRange(was.range, version)
  <2>1. is = IF needed /\ version = NONE THEN NONE ELSE [was EXCEPT !.protocol = protocol, !.range = range]
    BY <1>1 DEF RewriteSpec
  <2>2. ~(needed /\ version = NONE) /\ is = [was EXCEPT !.protocol = protocol, !.range = range]
    BY <2>1
  <2>3. needed => range[2] = version
    BY DEF ConcreteRange
  <2> HIDE DEF range
  <2>4. is.protocol = protocol /\ is.alias = was.alias /\ is.range = range
    BY <2>2
  <2>6. (IF is.protocol = "npm" THEN is.alias ELSE n) = of
    BY <2>4
  <2> HIDE DEF of, needed, protocol
  <2>5. ASSUME needed PROVE \E k \in DOMAIN members : members[k].name = of /\ members[k].version = version
    <3>1. SiblingVersion(members, of) # NONE
      BY <2>2, <2>5
    <3> QED
      BY <3>1, SiblingIs
  <2> HIDE DEF version
  <2> QED
    BY <2>3, <2>4, <2>5, <2>6 DEF SpecRight, of, needed, protocol
<1>2. CASE was.protocol = "catalog"
  <2>1. is = [was EXCEPT !.protocol = "", !.range = catalog[n]]
    BY <1>2 DEF RewriteSpec
  <2>2. is.protocol = ""
    BY <2>1
  <2> QED
    BY <1>2, <2>2 DEF SpecRight
<1>3. CASE was.protocol \in {"", "npm"}
  <2>1. is = was
    BY <1>3 DEF RewriteSpec
  <2> QED
    BY <1>3, <2>1 DEF SpecRight
<1> QED
  BY <1>1, <1>2, <1>3

LEMMA RewriteRight ==
    ASSUME NEW members, DOMAIN members \subseteq Nat, NEW catalog, NEW deps, IsNeeds(deps),
           NEW new, new = RewritePublished(members, catalog, deps), new # NONE, NEW n \in DOMAIN new
    PROVE  SpecRight(members, n, deps[n], new[n])
<1> DEFINE all == [m \in DOMAIN deps |-> RewriteSpec(members, catalog, m, deps[m])]
<1>1. new = all /\ ~ \E m \in DOMAIN deps : all[m] = NONE
  BY DEF RewritePublished
<1>2. n \in DOMAIN deps /\ new[n] = RewriteSpec(members, catalog, n, deps[n]) /\ new[n] # NONE
  BY <1>1
<1>3. /\ deps[n] \in [protocol : {deps[n].protocol}, alias : {deps[n].alias}, range : {deps[n].range}]
      /\ deps[n].protocol \in {"", "npm", "workspace", "catalog"}
  BY <1>2 DEF IsNeeds
<1> DEFINE was == deps[n]
           is == new[n]
<1>4. is = RewriteSpec(members, catalog, n, was) /\ is # NONE
  BY <1>2
<1>5. /\ was \in [protocol : {was.protocol}, alias : {was.alias}, range : {was.range}]
      /\ was.protocol \in {"", "npm", "workspace", "catalog"}
  BY <1>3
<1> HIDE DEF was, is
<1>6. SpecRight(members, n, was, is)
  BY <1>4, <1>5, SpecRewritten
<1> QED
  BY <1>6 DEF was, is

\* The projects of two workspaces differ in their files only.
SameVersions(c, d) ==
    DOMAIN c = DOMAIN d /\ \A k \in DOMAIN d : SameManifest(c[k], d[k]) /\ c[k].version = d[k].version

LEMMA RewriteSame ==
    ASSUME NEW c, NEW d, SameVersions(c, d), DOMAIN d \subseteq Nat, NEW catalog, NEW deps
    PROVE  RewritePublished(c, catalog, deps) = RewritePublished(d, catalog, deps)
<1>1. ASSUME NEW name PROVE SiblingVersion(c, name) = SiblingVersion(d, name)
  <2> DEFINE found == {k \in DOMAIN d : d[k].name = name}
  <2>1. {k \in DOMAIN c : c[k].name = name} = found
    BY DEF SameVersions, SameManifest
  <2>2. FirstOf(found) \in DOMAIN d => c[FirstOf(found)].version = d[FirstOf(found)].version
    BY DEF SameVersions
  <2>3. SiblingVersion(c, name) = IF found = {} THEN NONE ELSE c[FirstOf(found)].version
    BY <2>1 DEF SiblingVersion
  <2>4. SiblingVersion(d, name) = IF found = {} THEN NONE ELSE d[FirstOf(found)].version
    BY DEF SiblingVersion
  <2>5. CASE FirstOf(found) \in DOMAIN d
    BY <2>2, <2>3, <2>4, <2>5
  <2>6. CASE found = {}
    BY <2>3, <2>4, <2>6
  <2>7. found # {} => FirstOf(found) \in found
    BY FirstOfLeast
  <2> QED
    BY <2>5, <2>6, <2>7
<1>2. ASSUME NEW n, NEW spec PROVE RewriteSpec(c, catalog, n, spec) = RewriteSpec(d, catalog, n, spec)
  <2> DEFINE of == IF spec.alias # NONE THEN spec.alias ELSE n
  <2>1. SiblingVersion(c, of) = SiblingVersion(d, of)
    BY <1>1
  <2> QED
    BY <2>1, Zenon DEF RewriteSpec
<1> QED
  BY <1>2 DEF RewritePublished

-----------------------------------------------------------------------------
(* What is published                                                       *)

\* What NothingBlocked, Installable and PackedRight ask of one upload.
Cleared(u) ==
    /\ ~u.project.private
    /\ \A f \in u.files :
           LET what == u.project.files[f]
               allowed == u.allow \cup u.project.policy.allow
           IN /\ what = "secret" => "SECRET_FILE" \in allowed
              /\ what = "embedded map" => {"EMBEDDED_SOURCE_MAP", "SOURCE_MAP_PRESENT"} \cap allowed # {}
              /\ what \in u.project.policy.deny => "DENY_PATTERN_MATCH" \in allowed

InstallableIn(d, u) ==
    /\ u.deps = u.meta
    /\ \A n \in DOMAIN u.deps :
           LET was == u.project.deps[n]
               is == u.deps[n]
               asks == IF is.protocol = "npm" THEN is.alias ELSE n
           IN /\ is.protocol \in {"", "npm"}
              /\ was.protocol = "workspace" =>
                     /\ asks = IF was.alias # NONE THEN was.alias ELSE n
                     /\ was.range \in {"", "*", "^", "~"} =>
                            \E k \in DOMAIN u.workspace : d[k].name = asks /\ is.range[2] = u.workspace[k]

Complete(u) ==
    u.project.list = NONE =>
        \A f \in DOMAIN u.project.files \ {TarballOf(u.project)} : f \in u.files <=> Wanted(u.project, f)

UploadRight(d, u) == DOMAIN u.workspace = DOMAIN d /\ Cleared(u) /\ InstallableIn(d, u) /\ Complete(u)

\* What a project was packed with is what it would be packed with now.
ReadyIn(d, k, x) ==
    /\ x.deps = RewritePublished(d, Catalog, d[k].deps) /\ x.deps # NONE
    /\ d[k].list = NONE =>
           \A f \in DOMAIN d[k].files \ {TarballOf(d[k])} : f \in x.files <=> Wanted(d[k], f)

JobReady(d, j) ==
    /\ j.at = "Publish" => ReadyIn(d, j.todo[1], j.package)
    /\ j.cmd # NONE /\ j.cmd.filters # NONE => ExactIn(d, j.cmd.filters, j.selected)

Publishing ==
    /\ \A u \in uploads : UploadRight(disk, u)
    /\ \A p \in Process : JobReady(disk, proc[p])

\* The files of a project but for its tarball.
Sources(x) == DOMAIN x.files \ {TarballOf(x)}

\* Packing and cleaning up change nothing but tarballs.
Quiet(c, d) == SameVersions(c, d) /\ \A k \in DOMAIN d : Sources(c[k]) = Sources(d[k])

LEMMA ReadySame ==
    ASSUME NEW c, NEW d, Quiet(c, d), DOMAIN d \subseteq Nat, NEW k \in DOMAIN d, NEW x, ReadyIn(d, k, x)
    PROVE  ReadyIn(c, k, x)
<1> DEFINE y == c[k]
           z == d[k]
<1>1. SameManifest(y, z) /\ Sources(y) = Sources(z) /\ y.deps = z.deps /\ y.list = z.list
  BY DEF Quiet, SameVersions, SameManifest
<1>2. \A deps : RewritePublished(c, Catalog, deps) = RewritePublished(d, Catalog, deps)
  BY RewriteSame DEF Quiet
<1>3. x.deps = RewritePublished(d, Catalog, z.deps) /\ x.deps # NONE
  BY DEF ReadyIn
<1>4. z.list = NONE => \A f \in Sources(z) : f \in x.files <=> Wanted(z, f)
  BY DEF ReadyIn, Sources
<1> HIDE DEF y, z
<1>5. \A f : Wanted(y, f) <=> Wanted(z, f)
  BY <1>1, WantedSame
<1>6. y.list = NONE => \A f \in Sources(y) : f \in x.files <=> Wanted(y, f)
  BY <1>1, <1>4, <1>5
<1>7. x.deps = RewritePublished(c, Catalog, y.deps)
  BY <1>1, <1>2, <1>3
<1> QED
  BY <1>3, <1>6, <1>7 DEF ReadyIn, Sources, y

LEMMA UploadSame ==
    ASSUME NEW c, NEW d, DOMAIN c = DOMAIN d, \A k \in DOMAIN d : SameManifest(c[k], d[k]), NEW u, UploadRight(d, u)
    PROVE  UploadRight(c, u)
<1>1. \A k \in DOMAIN d : c[k].name = d[k].name
  BY DEF SameManifest
<1>2. DOMAIN u.workspace = DOMAIN d
  BY DEF UploadRight
<1>3. ASSUME NEW name, NEW version,
             \E k \in DOMAIN u.workspace : d[k].name = name /\ version = u.workspace[k]
      PROVE  \E k \in DOMAIN u.workspace : c[k].name = name /\ version = u.workspace[k]
  BY <1>1, <1>2, <1>3
<1>4. ASSUME InstallableIn(d, u), NEW n \in DOMAIN u.deps
      PROVE  LET was == u.project.deps[n]
                 is == u.deps[n]
                 asks == IF is.protocol = "npm" THEN is.alias ELSE n
             IN /\ is.protocol \in {"", "npm"}
                /\ was.protocol = "workspace" =>
                       /\ asks = IF was.alias # NONE THEN was.alias ELSE n
                       /\ was.range \in {"", "*", "^", "~"} =>
                              \E k \in DOMAIN u.workspace : c[k].name = asks /\ is.range[2] = u.workspace[k]
  <2> DEFINE was == u.project.deps[n]
             is == u.deps[n]
             asks == IF is.protocol = "npm" THEN is.alias ELSE n
             version == is.range[2]
  <2>1. /\ is.protocol \in {"", "npm"}
        /\ was.protocol = "workspace" =>
               /\ asks = IF was.alias # NONE THEN was.alias ELSE n
               /\ was.range \in {"", "*", "^", "~"} =>
                      \E k \in DOMAIN u.workspace : d[k].name = asks /\ version = u.workspace[k]
    BY <1>4 DEF InstallableIn
  <2> HIDE DEF asks, version
  <2>2. (\E k \in DOMAIN u.workspace : d[k].name = asks /\ version = u.workspace[k])
            => \E k \in DOMAIN u.workspace : c[k].name = asks /\ version = u.workspace[k]
    BY <1>3
  <2>3. /\ is.protocol \in {"", "npm"}
        /\ was.protocol = "workspace" =>
               /\ asks = IF was.alias # NONE THEN was.alias ELSE n
               /\ was.range \in {"", "*", "^", "~"} =>
                      \E k \in DOMAIN u.workspace : c[k].name = asks /\ version = u.workspace[k]
    BY <2>1, <2>2
  <2> QED
    BY <2>3 DEF asks, version
<1>5. InstallableIn(d, u) => InstallableIn(c, u)
  <2>1. InstallableIn(d, u) => u.deps = u.meta
    BY DEF InstallableIn
  <2> QED
    BY <1>4, <2>1 DEF InstallableIn
<1> QED
  BY <1>5 DEF UploadRight

LEMMA TarballEdit ==
    ASSUME Members, NEW k \in DOMAIN disk, Edits(k), disk'[k].version = disk[k].version,
           disk'[k].files \in {Packed(disk[k]), Cleaned(disk[k])}
    PROVE  Quiet(disk', disk)
<1> DEFINE T == TarballOf(disk[k])
<1>1. TarballOf(disk'[k]) = T
  BY DEF Edits, SameManifest, TarballOf
<1>2. DOMAIN Packed(disk[k]) = DOMAIN disk[k].files \cup {T} /\ DOMAIN Cleaned(disk[k]) = DOMAIN disk[k].files \ {T}
  BY DEF Packed, Cleaned
<1>3. DOMAIN disk'[k].files \in {DOMAIN disk[k].files \cup {T}, DOMAIN disk[k].files \ {T}}
  BY <1>2
<1>4. Sources(disk'[k]) = DOMAIN disk'[k].files \ {T} /\ Sources(disk[k]) = DOMAIN disk[k].files \ {T}
  BY <1>1 DEF Sources
<1> HIDE DEF T
<1>5. Sources(disk'[k]) = Sources(disk[k])
  BY <1>3, <1>4
<1>6. ASSUME NEW j \in DOMAIN disk
      PROVE  SameManifest(disk'[j], disk[j]) /\ disk'[j].version = disk[j].version /\ Sources(disk'[j]) = Sources(disk[j])
  <2>1. CASE j = k
    BY <1>5, <2>1 DEF Edits
  <2>2. CASE j # k
    BY <2>2 DEF Edits, SameManifest
  <2> QED
    BY <2>1, <2>2
<1> QED
  BY <1>6 DEF Quiet, SameVersions, Edits

LEMMA QuietSelf == \A d : Quiet(d, d)
  BY DEF Quiet, SameVersions, SameManifest

LEMMA StepQuiet ==
    ASSUME Typed, NEW p \in Process, Step(p), ~Bump(p)
    PROVE  Quiet(disk', disk)
<1>0. Members
  BY DEF Typed
<1>1. CASE PackProject(p)
  <2>1. disk' = disk \/ (Todo(p) \in DOMAIN disk /\ Edits(Todo(p)) /\ disk'[Todo(p)].files = Packed(disk[Todo(p)])
                         /\ disk'[Todo(p)].version = disk[Todo(p)].version)
    BY <1>1, PackEdits
  <2> QED
    BY <1>0, <2>1, TarballEdit, QuietSelf
<1>2. CASE CleanTarball(p)
  <2>1. Todo(p) \in DOMAIN disk /\ Edits(Todo(p)) /\ disk'[Todo(p)].files = Cleaned(disk[Todo(p)])
        /\ disk'[Todo(p)].version = disk[Todo(p)].version
    BY <1>2, CleanEdits
  <2> QED
    BY <1>0, <2>1, TarballEdit
<1>3. CASE ~PackProject(p) /\ ~CleanTarball(p)
  <2>1. disk' = disk
    BY <1>3 DEF Step, Load, Request, Answer, Retry, NotModified, ReadShard, WriteShard, WebLogin, PollForToken,
                CouchLogin, ExistingUser, SaveCredentials, Logout, Publish, Release, world
  <2> QED
    BY <2>1, QuietSelf
<1> QED
  BY <1>1, <1>2, <1>3

LEMMA PublishFrom ==
    ASSUME Jobs, NEW p \in Process, Step(p), proc'[p].at = "Publish"
    PROVE  /\ PackProject(p) /\ At(p, "Pack") /\ proc'[p].todo = proc[p].todo
           /\ proc'[p].package = [files |-> CollectPackFiles(disk[Todo(p)]),
                                  deps |-> RewritePublished(disk, Catalog, disk[Todo(p)].deps)]
           /\ RewritePublished(disk, Catalog, disk[Todo(p)].deps) # NONE
<1>1. ~ \E r : EndWith(p, r)
  BY EndWithIs
<1>2. ~NextProject(p) /\ ~ToStep(p, "Couch") /\ ~ToStep(p, "Credentials") /\ ~ToStep(p, "Existing") /\ ~ToStep(p, "Clean")
  BY NextProjectIs, ToStepIs
<1>3. ~Load(p) /\ ~Request(p) /\ ~Answer(p) /\ ~Retry(p) /\ ~NotModified(p) /\ ~ReadShard(p)
  <2>1. ~Load(p)
    BY <1>1 DEF Load, Jobs, IsJob
  <2>2. ~Request(p)
    BY DEF Request, Jobs, IsJob
  <2>3. ~Answer(p) /\ ~Retry(p) /\ ~NotModified(p)
    BY <1>1 DEF Answer, Retry, NotModified, Jobs, IsJob
  <2>4. ~ReadShard(p)
    <3> SUFFICES ASSUME ReadShard(p) PROVE FALSE
      OBVIOUS
    <3> QED
      BY ReadShardIs
  <2> QED
    BY <2>1, <2>2, <2>3, <2>4
<1>4. ~WebLogin(p) /\ ~PollForToken(p) /\ ~CouchLogin(p) /\ ~ExistingUser(p)
  BY <1>1, <1>2
     DEF WebLogin, PollForToken, CouchLogin, ExistingUser, HandleCouchResponse, Authenticate, LoginWithFallback, Jobs, IsJob, At
<1>5. ~(WriteShard(p) \/ SaveCredentials(p) \/ Logout(p) \/ Release(p) \/ Bump(p) \/ Publish(p) \/ CleanTarball(p))
  BY <1>1, <1>2 DEF WriteShard, SaveCredentials, Logout, Release, Bump, Publish, CleanTarball
<1>6. PackProject(p)
  BY <1>3, <1>4, <1>5 DEF Step
<1> DEFINE files == CollectPackFiles(disk[Todo(p)])
           deps == RewritePublished(disk, Catalog, disk[Todo(p)].deps)
           package == [files |-> files, deps |-> deps]
<1>7. deps # NONE /\ proc' = [proc EXCEPT ![p].at = "Publish", ![p].package = package]
  BY <1>1, <1>2, <1>6 DEF PackProject
<1> HIDE DEF package, deps, files
<1>8. proc'[p].package = package /\ proc'[p].todo = proc[p].todo
  BY <1>7 DEF Jobs, IsJob
<1>9. At(p, "Pack")
  BY <1>6 DEF PackProject
<1> QED
  BY <1>6, <1>7, <1>8, <1>9 DEF package, deps, files

LEMMA ClearedBy ==
    ASSUME NEW u, ~Refused(u.project, u.files, u.allow)
    PROVE  Cleared(u)
<1> DEFINE x == u.project
           allowed == u.allow \cup x.policy.allow
<1>1. ~x.private /\ Blocked(x, u.files, u.allow) = {}
  BY DEF Refused
<1>2. ASSUME NEW r \in AuditPack(x, u.files), r.blocks PROVE r.code \in allowed
  <2>1. r.code \in {y.code : y \in {y \in AuditPack(x, u.files) : y.blocks}}
    BY <1>2
  <2>2. r.code \in AllowedRisks(x, u.allow)
    BY <1>1, <2>1 DEF Blocked
  <2> QED
    BY <2>2 DEF AllowedRisks
<1>3. ASSUME NEW f \in u.files, NEW r \in FileFindings(x.files[f], x.policy), r.blocks PROVE r.code \in allowed
  <2>1. r \in AuditPack(x, u.files)
    BY <1>3 DEF AuditPack
  <2> QED
    BY <1>2, <1>3, <2>1
<1> HIDE DEF allowed, x
<1>4. ASSUME NEW f \in u.files
      PROVE  LET what == x.files[f] IN
             /\ what = "secret" => "SECRET_FILE" \in allowed
             /\ what = "embedded map" => {"EMBEDDED_SOURCE_MAP", "SOURCE_MAP_PRESENT"} \cap allowed # {}
             /\ what \in x.policy.deny => "DENY_PATTERN_MATCH" \in allowed
  <2> DEFINE what == x.files[f]
             pol == x.policy
  <2>0. \A r \in FileFindings(what, pol) : r.blocks => r.code \in allowed
    BY <1>3, <1>4
  <2> HIDE DEF what, pol
  <2>1. ASSUME what = "secret" PROVE "SECRET_FILE" \in allowed
    <3>1. [code |-> "SECRET_FILE", blocks |-> TRUE] \in FileFindings(what, pol)
      BY <2>1 DEF FileFindings
    <3> QED
      BY <2>0, <3>1
  <2>2. ASSUME what = "embedded map" PROVE {"EMBEDDED_SOURCE_MAP", "SOURCE_MAP_PRESENT"} \cap allowed # {}
    <3> DEFINE r == AuditSourceMap(what, pol)
    <3>1. r \in FileFindings(what, pol)
      BY <2>2 DEF FileFindings
    <3>2. r.blocks /\ r.code \in {"EMBEDDED_SOURCE_MAP", "SOURCE_MAP_PRESENT"}
      <4>1. r = [code |-> "SOURCE_MAP_PRESENT", blocks |-> TRUE] \/ r = [code |-> "EMBEDDED_SOURCE_MAP", blocks |-> TRUE]
        <5>1. CASE pol.maps = "forbid"
          BY <2>2, <5>1 DEF AuditSourceMap
        <5>2. CASE pol.maps # "forbid"
          BY <2>2, <5>2 DEF AuditSourceMap
        <5> QED
          BY <5>1, <5>2
      <4> HIDE DEF r
      <4> QED
        BY <4>1
    <3> HIDE DEF r
    <3> QED
      BY <2>0, <3>1, <3>2
  <2>3. ASSUME what \in pol.deny PROVE "DENY_PATTERN_MATCH" \in allowed
    <3>1. [code |-> "DENY_PATTERN_MATCH", blocks |-> TRUE] \in FileFindings(what, pol)
      BY <2>3 DEF FileFindings
    <3> QED
      BY <2>0, <3>1
  <2> QED
    BY <2>1, <2>2, <2>3 DEF what, pol
<1> QED
  BY <1>1, <1>4 DEF Cleared, x, allowed

LEMMA UploadRightNow ==
    ASSUME Typed, NEW p \in Process, At(p, "Publish"), ReadyIn(disk, Todo(p), proc[p].package),
           ~Refused(Upload(p).project, Upload(p).files, Upload(p).allow)
    PROVE  UploadRight(disk, Upload(p))
<1> DEFINE u == Upload(p)
           x == disk[Todo(p)]
           new == proc[p].package.deps
<1>1. Todo(p) \in DOMAIN disk /\ u.project = x
  BY UploadIs
<1>2. /\ u.files = proc[p].package.files /\ u.deps = new /\ u.meta = RewritePublished(disk, Catalog, x.deps)
      /\ u.workspace = [j \in DOMAIN disk |-> disk[j].version]
  BY DEF Upload
<1>3. Cleared(u)
  BY ClearedBy
<1>4. new = RewritePublished(disk, Catalog, x.deps) /\ new # NONE
  BY DEF ReadyIn
<1>5. x.list = NONE => \A f \in DOMAIN x.files \ {TarballOf(x)} : f \in proc[p].package.files <=> Wanted(x, f)
  BY DEF ReadyIn
<1>6. DOMAIN disk \subseteq Nat /\ IsNeeds(x.deps)
  BY <1>1 DEF Typed, Members, IsProject
<1> HIDE DEF u, x, new
<1>7. Complete(u)
  BY <1>1, <1>2, <1>5 DEF Complete
<1>8. ASSUME NEW n \in DOMAIN new PROVE SpecRight(disk, n, x.deps[n], new[n])
  <2> DEFINE deps == x.deps
  <2> HIDE DEF deps
  <2>1. IsNeeds(deps) /\ new = RewritePublished(disk, Catalog, deps) /\ new # NONE
    BY <1>4, <1>6 DEF deps
  <2>2. SpecRight(disk, n, deps[n], new[n])
    BY <1>6, <1>8, <2>1, RewriteRight
  <2> QED
    BY <2>2 DEF deps
<1>9. InstallableIn(disk, u)
  <2>1. DOMAIN u.workspace = DOMAIN disk /\ \A j \in DOMAIN disk : u.workspace[j] = disk[j].version
    BY <1>2
  <2>2. ASSUME NEW n \in DOMAIN u.deps
        PROVE  LET was == u.project.deps[n]
                   is == u.deps[n]
                   asks == IF is.protocol = "npm" THEN is.alias ELSE n
               IN /\ is.protocol \in {"", "npm"}
                  /\ was.protocol = "workspace" =>
                         /\ asks = IF was.alias # NONE THEN was.alias ELSE n
                         /\ was.range \in {"", "*", "^", "~"} =>
                                \E k \in DOMAIN u.workspace : disk[k].name = asks /\ is.range[2] = u.workspace[k]
    <3> DEFINE was == x.deps[n]
               is == new[n]
               asks == IF is.protocol = "npm" THEN is.alias ELSE n
               version == is.range[2]
    <3>1. /\ is.protocol \in {"", "npm"}
          /\ was.protocol = "workspace" =>
                 /\ asks = IF was.alias # NONE THEN was.alias ELSE n
                 /\ was.range \in {"", "*", "^", "~"} =>
                        \E k \in DOMAIN disk : disk[k].name = asks /\ version = disk[k].version
      BY <1>2, <1>8, <2>2 DEF SpecRight
    <3> HIDE DEF asks, version
    <3>2. (\E k \in DOMAIN disk : disk[k].name = asks /\ version = disk[k].version)
              => \E k \in DOMAIN u.workspace : disk[k].name = asks /\ version = u.workspace[k]
      BY <2>1
    <3>3. /\ is.protocol \in {"", "npm"}
          /\ was.protocol = "workspace" =>
                 /\ asks = IF was.alias # NONE THEN was.alias ELSE n
                 /\ was.range \in {"", "*", "^", "~"} =>
                        \E k \in DOMAIN u.workspace : disk[k].name = asks /\ version = u.workspace[k]
      BY <3>1, <3>2
    <3>4. u.project.deps[n] = was /\ u.deps[n] = is
      BY <1>1, <1>2
    <3> QED
      BY <3>3, <3>4 DEF asks, version
  <2>3. u.deps = u.meta
    BY <1>2, <1>4
  <2> QED
    BY <2>2, <2>3 DEF InstallableIn
<1>10. DOMAIN u.workspace = DOMAIN disk
  BY <1>2
<1> QED
  BY <1>3, <1>7, <1>9, <1>10 DEF UploadRight, u

LEMMA PackReady ==
    ASSUME Typed, NEW p \in Process, Step(p), proc'[p].at = "Publish"
    PROVE  ReadyIn(disk', proc'[p].todo[1], proc'[p].package)
<1> DEFINE k == Todo(p)
           x == disk[k]
           package == proc'[p].package
<1>1. /\ PackProject(p) /\ At(p, "Pack") /\ proc'[p].todo = proc[p].todo
      /\ package = [files |-> CollectPackFiles(x), deps |-> RewritePublished(disk, Catalog, x.deps)]
      /\ RewritePublished(disk, Catalog, x.deps) # NONE
  BY PublishFrom DEF Typed
<1>2. k \in DOMAIN disk /\ IsProject(x) /\ DOMAIN disk \subseteq Nat
  <2>1. JobTyped(proc[p]) /\ proc[p].at = "Pack"
    BY <1>1 DEF Typed, At
  <2> QED
    BY <2>1, TodoIn DEF Typed, Members
<1> HIDE DEF k, x
<1>3. package.deps = RewritePublished(disk, Catalog, x.deps) /\ package.files = CollectPackFiles(x)
  BY <1>1
<1>4. x.list = NONE => \A f \in DOMAIN x.files : f \in CollectPackFiles(x) <=> Wanted(x, f)
  BY <1>2, CollectRight
<1> HIDE DEF package
<1>5. ReadyIn(disk, k, package)
  BY <1>1, <1>3, <1>4 DEF ReadyIn, x
<1>6. ~Bump(p)
  BY <1>1 DEF Bump, At
<1>7. Quiet(disk', disk)
  BY <1>6, StepQuiet
<1>8. ReadyIn(disk', k, package)
  BY <1>2, <1>5, <1>7, ReadySame
<1>9. proc'[p].todo[1] = k
  BY <1>1 DEF k, Todo
<1> QED
  BY <1>8, <1>9 DEF package

LEMMA PublishingInit == Init => Publishing
<1> SUFFICES ASSUME Init PROVE Publishing
  OBVIOUS
<1>1. uploads = {} /\ \A p \in Process : proc[p] = Idle
  BY DEF Init
<1>2. Idle.at = "Idle" /\ Idle.cmd = NONE
  BY DEF Idle
<1> QED
  BY <1>1, <1>2 DEF Publishing, JobReady

\* A process that goes on with its command where it is.
LEMMA JobSame ==
    ASSUME NEW c, NEW d, DOMAIN c = DOMAIN d, \A k \in DOMAIN d : SameManifest(c[k], d[k]), NEW j, NEW i,
           JobReady(d, j), i.cmd = j.cmd, i.selected = j.selected,
           i.at = "Publish" => ReadyIn(c, i.todo[1], i.package)
    PROVE  JobReady(c, i)
<1>1. j.cmd # NONE /\ j.cmd.filters # NONE => ExactIn(d, j.cmd.filters, j.selected)
  BY DEF JobReady
<1>2. \A F, all : ExactIn(d, F, all) => ExactIn(c, F, all)
  BY ExactSame
<1> QED
  BY <1>1, <1>2 DEF JobReady

LEMMA UploadsKept ==
    ASSUME Publishing, DOMAIN disk' = DOMAIN disk, \A k \in DOMAIN disk : SameManifest(disk'[k], disk[k]),
           NEW u \in uploads
    PROVE  UploadRight(disk', u)
<1>1. UploadRight(disk, u)
  BY DEF Publishing
<1> QED
  BY <1>1, UploadSame

LEMMA PublishingStep ==
    ASSUME Typed, Publishing, NEW p \in Process, Step(p)
    PROVE  Publishing'
<1>1. DOMAIN disk' = DOMAIN disk /\ \A k \in DOMAIN disk : SameManifest(disk'[k], disk[k])
  BY StepEdits
<1>2. Keeps(p)
  BY StepKeeps DEF Typed
<1>3. ASSUME NEW u \in uploads' PROVE UploadRight(disk', u)
  <2>1. CASE u \in uploads
    BY <1>1, <2>1, UploadsKept
  <2>2. CASE u \notin uploads
    <3>1. /\ Publish(p) /\ At(p, "Publish") /\ u = Upload(p)
          /\ ~Refused(Upload(p).project, Upload(p).files, Upload(p).allow)
      BY <1>3, <2>2, StepUploads
    <3>2. ReadyIn(disk, Todo(p), proc[p].package)
      BY <3>1 DEF Publishing, JobReady, At, Todo
    <3>3. UploadRight(disk, u)
      BY <3>1, <3>2, UploadRightNow
    <3> QED
      BY <1>1, <3>3, UploadSame
  <2> QED
    BY <2>1, <2>2
<1>4. ASSUME NEW q \in Process, proc'[q].at = "Publish" PROVE ReadyIn(disk', proc'[q].todo[1], proc'[q].package)
  <2>1. CASE q = p
    BY <1>4, <2>1, PackReady
  <2>2. CASE q # p
    <3>1. proc'[q] = proc[q]
      BY <1>2, <2>2 DEF Keeps
    <3>2. proc[q].at = "Publish" /\ JobTyped(proc[q])
      BY <1>4, <3>1 DEF Typed
    <3>3. ReadyIn(disk, Todo(q), proc[q].package)
      BY <3>2 DEF Publishing, JobReady, Todo
    <3>4. ~Bump(p)
      BY <3>2 DEF Bump
    <3>5. Todo(q) \in DOMAIN disk /\ DOMAIN disk \subseteq Nat
      BY <3>2, TodoIn DEF Typed, Members
    <3>6. Quiet(disk', disk)
      BY <3>4, StepQuiet
    <3>7. ReadyIn(disk', Todo(q), proc[q].package)
      BY <3>3, <3>5, <3>6, ReadySame
    <3> QED
      BY <3>1, <3>7 DEF Todo
  <2> QED
    BY <2>1, <2>2
<1>5. ASSUME NEW q \in Process PROVE JobReady(disk', proc'[q])
  <2>1. proc'[q].cmd = proc[q].cmd /\ proc'[q].selected = proc[q].selected
    BY <1>2 DEF Keeps
  <2>2. JobReady(disk, proc[q])
    BY DEF Publishing
  <2>3. proc'[q].at = "Publish" => ReadyIn(disk', proc'[q].todo[1], proc'[q].package)
    BY <1>4
  <2> QED
    BY <1>1, <2>1, <2>2, <2>3, JobSame
<1> QED
  BY <1>3, <1>5 DEF Publishing

LEMMA PublishingBegin ==
    ASSUME Typed, Publishing, NEW p \in Process, Begin(p)
    PROVE  Publishing'
<1> DEFINE c == Head(script[p])
           j == proc'[p]
<1>1. UNCHANGED <<uploads, disk>>
  BY DEF Begin
<1>2. /\ \A q \in Process : q # p => proc'[q] = proc[q]
      /\ j.cmd = c /\ j.selected = Selection(c)
      /\ j.at = IF c.filters # NONE /\ Selection(c) = << >> THEN "Idle"
                ELSE IF c.kind = "login" THEN LoginWithFallback(c) ELSE First[c.kind]
  BY BeginIs DEF Typed
<1>3. IsCommand(j.cmd, DOMAIN disk)
  BY BeginTyped DEF Typed
<1> HIDE DEF j, c
<1>4. j.at # "Publish"
  <2>1. c.kind \in {"lookup", "login", "logout", "pack", "publish", "release", "bump"}
    BY <1>2, <1>3 DEF IsCommand
  <2>2. LoginWithFallback(c) # "Publish"
    BY DEF LoginWithFallback
  <2>3. c.kind # "login" => First[c.kind] # "Publish"
    BY <2>1 DEF First
  <2> QED
    BY <1>2, <2>2, <2>3
<1>5. c.filters # NONE => ExactIn(disk, c.filters, Selection(c))
  <2> DEFINE F == c.filters
  <2>1. IsWorkspace(disk)
    BY DEF Typed, Members, IsWorkspace
  <2>2. F # NONE => IsSeq(F) /\ \A i \in DOMAIN F : IsSelector(F[i])
    BY <1>2, <1>3 DEF IsCommand
  <2>3. F # NONE => Selection(c) = SelectProjects(disk, F)
    BY DEF Selection
  <2> HIDE DEF F
  <2>4. F # NONE => ExactIn(disk, F, SelectProjects(disk, F))
    BY <2>1, <2>2, SelectExact
  <2> QED
    BY <2>3, <2>4 DEF F
<1>6. JobReady(disk, j)
  BY <1>2, <1>4, <1>5 DEF JobReady
<1>7. \A q \in Process : JobReady(disk, proc'[q])
  BY <1>2, <1>6 DEF j, Publishing
<1> QED
  BY <1>1, <1>7 DEF Publishing

LEMMA PublishingNext == Typed /\ Publishing /\ [Next]_vars => Publishing'
<1> SUFFICES ASSUME Typed, Publishing, [Next]_vars PROVE Publishing'
  OBVIOUS
<1>1. CASE UNCHANGED vars
  BY <1>1 DEF vars, Publishing
<1>2. ASSUME NEW p \in Process, Step(p) PROVE Publishing'
  BY <1>2, PublishingStep
<1>3. ASSUME NEW p \in Process, Begin(p) PROVE Publishing'
  BY <1>3, PublishingBegin
<1>4. ASSUME NEW p \in Process, Kill(p) PROVE Publishing'
  <2>1. UNCHANGED <<uploads, disk>> /\ EndWith(p, NONE)
    BY <1>4 DEF Kill
  <2>2. Keeps(p) /\ proc'[p].at = "Idle"
    BY <2>1, EndWithIs DEF Typed
  <2>3. ASSUME NEW q \in Process PROVE JobReady(disk, proc'[q])
    <3>1. JobReady(disk, proc[q])
      BY DEF Publishing
    <3> QED
      BY <2>2, <3>1 DEF Keeps, JobReady
  <2> QED
    BY <2>1, <2>3 DEF Publishing
<1>5. CASE Day
  BY <1>5 DEF Day, Publishing
<1> QED
  BY <1>1, <1>2, <1>3, <1>4, <1>5 DEF Next

LEMMA FiltersImplied == Publishing => FilterExact
<1> SUFFICES ASSUME Publishing, NEW p \in Process, proc[p].cmd # NONE, proc[p].cmd.filters # NONE
             PROVE  LET F == proc[p].cmd.filters
                        all == proc[p].selected
                        excluded(k) == \E j \in DOMAIN F : F[j].exclude /\ Wants(F[j], k)
                        included(k) == \/ \A j \in DOMAIN F : F[j].exclude
                                       \/ \E j \in DOMAIN F : ~F[j].exclude /\ Wants(F[j], k)
                    IN /\ \A i, j \in DOMAIN all : i < j => all[i] < all[j]
                       /\ \A k \in DOMAIN disk :
                              (\E j \in DOMAIN all : all[j] = k)
                                  <=> included(k) /\ ~excluded(k) /\ \A j \in DOMAIN F : ~ParseFails(F[j])
  BY DEF FilterExact
<1> DEFINE F == proc[p].cmd.filters
           all == proc[p].selected
<1>1. ExactIn(disk, F, all)
  BY DEF Publishing, JobReady
<1>2. ASSUME NEW s, NEW k PROVE Wants(s, k) <=> WantsIn(disk, s, k)
  <2>1. \A edges, seeds : Reached(edges, seeds) = ReachedIn(DOMAIN disk, edges, seeds)
    BY DEF Reached, ReachedIn
  <2> DEFINE seeds == SeedsIn(disk, s)
             down == DownIn(disk, s)
             up == UpIn(disk, s)
  <2>2. Wants(s, k) <=> IF k \in seeds THEN ~s.bare
                        ELSE (s.below /\ k \in Reached(down, seeds)) \/ (s.above /\ k \in Reached(up, seeds))
    BY DEF Wants, SeedsIn, DownIn, UpIn
  <2> HIDE DEF seeds, down, up
  <2>3. Wants(s, k) <=> IF k \in seeds THEN ~s.bare
                        ELSE (s.below /\ k \in ReachedIn(DOMAIN disk, down, seeds))
                             \/ (s.above /\ k \in ReachedIn(DOMAIN disk, up, seeds))
    BY <2>1, <2>2
  <2> QED
    BY <2>3 DEF WantsIn, seeds, down, up
<1> HIDE DEF F, all
<1>3. /\ \A i, j \in DOMAIN all : i < j => all[i] < all[j]
      /\ \A k \in DOMAIN disk :
             (\E j \in DOMAIN all : all[j] = k)
                 <=> /\ (\A j \in DOMAIN F : F[j].exclude) \/ (\E j \in DOMAIN F : ~F[j].exclude /\ Wants(F[j], k))
                     /\ ~ \E j \in DOMAIN F : F[j].exclude /\ Wants(F[j], k)
                     /\ \A j \in DOMAIN F : ~ParseFails(F[j])
  BY <1>1, <1>2 DEF ExactIn
<1> QED
  BY <1>3 DEF F, all

LEMMA PublishingImplies == Publishing => PublishedRight
<1> SUFFICES ASSUME Publishing PROVE PublishedRight
  OBVIOUS
<1>1. \A u \in uploads : Cleared(u) /\ InstallableIn(disk, u) /\ Complete(u)
  BY DEF Publishing, UploadRight
<1>2. NothingBlocked
  BY <1>1 DEF NothingBlocked, Cleared
<1>3. Installable
  BY <1>1 DEF Installable, InstallableIn
<1>4. PackedRight
  BY <1>1 DEF PackedRight, Complete, Wanted
<1> QED
  BY <1>2, <1>3, <1>4, FiltersImplied DEF PublishedRight

-----------------------------------------------------------------------------
(* Theorems                                                                *)

\* The shapes of the state: the rc file is a list of lines, the projects of the workspace
\* keep their places, a process that is in the middle of a command has one of the right kind
\* and projects that are left to do, and the copy of the shard that it will write is a whole one.
THEOREM RegistryTyped == Spec => []Typed
<1>1. Init => Typed
  BY TypedInit
<1>2. Typed /\ [Next]_vars => Typed'
  BY TypedNext
<1> QED
  BY <1>1, <1>2, PTL DEF Spec

\* A lookup answers with what the registry has, or had so short a time ago as the settings
\* allow, for any number of processes that overwrite each other's shard, except for names
\* whose record was replaced beside a lookup of the same name (fetch_package,
\* handle_registry_response, write_record_update).
THEOREM RegistryLookupRight == Spec => []LookupRight
<1> DEFINE Inv == Typed /\ Look /\ TarballsRight
<1>1. Init => Inv
  BY TypedInit, LookInit, TarballsInit
<1>2. Inv /\ [Next]_vars => Inv'
  BY TypedNext, LookNext, TarballsNext
<1>3. Inv => LookupRight
  BY LookImplies
<1> QED
  BY <1>1, <1>2, <1>3, PTL DEF Spec

\* What a login or a logout has said of a host and of a scope is what the requests that follow
\* go by, whatever the rc file held before and however commands of other processes
\* come in between (save_credentials, logout, authorization_header_for_url, publish_registry).
THEOREM RegistryCredentialsHold == Spec => []CredentialsHold
<1> DEFINE Inv == Typed /\ Session
<1>1. Init => Inv
  BY TypedInit, SessionInit
<1>2. Inv /\ [Next]_vars => Inv'
  BY TypedNext, SessionNext
<1>3. Inv => CredentialsHold
  BY SessionImplies
<1> QED
  BY <1>1, <1>2, <1>3, PTL DEF Spec

\* Whatever is published was selected, has all its files and no other, nothing that
\* blocks and a manifest that needs no workspace, although other processes pack,
\* publish and clean up the same projects meanwhile (publish, collect_pack_files,
\* rewrite_published_manifest, apply_selectors).
THEOREM RegistryPublishedRight == Spec => []PublishedRight
<1> DEFINE Inv == Typed /\ Publishing
<1>1. Init => Inv
  BY TypedInit, PublishingInit
<1>2. Inv /\ [Next]_vars => Inv'
  BY TypedNext, PublishingNext
<1>3. Inv => PublishedRight
  BY PublishingImplies
<1> QED
  BY <1>1, <1>2, <1>3, PTL DEF Spec

\* The walk over the graph of the workspace finds just what can be reached from the seeds,
\* in a graph of any size and with any cycles: as many rounds as there are projects that
\* something depends on are enough (walk_dependencies, walk_dependents).
THEOREM WalkFindsAll ==
    ASSUME NEW D, IsFiniteSet(D), NEW edges, edges \subseteq D \X D, NEW seeds
    PROVE  Walk(edges, seeds) = ReachedIn(D, edges, seeds)
  BY WalkIs

\* A project without a list of files is packed with just those that its manifest names, that are
\* mandatory, or that no nearest ignore file leaves out, for any tree of directories
\* and any ignore files (collect_pack_files, is_ignored).
THEOREM PacksJustTheWanted ==
    ASSUME NEW x, IsProject(x), x.list = NONE, NEW f \in DOMAIN x.files
    PROVE  f \in CollectPackFiles(x) <=> Wanted(x, f)
  BY CollectRight

=============================================================================
