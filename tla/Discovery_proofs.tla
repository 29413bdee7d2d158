--------------------------- MODULE Discovery_proofs ---------------------------
(***************************************************************************)
(* Settings and discovery runs, for any number of runs, tasks and          *)
(* submissions of the form: what the form saved is what is used, every     *)
(* task is given a limit in range, and no run is forgotten; and, whatever  *)
(* the network answers and in whatever order, what a run offers is the     *)
(* best of it. The latter goes by induction over the answers.              *)
(***************************************************************************)
EXTENDS Discovery, AtLeastOnceQueue_proofs, WellFoundedInduction, FiniteSetTheorems

Handles(t) == phase[t] = "executing"

\* A submission is saved from its first key on, over any of the values before.
SavedSoFar ==
    saving # NoSave =>
        /\ saving.next \in 1..8
        /\ \E v \in Submissions :
             /\ saving = [values |-> v, next |-> saving.next]
             /\ \A i \in 1..8 : i < saving.next => stored[KeyOrder[i]] = v[KeyOrder[i]]

\* SettingsTakeEffect, before the next submission has saved its first key too.
Settled ==
    submitted # Unknown =>
        /\ Used = submitted
        /\ saving # NoSave => saving.next = 1

StoredTyped == stored \in [Keys -> Int \cup {NoRow, NoNumber}]

\* The rows of the runs, whatever their results are.
Fields == {"state", "kind", "network", "results", "error"}
RunsTyped ==
    /\ run = [r \in Runs |-> run[r]]
    /\ \A r \in Runs : run[r] = [f \in Fields |-> run[r][f]]
    /\ runOf \in [Tasks -> SUBSET Runs]

\* A handler that is over has saved how its run ended.
EndsSaved ==
    \A t \in Tasks, r \in Runs : Handles(t) /\ runOf[t] = {r} =>
        /\ pc = "return" => run[r].state = "complete"
        /\ pc = "raise" => run[r].state = "failed"

\* The requests and the handler are where they can be.
PlacesOK ==
    /\ starting \cup dropped \subseteq Runs
    /\ pc \in {"idle", "begin", "discovering", "return", "raise"}

\* A row and what its last discovery to complete had found: the row offers the best of
\* it, and of a LAN scan all of it lies in the network.
OfferOK(row, found) ==
    /\ row.state \in {"absent", "pending", "running", "complete", "failed"}
    /\ row.kind \in {"mdns", "lan"} /\ row.network \in Networks \cup {NoNetwork}
    /\ row.error \in BOOLEAN
    /\ row.state = "absent" => found = <<>>
    /\ \A x \in Range1(found) :
        /\ x.type \in {"printer", "scanner"}
        /\ row.kind = "lan" => x.address \in row.network.addresses
    /\ BestOf(row.kind, found, row.results)

OffersOK == heard = [r \in Runs |-> heard[r]] /\ \A r \in Runs : OfferOK(run[r], heard[r])

IInv ==
    /\ QueueOK /\ StoredTyped /\ SavedSoFar /\ Settled
    /\ RunsTyped /\ EndsSaved /\ PlacesOK /\ OffersOK
    /\ RunHasTask /\ LimitsAreSane /\ SettingsTakeEffect
-----------------------------------------------------------------------------
(* Settings.                                                               *)

\* What get_int returns lies between the bounds of the use, whatever is stored ...
LEMMA GetIntInRange ==
    ASSUME NEW text, NEW default \in Int, NEW minimum \in Int, NEW maximum \in Int,
           minimum <= maximum
    PROVE  GetInt(text, default, minimum, maximum) \in minimum..maximum
BY DEF GetInt

\* ... and is what is stored when that does.
LEMMA GetIntKeeps ==
    ASSUME NEW default \in Int, NEW minimum \in Int, NEW maximum \in Int,
           NEW text \in minimum..maximum
    PROVE  GetInt(text, default, minimum, maximum) = text
BY DEF GetInt

LEMMA KeysAre ==
    /\ DOMAIN KeyOrder = 1..8 /\ Len(KeyOrder) = 8
    /\ \A i \in 1..8 : KeyOrder[i] \in Keys
    /\ Keys = {"session_timeout_minutes", "discovery_seconds", "scan_timeout_minutes",
               "office_conversion_timeout_seconds", "task_retry_limit", "print_retention_hours",
               "scan_retention_days", "max_upload_mb"}
    /\ \A i, j \in 1..8 : KeyOrder[i] = KeyOrder[j] => i = j
BY DEF Keys, KeyOrder

LEMMA SubmissionTypes ==
    ASSUME NEW v \in Submissions
    PROVE  v \in [Keys -> Int]
<1>1. PICK bound \in {1, 2} : v = [k \in Keys |-> Accepted[k][bound]]
  BY DEF Submissions
<1>2. \A k \in Keys : Accepted[k][bound] \in Int
  BY KeysAre DEF Accepted
<1> QED BY <1>1, <1>2

\* Every submission is in the range of every use, so it is used as it is stored.
LEMMA SubmissionIsUsed ==
    ASSUME NEW v \in Submissions, stored' = v
    PROVE  Used' = v
BY KeysAre, GetIntKeeps DEF Submissions, Used, Accepted, SessionMinutes, DiscoverySeconds,
   ScanMinutes, ConversionSeconds, RetryLimit, PrintHours, ScanDays, UploadMegabytes

LEMMA SameUsed == UNCHANGED stored => Used' = Used
BY DEF Used, SessionMinutes, DiscoverySeconds, ScanMinutes, ConversionSeconds, RetryLimit,
   PrintHours, ScanDays, UploadMegabytes

\* The limit of a new task.
LEMMA LimitInRange == RetryLimit \in 1..10
BY GetIntInRange DEF RetryLimit

LEMMA SettingsKept ==
    ASSUME StoredTyped, SavedSoFar, Settled, [SettingsNext]_settingsVars
    PROVE  StoredTyped' /\ SavedSoFar' /\ Settled'
<1>1. ASSUME NEW v \in Submissions, BeginSave(v)
      PROVE  StoredTyped' /\ SavedSoFar' /\ Settled'
  <2>1. saving' = [values |-> v, next |-> 1] /\ UNCHANGED <<stored, submitted>>
        /\ saving = NoSave /\ saving'.next = 1
    BY <1>1 DEF BeginSave
  <2> QED BY <2>1, SameUsed DEF StoredTyped, SavedSoFar, Settled
<1>2. ASSUME SaveKey PROVE StoredTyped' /\ SavedSoFar' /\ Settled'
  <2>1. saving # NoSave
    BY <1>2 DEF SaveKey
  <2> PICK n \in 1..8, v \in Submissions :
         /\ saving = [values |-> v, next |-> n]
         /\ \A i \in 1..8 : i < n => stored[KeyOrder[i]] = v[KeyOrder[i]]
    BY <2>1 DEF SavedSoFar
  <2>2. saving.values = v /\ saving.next = n
    OBVIOUS
  <2>3. /\ stored' = [stored EXCEPT ![KeyOrder[n]] = v[KeyOrder[n]]]
        /\ n = 8 => saving' = NoSave /\ submitted' = v
        /\ n # 8 => saving' = [saving EXCEPT !.next = @ + 1] /\ submitted' = Unknown
    BY <1>2, <2>2, KeysAre DEF SaveKey
  <2>4. v \in [Keys -> Int] /\ KeyOrder[n] \in Keys
    BY SubmissionTypes, KeysAre
  <2>5. StoredTyped'
    BY <2>3, <2>4 DEF StoredTyped
  <2>6. \A i \in 1..8 : i < n + 1 => stored'[KeyOrder[i]] = v[KeyOrder[i]]
    <3> SUFFICES ASSUME NEW i \in 1..8, i < n + 1 PROVE stored'[KeyOrder[i]] = v[KeyOrder[i]]
      OBVIOUS
    <3>1. CASE i = n
      BY <2>3, <2>4, <3>1 DEF StoredTyped
    <3>2. CASE i < n
      <4>1. KeyOrder[i] # KeyOrder[n] /\ KeyOrder[i] \in Keys
        BY <3>2, KeysAre
      <4> QED BY <2>3, <2>4, <3>2, <4>1 DEF StoredTyped
    <3> QED BY <3>1, <3>2
  <2>7. CASE n = 8
    <3>1. \A k \in Keys : stored'[k] = v[k]
      BY <2>6, <2>7, KeysAre DEF Keys
    <3>2. stored' = v
      BY <2>4, <2>5, <3>1 DEF StoredTyped
    <3>3. Used' = v
      BY <3>2, SubmissionIsUsed
    <3> QED BY <2>3, <2>5, <2>7, <3>3 DEF SavedSoFar, Settled
  <2>8. CASE n # 8
    <3>1. saving' = [values |-> v, next |-> n + 1] /\ saving'.next = n + 1
      BY <2>3, <2>8
    <3>2. n + 1 \in 1..8 /\ submitted' = Unknown
      BY <2>3, <2>8
    <3>3. SavedSoFar'
      BY <2>6, <3>1, <3>2 DEF SavedSoFar
    <3> QED BY <2>5, <3>2, <3>3 DEF Settled
  <2> QED BY <2>7, <2>8
<1>3. ASSUME SaveDies PROVE StoredTyped' /\ SavedSoFar' /\ Settled'
  BY <1>3, SameUsed DEF SaveDies, StoredTyped, SavedSoFar, Settled
<1>4. ASSUME UNCHANGED settingsVars PROVE StoredTyped' /\ SavedSoFar' /\ Settled'
  BY <1>4, SameUsed DEF settingsVars, StoredTyped, SavedSoFar, Settled
<1> QED BY <1>1, <1>2, <1>3, <1>4 DEF SettingsNext

-----------------------------------------------------------------------------
(* The loops over the results.                                             *)

\* The least element of a set of numbers, from the well-foundedness of < ...
LEMMA LeastOf == \A S \in SUBSET Nat : S # {} => \E n \in S : \A m \in S : n <= m
<1>1. IsWellFoundedOn(OpToRel(<, Nat), Nat)
  BY NatLessThanWellFounded
<1> DEFINE R == OpToRel(<, Nat)
<1> SUFFICES ASSUME NEW S \in SUBSET Nat, S # {} PROVE \E n \in S : \A m \in S : n <= m
  OBVIOUS
<1>2. \A m, n \in Nat : m < n => <<m, n>> \in R
  BY DEF OpToRel
<1> HIDE DEF R
<1>3. PICK n \in S : \A m \in S : ~ (<<m, n>> \in R)
  BY <1>1, WFMin DEF R
<1>4. \A m \in S : ~ (m < n)
  BY <1>2, <1>3
<1> QED BY <1>4

\* ... and induction with it: a set that has 0 and, with a number, the next has them all.
LEMMA InductOver ==
    ASSUME NEW S, 0 \in S, \A n \in Nat : n \in S => n + 1 \in S
    PROVE  Nat \subseteq S
<1> SUFFICES ASSUME Nat \ S # {} PROVE FALSE
  OBVIOUS
<1>1. PICK n \in Nat \ S : \A m \in Nat \ S : n <= m
  BY LeastOf
<1> QED BY <1>1

\* Max, by which the library's FoldLeft takes the elements from the last to the first.
LEMMA GreatestOf ==
    ASSUME NEW n \in Nat, NEW s \in SUBSET (1..n), s # {}
    PROVE  /\ Max(s) \in s /\ \A m \in s : m <= Max(s)
<1> DEFINE T == {k \in Nat : \E j \in s : j = n - k}
<1>1. T # {}
  <2>1. PICK j \in s : TRUE
    OBVIOUS
  <2>2. n - j \in Nat /\ j = n - (n - j)
    OBVIOUS
  <2> QED BY <2>2
<1>2. PICK k \in T : \A m \in T : k <= m
  BY <1>1, LeastOf
<1>3. n - k \in s
  BY <1>2
<1>4. \A m \in s : m <= n - k
  <2> SUFFICES ASSUME NEW m \in s PROVE m <= n - k
    OBVIOUS
  <2>1. n - m \in T
    OBVIOUS
  <2> QED BY <1>2, <2>1
<1> QED BY <1>3, <1>4 DEF Max

\* The step of the loop of either kind of run.
Take(kind, selected, x) ==
    IF kind = "lan" THEN TakeBest(selected, x) ELSE TakeLast(selected, x)

\* The recursion by which FoldLeft is defined, over sets of indices ...
SelectsUpTo(kind, results, n, it) ==
    it = [s \in SUBSET (1..n) |->
            IF s = {} THEN <<>> ELSE Take(kind, it[s \ {Max(s)}], results[Max(s)])]

\* ... has a solution for any number of results.
LEMMA SelectionExists ==
    ASSUME NEW kind, NEW results, NEW len \in Nat
    PROVE  \E it : SelectsUpTo(kind, results, len, it)
<1> DEFINE S == {n \in Nat : \E it : SelectsUpTo(kind, results, n, it)}
<1>1. 0 \in S
  <2> DEFINE it == [s \in SUBSET (1..0) |-> <<>>]
  <2>1. \A s \in SUBSET (1..0) : s = {}
    OBVIOUS
  <2>2. SelectsUpTo(kind, results, 0, it)
    BY <2>1 DEF SelectsUpTo
  <2> QED BY <2>2
<1>2. ASSUME NEW n \in Nat, n \in S PROVE n + 1 \in S
  <2> PICK g : SelectsUpTo(kind, results, n, g)
    BY <1>2
  <2> DEFINE it == [s \in SUBSET (1..(n + 1)) |->
           IF n + 1 \in s THEN Take(kind, g[s \ {n + 1}], results[n + 1]) ELSE g[s]]
  <2>1. ASSUME NEW s \in SUBSET (1..(n + 1)), n + 1 \in s
        PROVE  Max(s) = n + 1 /\ s # {} /\ s \ {n + 1} \in SUBSET (1..n)
               /\ it[s \ {n + 1}] = g[s \ {n + 1}]
    <3> HIDE DEF it
    <3>1. Max(s) \in s /\ n + 1 <= Max(s)
      BY <2>1, GreatestOf
    <3>6. \A i \in s : i \in Nat /\ i <= n + 1
      OBVIOUS
    <3>2. Max(s) \in Nat /\ Max(s) <= n + 1
      BY <3>1, <3>6
    <3>5. Max(s) = n + 1
      BY <3>1, <3>2
    <3>3. s \ {n + 1} \in SUBSET (1..n) /\ n + 1 \notin s \ {n + 1}
      OBVIOUS
    <3>4. s \ {n + 1} \in SUBSET (1..(n + 1))
      OBVIOUS
    <3> QED BY <2>1, <3>5, <3>3, <3>4 DEF it
  <2>2. ASSUME NEW s \in SUBSET (1..(n + 1)), n + 1 \notin s, s # {}
        PROVE  s \in SUBSET (1..n) /\ s \ {Max(s)} \in SUBSET (1..n)
               /\ it[s \ {Max(s)}] = g[s \ {Max(s)}]
    <3> HIDE DEF it
    <3>3. \A i \in 1..(n + 1) : i # n + 1 => i \in 1..n
      OBVIOUS
    <3>1. s \in SUBSET (1..n) /\ s \ {Max(s)} \in SUBSET (1..n)
      BY <2>2, <3>3
    <3> USE DEF it
    <3>2. n + 1 \notin s \ {Max(s)} /\ s \ {Max(s)} \in SUBSET (1..(n + 1))
      BY <2>2
    <3> QED BY <3>1, <3>2
  <2>3. ASSUME NEW s \in SUBSET (1..(n + 1))
        PROVE  it[s] = IF s = {} THEN <<>>
                       ELSE Take(kind, it[s \ {Max(s)}], results[Max(s)])
    <3>1. CASE n + 1 \in s
      BY <2>1, <3>1
    <3>2. CASE n + 1 \notin s
      <4>1. it[s] = g[s] /\ s \in SUBSET (1..n)
        BY <3>2
      <4>2. g[s] = IF s = {} THEN <<>> ELSE Take(kind, g[s \ {Max(s)}], results[Max(s)])
        BY <4>1 DEF SelectsUpTo
      <4> QED BY <2>2, <3>2, <4>1, <4>2
    <3> QED BY <3>1, <3>2
  <2> HIDE DEF it
  <2>4. SelectsUpTo(kind, results, n + 1, it)
    BY <2>3 DEF SelectsUpTo, it
  <2> QED BY <2>4
<1> QED BY <1>1, <1>2, InductOver

\* What a run offers of what was found.
Offered(kind, results) ==
    IF kind = "lan" THEN Deduplicated(results) ELSE LastAnnounced(results)

\* The dictionary of the loop after each of the results.
LEMMA LoopOver ==
    ASSUME NEW kind, NEW results, NEW len \in Nat, DOMAIN results = 1..len
    PROVE  \E after : /\ after = [i \in 0..len |-> after[i]]
                      /\ after[0] = <<>>
                      /\ \A i \in 1..len : after[i] = Take(kind, after[i - 1], results[i])
                      /\ Offered(kind, results) = Range1(after[len])
<1>1. PICK it : /\ SelectsUpTo(kind, results, len, it)
                /\ Offered(kind, results) = Range1(it[DOMAIN results])
  <2>1. CASE kind = "lan"
    <3> DEFINE best == CHOOSE g : g = [s \in SUBSET DOMAIN results |->
                  IF s = {} THEN <<>> ELSE TakeBest(g[s \ {Max(s)}], results[Max(s)])]
    <3>1. FoldLeft(TakeBest, <<>>, results) = best[DOMAIN results]
      BY DEF FoldLeft, MapThenFoldSet
    <3>2. \E g : g = [s \in SUBSET DOMAIN results |->
                  IF s = {} THEN <<>> ELSE TakeBest(g[s \ {Max(s)}], results[Max(s)])]
      <4> PICK g : SelectsUpTo(kind, results, len, g)
        BY SelectionExists
      <4>1. \A selected, x : Take(kind, selected, x) = TakeBest(selected, x)
        BY <2>1 DEF Take
      <4>2. g = [s \in SUBSET DOMAIN results |->
                  IF s = {} THEN <<>> ELSE TakeBest(g[s \ {Max(s)}], results[Max(s)])]
        BY <4>1 DEF SelectsUpTo
      <4> QED BY <4>2
    <3>3. SelectsUpTo(kind, results, len, best)
      BY <2>1, <3>2 DEF SelectsUpTo, Take
    <3> HIDE DEF best
    <3> QED BY <2>1, <3>1, <3>3 DEF Offered, Deduplicated
  <2>2. CASE kind # "lan"
    <3> DEFINE last == CHOOSE g : g = [s \in SUBSET DOMAIN results |->
                  IF s = {} THEN <<>> ELSE TakeLast(g[s \ {Max(s)}], results[Max(s)])]
    <3>1. FoldLeft(TakeLast, <<>>, results) = last[DOMAIN results]
      BY DEF FoldLeft, MapThenFoldSet
    <3>2. \E g : g = [s \in SUBSET DOMAIN results |->
                  IF s = {} THEN <<>> ELSE TakeLast(g[s \ {Max(s)}], results[Max(s)])]
      <4> PICK g : SelectsUpTo(kind, results, len, g)
        BY SelectionExists
      <4>1. \A selected, x : Take(kind, selected, x) = TakeLast(selected, x)
        BY <2>2 DEF Take
      <4>2. g = [s \in SUBSET DOMAIN results |->
                  IF s = {} THEN <<>> ELSE TakeLast(g[s \ {Max(s)}], results[Max(s)])]
        BY <4>1 DEF SelectsUpTo
      <4> QED BY <4>2
    <3>3. SelectsUpTo(kind, results, len, last)
      BY <2>2, <3>2 DEF SelectsUpTo, Take
    <3> HIDE DEF last
    <3> QED BY <2>2, <3>1, <3>3 DEF Offered, LastAnnounced
  <2> QED BY <2>1, <2>2
<1> DEFINE after == [i \in 0..len |-> it[1..i]]
<1>2. after[0] = <<>>
  <2>1. 1..0 = {} /\ 1..0 \in SUBSET (1..len)
    OBVIOUS
  <2> QED BY <1>1, <2>1 DEF SelectsUpTo
<1>3. ASSUME NEW i \in 1..len PROVE after[i] = Take(kind, after[i - 1], results[i])
  <2>1. 1..i \in SUBSET (1..len) /\ 1..i # {} /\ i \in 1..i /\ i \in Nat
    OBVIOUS
  <2>2. Max(1..i) \in 1..i /\ i <= Max(1..i)
    BY <2>1, GreatestOf
  <2>3. Max(1..i) = i
    <3>1. \A j \in 1..i : i <= j => j = i
      OBVIOUS
    <3> QED BY <2>2, <3>1
  <2>4. (1..i) \ {i} = 1..(i - 1)
    OBVIOUS
  <2>5. it[1..i] = Take(kind, it[1..(i - 1)], results[i])
    BY <1>1, <2>1, <2>3, <2>4 DEF SelectsUpTo
  <2> QED BY <2>5
<1>4. Offered(kind, results) = Range1(after[len])
  BY <1>1
<1> HIDE DEF after
<1>5. after = [i \in 0..len |-> after[i]]
  BY DEF after
<1> QED BY <1>2, <1>3, <1>4, <1>5

\* The key a result is selected by.
KeyOf(kind, x) ==
    IF kind = "lan" /\ x.type = "scanner" THEN <<"scanner", x.address>> ELSE <<x.type, x.uri>>

LEMMA KeysTell ==
    ASSUME NEW kind, NEW x, NEW y
    PROVE  KeyOf(kind, x) = KeyOf(kind, y) <=>
               /\ x.type = y.type
               /\ IF kind = "lan" /\ x.type = "scanner" THEN x.address = y.address
                  ELSE x.uri = y.uri
BY DEF KeyOf

LEMMA Priorities == \A protocol : Priority(protocol) \in Nat
<1> TAKE protocol
<1>1. CASE protocol = "airscan-escl"
  BY <1>1 DEF Priority
<1>2. CASE protocol = "airscan-wsd"
  BY <1>2 DEF Priority
<1>3. CASE protocol = "hpaio"
  BY <1>3 DEF Priority
<1>4. CASE protocol \notin {"airscan-escl", "airscan-wsd", "hpaio"}
  BY <1>4 DEF Priority
<1> QED BY <1>1, <1>2, <1>3, <1>4

\* Dictionary g is f after result x was taken, under the key.
Takes(kind, f, x, key, g) ==
    /\ g = [k \in DOMAIN g |-> g[k]]
    /\ DOMAIN g = DOMAIN f \cup {key}
    /\ \A k \in DOMAIN f : k # key => g[k] = f[k]
    /\ g[key] = IF /\ kind = "lan" /\ x.type = "scanner" /\ key \in DOMAIN f
                   /\ ~ Preferred(x, f[key])
                THEN f[key] ELSE x

LEMMA TakeTakes ==
    ASSUME NEW kind, NEW f, f = [k \in DOMAIN f |-> f[k]], NEW x
    PROVE  Takes(kind, f, x, KeyOf(kind, x), Take(kind, f, x))
<1> PICK key : key = KeyOf(kind, x)
  OBVIOUS
<1> PICK g : g = Take(kind, f, x)
  OBVIOUS
<1> DEFINE kept == /\ kind = "lan" /\ x.type = "scanner" /\ key \in DOMAIN f
                   /\ ~ Preferred(x, f[key])
<1>1. g = IF kept THEN f ELSE Put(f, key, x)
  BY DEF Take, TakeBest, TakeLast, KeyOf
<1>2. Put(f, key, x) = [k \in DOMAIN f \cup {key} |-> IF k = key THEN x ELSE f[k]]
  BY DEF Put
<1>3. g = [k \in DOMAIN g |-> g[k]] /\ DOMAIN g = DOMAIN f \cup {key}
  <2>1. CASE kept
    BY <1>1, <2>1
  <2>2. CASE ~ kept
    <3>1. g = [k \in DOMAIN f \cup {key} |-> IF k = key THEN x ELSE f[k]]
      BY <1>1, <1>2, <2>2
    <3> QED BY <3>1
  <2> QED BY <2>1, <2>2
<1>4. \A k \in DOMAIN f : k # key => g[k] = f[k]
  BY <1>1, <1>2
<1>5. g[key] = IF kept THEN f[key] ELSE x
  BY <1>1, <1>2
<1> QED BY <1>3, <1>4, <1>5 DEF Takes

\* What the dictionary holds after the first n results.
Chosen(kind, results, n, f) ==
    /\ f = [k \in DOMAIN f |-> f[k]]
    /\ \A k \in DOMAIN f : \E j \in 1..n : f[k] = results[j] /\ KeyOf(kind, results[j]) = k
    /\ \A j \in 1..n :
        LET x == results[j]
            k == KeyOf(kind, x) IN
        /\ k \in DOMAIN f
        /\ IF kind = "lan" /\ x.type = "scanner"
           THEN Priority(f[k].protocol) <= Priority(x.protocol)
           ELSE x # f[k] => \E m \in (j + 1)..n : results[m] = f[k]

\* The loop keeps it ...
LEMMA ChosenNext ==
    ASSUME NEW kind, NEW results, NEW n \in Nat, NEW f, Chosen(kind, results, n, f),
           NEW g, g = Take(kind, f, results[n + 1])
    PROVE  Chosen(kind, results, n + 1, g)
<1> PICK x : x = results[n + 1]
  OBVIOUS
<1> PICK key : key = KeyOf(kind, x)
  OBVIOUS
<1> DEFINE scans == kind = "lan" /\ x.type = "scanner"
<1>1. f = [k \in DOMAIN f |-> f[k]]
  BY DEF Chosen
<1>2. /\ g = [k \in DOMAIN g |-> g[k]]
      /\ DOMAIN g = DOMAIN f \cup {key}
      /\ \A k \in DOMAIN f : k # key => g[k] = f[k]
      /\ g[key] = IF scans /\ key \in DOMAIN f /\ ~ Preferred(x, f[key]) THEN f[key] ELSE x
  <2>1. Takes(kind, f, x, key, g)
    BY <1>1, TakeTakes
  <2> QED BY <2>1 DEF Takes
<1>3. 1..(n + 1) = 1..n \cup {n + 1}
  OBVIOUS
<1>4. ASSUME NEW k \in DOMAIN g
      PROVE  \E j \in 1..(n + 1) : g[k] = results[j] /\ KeyOf(kind, results[j]) = k
  <2>1. CASE k \in DOMAIN f /\ g[k] = f[k]
    BY <1>3, <2>1 DEF Chosen
  <2>2. CASE k = key /\ g[k] = x
    BY <1>3, <2>2
  <2> QED BY <1>2, <2>1, <2>2
<1>5. ASSUME NEW j \in 1..n,
             NEW y, y = results[j], NEW k, k = KeyOf(kind, y)
      PROVE  /\ k \in DOMAIN g
             /\ IF kind = "lan" /\ y.type = "scanner"
                THEN Priority(g[k].protocol) <= Priority(y.protocol)
                ELSE y # g[k] => \E m \in (j + 1)..(n + 1) : results[m] = g[k]
  <2>1. /\ k \in DOMAIN f
        /\ IF kind = "lan" /\ y.type = "scanner"
           THEN Priority(f[k].protocol) <= Priority(y.protocol)
           ELSE y # f[k] => \E m \in (j + 1)..n : results[m] = f[k]
    BY <1>5 DEF Chosen
  <2>2. (j + 1)..n \subseteq (j + 1)..(n + 1) /\ n + 1 \in (j + 1)..(n + 1)
    OBVIOUS
  <2>3. CASE g[k] = f[k]
    BY <1>2, <2>1, <2>2, <2>3
  <2>4. CASE k = key /\ g[k] = x
    <3>1. x.type = y.type
      <4>1. KeyOf(kind, x) = KeyOf(kind, y)
        BY <1>5, <2>4
      <4> QED BY <4>1, KeysTell
    <3>2. CASE kind = "lan" /\ y.type = "scanner"
      <4>1. CASE Preferred(x, f[key])
        <5>1. Priority(x.protocol) < Priority(f[k].protocol)
          BY <2>4, <4>1 DEF Preferred
        <5> QED BY <1>2, <2>1, <2>4, <3>2, <5>1, Priorities
      <4>2. CASE ~ Preferred(x, f[key])
        BY <1>2, <2>1, <2>3, <2>4, <3>1, <3>2, <4>2
      <4> QED BY <4>1, <4>2
    <3>3. CASE ~ (kind = "lan" /\ y.type = "scanner")
      BY <1>2, <2>1, <2>2, <2>4, <3>3
    <3> QED BY <3>2, <3>3
  <2> QED BY <1>2, <2>1, <2>3, <2>4
<1>6. /\ key \in DOMAIN g
      /\ IF scans THEN Priority(g[key].protocol) <= Priority(x.protocol) ELSE x = g[key]
  <2>1. CASE g[key] = x
    BY <1>2, <2>1, Priorities
  <2>2. CASE scans /\ key \in DOMAIN f /\ ~ Preferred(x, f[key]) /\ g[key] = f[key]
    BY <1>2, <2>2, Priorities DEF Preferred
  <2> QED BY <1>2, <2>1, <2>2
<1>7. ASSUME NEW j \in 1..(n + 1)
      PROVE  LET y == results[j]
                 k == KeyOf(kind, y) IN
             /\ k \in DOMAIN g
             /\ IF kind = "lan" /\ y.type = "scanner"
                THEN Priority(g[k].protocol) <= Priority(y.protocol)
                ELSE y # g[k] => \E m \in (j + 1)..(n + 1) : results[m] = g[k]
  <2>1. CASE j \in 1..n
    BY <1>5, <2>1
  <2>2. CASE j = n + 1
    BY <1>6, <2>2
  <2> QED BY <1>3, <2>1, <2>2
<1> HIDE DEF scans
<1> QED BY <1>2, <1>4, <1>7 DEF Chosen

\* ... to its end ...
LEMMA ChosenAtEnd ==
    ASSUME NEW kind, NEW results, NEW len \in Nat, DOMAIN results = 1..len
    PROVE  \E f : Chosen(kind, results, len, f) /\ Offered(kind, results) = Range1(f)
<1>1. PICK after : /\ after[0] = <<>>
                   /\ \A i \in 1..len : after[i] = Take(kind, after[i - 1], results[i])
                   /\ Offered(kind, results) = Range1(after[len])
  BY LoopOver
<1> DEFINE S == {n \in Nat : n <= len => Chosen(kind, results, n, after[n])}
<1>2. 0 \in S
  <2>1. DOMAIN <<>> = {} /\ 1..0 = {}
    OBVIOUS
  <2>2. Chosen(kind, results, 0, <<>>)
    BY <2>1 DEF Chosen
  <2> QED BY <1>1, <2>2
<1>3. ASSUME NEW n \in Nat, n \in S PROVE n + 1 \in S
  <2> SUFFICES ASSUME n + 1 <= len PROVE Chosen(kind, results, n + 1, after[n + 1])
    OBVIOUS
  <2>1. after[n + 1] = Take(kind, after[n], results[n + 1])
    <3>1. n + 1 \in 1..len /\ (n + 1) - 1 = n
      OBVIOUS
    <3> QED BY <1>1, <3>1
  <2>2. Chosen(kind, results, n, after[n])
    BY <1>3
  <2> QED BY <2>1, <2>2, ChosenNext
<1>4. len \in S
  BY <1>2, <1>3, InductOver
<1> QED BY <1>1, <1>4

\* ... so that what it selected is the best, once each.
LEMMA OffersBest ==
    ASSUME NEW kind, NEW results, NEW len \in Nat, DOMAIN results = 1..len, Len(results) = len
    PROVE  BestOf(kind, results, Offered(kind, results))
<1> PICK f : Chosen(kind, results, len, f) /\ Offered(kind, results) = Range1(f)
  BY ChosenAtEnd
<1> PICK offered : offered = Range1(f)
  OBVIOUS
<1>1. \A y \in offered : /\ y \in Range1(results)
                         /\ KeyOf(kind, y) \in DOMAIN f /\ f[KeyOf(kind, y)] = y
  <2> SUFFICES ASSUME NEW k \in DOMAIN f
               PROVE  /\ f[k] \in Range1(results)
                      /\ KeyOf(kind, f[k]) \in DOMAIN f /\ f[KeyOf(kind, f[k])] = f[k]
    BY DEF Range1
  <2>1. PICK j \in 1..len : f[k] = results[j] /\ KeyOf(kind, results[j]) = k
    BY DEF Chosen
  <2> QED BY <2>1 DEF Range1
<1>2. ASSUME NEW x \in Range1(results)
      PROVE  Cardinality({y \in offered :
               IF kind = "lan" /\ x.type = "scanner"
               THEN y.type = "scanner" /\ y.address = x.address
                    /\ Priority(y.protocol) <= Priority(x.protocol)
               ELSE y.type = x.type /\ y.uri = x.uri
                    /\ \A i \in DOMAIN results :
                           results[i].type = x.type /\ results[i].uri = x.uri /\ results[i] # y
                           => \E j \in (i + 1)..Len(results) : results[j] = y}) = 1
  <2> DEFINE scans == kind = "lan" /\ x.type = "scanner"
             IsLast(y) == \A i \in DOMAIN results :
                           results[i].type = x.type /\ results[i].uri = x.uri /\ results[i] # y
                           => \E j \in (i + 1)..Len(results) : results[j] = y
             best == {y \in offered :
               IF scans
               THEN y.type = "scanner" /\ y.address = x.address
                    /\ Priority(y.protocol) <= Priority(x.protocol)
               ELSE y.type = x.type /\ y.uri = x.uri /\ IsLast(y)}
  <2> PICK jx \in 1..len : x = results[jx]
    BY DEF Range1
  <2> PICK key : key = KeyOf(kind, x)
    OBVIOUS
  <2> PICK z : z = f[key]
    OBVIOUS
  <2>1. key \in DOMAIN f /\ z \in offered
    BY DEF Chosen, Range1
  <2>2. KeyOf(kind, z) = KeyOf(kind, x)
    BY <2>1 DEF Chosen
  <2>3. /\ z.type = x.type
        /\ IF scans THEN z.address = x.address ELSE z.uri = x.uri
    BY <2>2, KeysTell
  <2>4. scans => Priority(z.protocol) <= Priority(x.protocol)
    BY DEF Chosen
  <2>5. ~ scans => IsLast(z)
    <3> SUFFICES ASSUME ~ scans, NEW i \in 1..len, results[i].type = x.type,
                        results[i].uri = x.uri, results[i] # z
                 PROVE  \E j \in (i + 1)..len : results[j] = z
      OBVIOUS
    <3>1. KeyOf(kind, results[i]) = key
      BY DEF KeyOf
    <3>2. ~ (kind = "lan" /\ results[i].type = "scanner")
      OBVIOUS
    <3> QED BY <3>1, <3>2 DEF Chosen
  <2>6. z \in best
    BY <2>1, <2>3, <2>4, <2>5
  <2>7. \A y \in best : y = z
    <3> SUFFICES ASSUME NEW y \in best PROVE y = z
      OBVIOUS
    <3>1. y \in offered /\ y.type = x.type
          /\ IF scans THEN y.address = x.address ELSE y.uri = x.uri
      OBVIOUS
    <3>2. KeyOf(kind, y) = key
      BY <3>1 DEF KeyOf
    <3> QED BY <1>1, <3>1, <3>2
  <2> HIDE DEF best
  <2>8. best = {z}
    BY <2>6, <2>7
  <2>9. Cardinality(best) = 1
    BY <2>8, FS_Singleton
  <2> QED BY <2>9 DEF best
<1> QED BY <1>1, <1>2 DEF BestOf

-----------------------------------------------------------------------------
(* What is gathered.                                                       *)

FlattensUpTo(seqs, n, it) ==
    it = [i \in 1..n |-> IF i = 1 THEN seqs[i] ELSE it[i - 1] \o seqs[i]]

\* The recursion of FlattenSeq has a solution ...
LEMMA FlatteningExists ==
    ASSUME NEW seqs, NEW len \in Nat
    PROVE  \E it : FlattensUpTo(seqs, len, it)
<1> DEFINE S == {n \in Nat : \E it : FlattensUpTo(seqs, n, it)}
<1>1. 0 \in S
  <2> DEFINE it == [i \in 1..0 |-> <<>>]
  <2>1. FlattensUpTo(seqs, 0, it)
    BY DEF FlattensUpTo
  <2> QED BY <2>1
<1>2. ASSUME NEW n \in Nat, n \in S PROVE n + 1 \in S
  <2> PICK g : FlattensUpTo(seqs, n, g)
    BY <1>2
  <2> DEFINE it == [i \in 1..(n + 1) |-> IF i = 1 THEN seqs[i] ELSE g[i - 1] \o seqs[i]]
  <2>1. \A i \in 1..n : it[i] = g[i]
    <3>1. \A i \in 1..n : i \in 1..(n + 1)
      OBVIOUS
    <3>2. \A i \in 1..n : g[i] = IF i = 1 THEN seqs[i] ELSE g[i - 1] \o seqs[i]
      BY DEF FlattensUpTo
    <3> QED BY <3>1, <3>2
  <2>2. \A i \in 1..(n + 1) : i # 1 => i - 1 \in 1..n
    OBVIOUS
  <2>3. \A i \in 1..(n + 1) : it[i] = IF i = 1 THEN seqs[i] ELSE it[i - 1] \o seqs[i]
    BY <2>1, <2>2
  <2>4. it = [i \in 1..(n + 1) |-> it[i]]
    OBVIOUS
  <2> HIDE DEF it
  <2>5. FlattensUpTo(seqs, n + 1, it)
    BY <2>3, <2>4 DEF FlattensUpTo
  <2> QED BY <2>5
<1> QED BY <1>1, <1>2, InductOver

\* ... and joins sequences over a set to one over the set.
LEMMA FlattenSeqType ==
    ASSUME NEW R, NEW seqs \in Seq(Seq(R))
    PROVE  FlattenSeq(seqs) \in Seq(R)
<1>1. CASE Len(seqs) = 0
  BY <1>1 DEF FlattenSeq
<1>2. CASE Len(seqs) # 0
  <2> PICK len \in Nat : len = Len(seqs)
    OBVIOUS
  <2> DEFINE it == CHOOSE g : g = [i \in 1..Len(seqs) |->
                       IF i = 1 THEN seqs[i] ELSE g[i - 1] \o seqs[i]]
  <2>1. FlattenSeq(seqs) = it[Len(seqs)]
    BY <1>2 DEF FlattenSeq
  <2>2. \E g : g = [i \in 1..Len(seqs) |-> IF i = 1 THEN seqs[i] ELSE g[i - 1] \o seqs[i]]
    BY FlatteningExists DEF FlattensUpTo
  <2>3. it = [i \in 1..Len(seqs) |-> IF i = 1 THEN seqs[i] ELSE it[i - 1] \o seqs[i]]
    BY <2>2
  <2> HIDE DEF it
  <2> DEFINE S == {n \in Nat : n \in 1..len => it[n] \in Seq(R)}
  <2>4. 0 \in S
    OBVIOUS
  <2>5. ASSUME NEW n \in Nat, n \in S PROVE n + 1 \in S
    <3> SUFFICES ASSUME n + 1 \in 1..len PROVE it[n + 1] \in Seq(R)
      OBVIOUS
    <3>1. seqs[n + 1] \in Seq(R)
      OBVIOUS
    <3>2. CASE n = 0
      BY <2>3, <3>1, <3>2
    <3>3. CASE n # 0
      <4>1. n \in 1..len /\ (n + 1) - 1 = n /\ n + 1 # 1
        BY <3>3
      <4>2. it[n] \in Seq(R)
        BY <2>5, <4>1
      <4>3. it[n + 1] = it[n] \o seqs[n + 1]
        BY <2>3, <4>1
      <4> QED BY <3>1, <4>2, <4>3
    <3> QED BY <3>2, <3>3
  <2>6. len \in S
    BY <2>4, <2>5, InductOver
  <2>7. len \in 1..len
    BY <1>2
  <2> QED BY <2>1, <2>6, <2>7
<1> QED BY <1>1, <1>2

\* What a scan of a network may find.
LanResults(n) ==
    {Result(host, type, protocol, port, 0) :
        host \in n.addresses, type \in {"printer", "scanner"},
        protocol \in {"ipp", "airscan-escl", "airscan-wsd", "hpaio"},
        port \in {"ipp", "escl", "escls", "hpaio", "wsd"}}

LEMMA ProbedType ==
    ASSUME NEW n, NEW host \in n.addresses, NEW services
    PROVE  Probed(host, services) \in Seq(LanResults(n))
<1> DEFINE found(service, type, protocol) ==
             IF service \in services THEN <<Result(host, type, protocol, service, 0)>> ELSE <<>>
<1>1. ASSUME NEW type \in {"printer", "scanner"},
             NEW protocol \in {"ipp", "airscan-escl", "airscan-wsd", "hpaio"},
             NEW port \in {"ipp", "escl", "escls", "hpaio", "wsd"}
      PROVE  found(port, type, protocol) \in Seq(LanResults(n))
  <2>1. Result(host, type, protocol, port, 0) \in LanResults(n)
    BY DEF LanResults
  <2> QED BY <2>1
<1>2. found("ipp", "printer", "ipp") \in Seq(LanResults(n))
  BY <1>1
<1>3. found("escl", "scanner", "airscan-escl") \in Seq(LanResults(n))
  BY <1>1
<1>4. found("escls", "scanner", "airscan-escl") \in Seq(LanResults(n))
  BY <1>1
<1>5. found("hpaio", "scanner", "hpaio") \in Seq(LanResults(n))
  BY <1>1
<1>6. Probed(host, services) =
        found("ipp", "printer", "ipp") \o found("escl", "scanner", "airscan-escl")
        \o found("escls", "scanner", "airscan-escl") \o found("hpaio", "scanner", "hpaio")
  BY DEF Probed
<1> HIDE DEF found
<1> QED BY <1>2, <1>3, <1>4, <1>5, <1>6

LEMMA WsdScannersType ==
    ASSUME NEW n, NEW answers, answers \in Seq(Range1(answers))
    PROVE  WsdScanners(n, answers) \in Seq(LanResults(n))
<1> DEFINE kept(a) == IF a.at \in n.addresses /\ a.hosted \in n.addresses
                      THEN <<WsdScanner(a.hosted)>> ELSE <<>>
           seqs == [i \in DOMAIN answers |-> kept(answers[i])]
<1>1. ASSUME NEW a PROVE kept(a) \in Seq(LanResults(n))
  <2>1. a.hosted \in n.addresses => WsdScanner(a.hosted) \in LanResults(n)
    BY DEF LanResults, WsdScanner
  <2> QED BY <2>1
<1> HIDE DEF kept
<1>2. seqs \in Seq(Seq(LanResults(n)))
  <2>1. DOMAIN answers = 1..Len(answers) /\ Len(answers) \in Nat
    OBVIOUS
  <2>2. seqs = [i \in 1..Len(answers) |-> kept(answers[i])]
    BY <2>1
  <2>3. \A i \in 1..Len(answers) : seqs[i] \in Seq(LanResults(n))
    BY <1>1, <2>2
  <2> HIDE DEF seqs
  <2> QED BY <2>1, <2>2, <2>3
<1>3. WsdScanners(n, answers) = FlattenSeq(seqs)
  BY DEF WsdScanners, kept
<1> HIDE DEF seqs
<1> QED BY <1>2, <1>3, FlattenSeqType

\* Every address gathered lies in the network: hosts are probed nowhere else, and of the
\* WS-Discovery answers both addresses are looked at.
LEMMA GatheredType ==
    ASSUME NEW n, n.hosts \in Seq(n.addresses), NEW answers,
           NEW wsd, wsd \in Seq(Range1(wsd))
    PROVE  Gathered(n, answers, wsd) \in Seq(LanResults(n))
<1> DEFINE seqs == [i \in DOMAIN n.hosts |-> Probed(n.hosts[i], answers[n.hosts[i]])]
<1>1. seqs \in Seq(Seq(LanResults(n)))
  <2>1. DOMAIN n.hosts = 1..Len(n.hosts) /\ Len(n.hosts) \in Nat
    OBVIOUS
  <2>2. \A i \in 1..Len(n.hosts) : seqs[i] \in Seq(LanResults(n))
    BY <2>1, ProbedType
  <2>3. seqs = [i \in 1..Len(n.hosts) |-> seqs[i]]
    BY <2>1
  <2> HIDE DEF seqs
  <2> PICK len \in Nat : len = Len(n.hosts)
    BY <2>1
  <2>4. seqs \in [1..len -> Seq(LanResults(n))]
    BY <2>2, <2>3
  <2> QED BY <2>4
<1> HIDE DEF seqs
<1>2. FlattenSeq(seqs) \in Seq(LanResults(n)) /\ WsdScanners(n, wsd) \in Seq(LanResults(n))
  BY <1>1, FlattenSeqType, WsdScannersType
<1> QED BY <1>2 DEF Gathered, seqs

-----------------------------------------------------------------------------
(* The steps of the runs.                                                  *)

\* The handler steps that leave the queue alone.
Within(t, r) ==
    \/ RunStarts(t, r) \/ DiscoveryFails(t, r)
    \/ \E gathered, results : Completes(t, r, gathered, results)

LEMMA StepKinds ==
    ASSUME [Next]_vars
    PROVE  \/ SettingsNext /\ UNCHANGED <<queueVars, discoveryVars>>
           \/ \E r \in Runs : \E kind, n : CreateRun(r, kind, n)
           \/ \E r \in Runs : EnqueueRun(r) \/ RequestDies(r)
           \/ \E t \in Tasks : StartTask(t) \/ EndTask(t) \/ WorkerDies(t)
           \/ \E t \in Tasks, r \in Runs : Within(t, r)
           \/ UNCHANGED vars
<1>1. ASSUME NEW t \in Tasks, HandlerStep(t)
      PROVE  EndTask(t) \/ \E r \in Runs : Within(t, r)
  BY <1>1 DEF HandlerStep, Within, DiscoverMdns, DiscoverLan
<1> QED BY <1>1 DEF Next

LEMMA SavedRow ==
    ASSUME RunsTyped, UNCHANGED runOf,
           NEW r \in Runs, NEW q, q = [f \in Fields |-> q[f]], Save(r, q)
    PROVE  RunsTyped' /\ run'[r] = q /\ \A s \in Runs : s # r => run'[s] = run[s]
BY DEF RunsTyped, Save

LEMMA CreateRunSaves ==
    ASSUME RunsTyped, NEW r \in Runs, NEW kind, NEW n, CreateRun(r, kind, n)
    PROVE  /\ UNCHANGED <<queueVars, settingsVars, runOf, pc, dropped>>
           /\ starting' = starting \cup {r}
           /\ run[r].state = "absent"
           /\ RunsTyped' /\ \A s \in Runs : s # r => run'[s] = run[s]
<1> PICK q : q = [NoRun EXCEPT !.state = "pending", !.kind = kind, !.network = n]
  OBVIOUS
<1>1. q = [f \in Fields |-> q[f]]
  BY DEF NoRun, Fields
<1>2. Save(r, q) /\ run[r].state = "absent" /\ starting' = starting \cup {r}
      /\ UNCHANGED <<queueVars, settingsVars, runOf, pc, dropped>>
  BY DEF CreateRun, NoRun
<1>3. RunsTyped' /\ \A s \in Runs : s # r => run'[s] = run[s]
  BY <1>1, <1>2, SavedRow
<1> QED BY <1>2, <1>3

LEMMA WithinSaves ==
    ASSUME RunsTyped, NEW t \in Tasks, NEW r \in Runs, Within(t, r)
    PROVE  /\ UNCHANGED <<queueVars, settingsVars, runOf, starting, dropped>>
           /\ Handles(t) /\ runOf[t] = {r}
           /\ RunsTyped' /\ \A s \in Runs : s # r => run'[s] = run[s]
           /\ pc' = "return" => run'[r].state = "complete"
           /\ pc' = "raise" => run'[r].state = "failed"
<1>1. run[r] = [f \in Fields |-> run[r][f]]
  BY DEF RunsTyped
<1>2. CASE RunStarts(t, r)
  <2> PICK q : q = [run[r] EXCEPT !.state = "running"]
    OBVIOUS
  <2>1. q = [f \in Fields |-> q[f]]
    BY <1>1 DEF Fields
  <2>2. Save(r, q) /\ Handles(t) /\ runOf[t] = {r} /\ pc' = "discovering"
        /\ UNCHANGED <<queueVars, settingsVars, runOf, starting, dropped>>
    BY <1>2 DEF RunStarts, Running, Handles
  <2>3. RunsTyped' /\ \A s \in Runs : s # r => run'[s] = run[s]
    BY <2>1, <2>2, SavedRow
  <2> QED BY <2>2, <2>3
<1>3. CASE DiscoveryFails(t, r)
  <2> PICK q : q = [run[r] EXCEPT !.state = "failed", !.error = TRUE]
    OBVIOUS
  <2>1. q = [f \in Fields |-> q[f]] /\ q.state = "failed"
    BY <1>1 DEF Fields
  <2>2. Save(r, q) /\ Handles(t) /\ runOf[t] = {r} /\ pc' = "raise"
        /\ UNCHANGED <<queueVars, settingsVars, runOf, starting, dropped>>
    BY <1>3 DEF DiscoveryFails, Running, Handles
  <2>3. RunsTyped' /\ run'[r] = q /\ \A s \in Runs : s # r => run'[s] = run[s]
    BY <2>1, <2>2, SavedRow
  <2> QED BY <2>1, <2>2, <2>3
<1>4. ASSUME NEW gathered, NEW results, Completes(t, r, gathered, results)
      PROVE  /\ UNCHANGED <<queueVars, settingsVars, runOf, starting, dropped>>
             /\ Handles(t) /\ runOf[t] = {r} /\ pc' = "return"
             /\ RunsTyped' /\ \A s \in Runs : s # r => run'[s] = run[s]
             /\ run'[r].state = "complete"
  <2> PICK q : q = [run[r] EXCEPT !.state = "complete", !.results = results]
    OBVIOUS
  <2>1. q = [f \in Fields |-> q[f]] /\ q.state = "complete"
    BY <1>1 DEF Fields
  <2>2. Save(r, q) /\ Handles(t) /\ runOf[t] = {r} /\ pc' = "return"
        /\ UNCHANGED <<queueVars, settingsVars, runOf, starting, dropped>>
    BY <1>4 DEF Completes, Running, Handles
  <2>3. RunsTyped' /\ run'[r] = q /\ \A s \in Runs : s # r => run'[s] = run[s]
    BY <2>1, <2>2, SavedRow
  <2> QED BY <2>1, <2>2, <2>3
<1> QED BY <1>2, <1>3, <1>4 DEF Within

\* The task of a run, with the limit its request found.
LEMMA EnqueueRunAdds ==
    ASSUME QueueOK, runOf \in [Tasks -> SUBSET Runs], NEW r \in Runs, EnqueueRun(r)
    PROVE  /\ QueueOK' /\ runOf' \in [Tasks -> SUBSET Runs]
           /\ UNCHANGED <<settingsVars, run, pc, dropped>> /\ starting' = starting \ {r}
           /\ \E t \in Tasks :
                /\ Submit(t) /\ limit'[t] \in 1..10
                /\ phase[t] = "absent" /\ phase'[t] = "waiting" /\ runOf'[t] = {r}
                /\ \A u \in Tasks : u # t => UNCHANGED <<phase[u], limit[u], runOf[u]>>
<1> PICK t \in Tasks : /\ Submit(t) /\ limit'[t] = RetryLimit
                       /\ runOf' = [runOf EXCEPT ![t] = {r}]
  BY DEF EnqueueRun
<1>1. /\ phase[t] = "absent" /\ phase'[t] = "waiting"
      /\ \A u \in Tasks : u # t => phase'[u] = phase[u]
  BY SubmitPhases
<1>2. \A u \in Tasks : u # t => limit'[u] = limit[u]
  BY DEF Submit, SubmitAll, QueueOK, QueueTypeOK
<1>3. limit'[t] \in 1..10
  BY LimitInRange
<1>4. UNCHANGED <<settingsVars, run, pc, dropped>> /\ starting' = starting \ {r}
  BY DEF EnqueueRun
<1> QED BY <1>1, <1>2, <1>3, <1>4, SubmitKeeps

\* A start, the end of an execution or the death of the worker.
Steers(t) == StartTask(t) \/ EndTask(t) \/ WorkerDies(t)

LEMMA Steering ==
    ASSUME QueueOK, NEW t \in Tasks, Steers(t)
    PROVE  /\ QueueOK' /\ UNCHANGED <<settingsVars, run, runOf, starting, dropped, limit>>
           /\ phase[t] # "absent"
           /\ \A u \in Tasks : u # t => phase'[u] = phase[u]
           /\ pc' \in {"idle", "begin"}
           /\ \/ EndTask(t) /\ pc \in {"return", "raise"} /\ Handles(t)
              \/ phase'[t] \in {"waiting", "executing"}
<1>1. CASE StartTask(t)
  <2> PICK w \in Workers : Start(w, t)
    BY <1>1 DEF StartTask
  <2> QED BY <1>1, StartKeeps, StartPhases DEF StartTask, Start
<1>2. CASE EndTask(t)
  <2>1. Succeed(t) \/ Fail(t)
    BY <1>2 DEF EndTask
  <2>2. limit' = limit
    BY <2>1 DEF Succeed, Fail, End
  <2> QED BY <1>2, <2>1, <2>2, EndingKeeps, EndingPhases DEF EndTask, Handles
<1>3. CASE WorkerDies(t)
  <2>1. Lose(t) /\ limit' = limit
    BY <1>3 DEF WorkerDies, Lose, End
  <2> QED BY <1>3, <2>1, EndingKeeps, EndingPhases DEF WorkerDies
<1> QED BY <1>1, <1>2, <1>3 DEF Steers

-----------------------------------------------------------------------------
(* The invariant, part by part.                                            *)

LEMMA SettingsInductive ==
    ASSUME IInv, [Next]_vars
    PROVE  StoredTyped' /\ SavedSoFar' /\ Settled' /\ SettingsTakeEffect'
<1> USE DEF IInv
<1>1. [SettingsNext]_settingsVars
  <2>1. ASSUME NEW r \in Runs, NEW kind, NEW n, CreateRun(r, kind, n) PROVE UNCHANGED settingsVars
    BY <2>1, CreateRunSaves
  <2>2. ASSUME NEW r \in Runs, EnqueueRun(r) \/ RequestDies(r) PROVE UNCHANGED settingsVars
    BY <2>2 DEF EnqueueRun, RequestDies
  <2>3. ASSUME NEW t \in Tasks, Steers(t) PROVE UNCHANGED settingsVars
    BY <2>3, Steering
  <2>4. ASSUME NEW t \in Tasks, NEW r \in Runs, Within(t, r) PROVE UNCHANGED settingsVars
    BY <2>4, WithinSaves
  <2>5. UNCHANGED vars => UNCHANGED settingsVars
    BY DEF vars
  <2> QED BY <2>1, <2>2, <2>3, <2>4, <2>5, StepKinds DEF Steers
<1>2. StoredTyped' /\ SavedSoFar' /\ Settled'
  BY <1>1, SettingsKept
<1>3. SettingsTakeEffect'
  BY <1>2 DEF Settled, SettingsTakeEffect
<1> QED BY <1>2, <1>3

LEMMA RowsInductive ==
    ASSUME IInv, [Next]_vars
    PROVE  QueueOK' /\ RunsTyped' /\ LimitsAreSane'
<1> USE DEF IInv
<1>1. CASE UNCHANGED <<queueVars, discoveryVars>>
  BY <1>1, StutterKeeps DEF queueVars, discoveryVars, RunsTyped, LimitsAreSane
<1>2. ASSUME NEW r \in Runs, NEW kind, NEW n, CreateRun(r, kind, n)
      PROVE  QueueOK' /\ RunsTyped' /\ LimitsAreSane'
  BY <1>2, CreateRunSaves, StutterKeeps DEF queueVars, LimitsAreSane
<1>3. ASSUME NEW r \in Runs, EnqueueRun(r) PROVE QueueOK' /\ RunsTyped' /\ LimitsAreSane'
  BY <1>3, EnqueueRunAdds DEF RunsTyped, LimitsAreSane
<1>4. ASSUME NEW r \in Runs, RequestDies(r) PROVE QueueOK' /\ RunsTyped' /\ LimitsAreSane'
  <2>1. UNCHANGED <<queueVars, run, runOf>>
    BY <1>4 DEF RequestDies
  <2> QED BY <2>1, StutterKeeps DEF queueVars, RunsTyped, LimitsAreSane
<1>5. ASSUME NEW t \in Tasks, Steers(t) PROVE QueueOK' /\ RunsTyped' /\ LimitsAreSane'
  BY <1>5, Steering DEF RunsTyped, LimitsAreSane
<1>6. ASSUME NEW t \in Tasks, NEW r \in Runs, Within(t, r)
      PROVE  QueueOK' /\ RunsTyped' /\ LimitsAreSane'
  BY <1>6, WithinSaves, StutterKeeps DEF queueVars, LimitsAreSane
<1>7. UNCHANGED vars => UNCHANGED <<queueVars, discoveryVars>>
  BY DEF vars
<1> QED BY <1>1, <1>2, <1>3, <1>4, <1>5, <1>6, <1>7, StepKinds DEF Steers

\* Only the task that executes has its run saved, and once its handler is over the run
\* has an end, so the end of the execution leaves no run behind that shows as running.
LEMMA RunsInductive ==
    ASSUME IInv, [Next]_vars
    PROVE  EndsSaved' /\ RunHasTask'
<1> USE DEF IInv
<1>1. CASE UNCHANGED <<queueVars, discoveryVars>>
  BY <1>1 DEF queueVars, discoveryVars, EndsSaved, RunHasTask, Handles, Live
<1>2. ASSUME NEW r \in Runs, NEW kind, NEW n, CreateRun(r, kind, n)
      PROVE  EndsSaved' /\ RunHasTask'
  <2>1. /\ UNCHANGED <<queueVars, runOf, pc, dropped>>
        /\ starting' = starting \cup {r} /\ run[r].state = "absent"
        /\ \A s \in Runs : s # r => run'[s] = run[s]
    BY <1>2, CreateRunSaves
  <2>2. EndsSaved'
    BY <2>1 DEF queueVars, EndsSaved, Handles
  <2>3. RunHasTask'
    BY <2>1 DEF queueVars, RunHasTask, Live
  <2> QED BY <2>2, <2>3
<1>3. ASSUME NEW r \in Runs, EnqueueRun(r) PROVE EndsSaved' /\ RunHasTask'
  <2>1. PICK t \in Tasks :
          /\ phase[t] = "absent" /\ phase'[t] = "waiting" /\ runOf'[t] = {r}
          /\ \A u \in Tasks : u # t => UNCHANGED <<phase[u], runOf[u]>>
    BY <1>3, EnqueueRunAdds DEF RunsTyped
  <2>2. UNCHANGED <<run, pc, dropped>> /\ starting' = starting \ {r}
    BY <1>3 DEF EnqueueRun
  <2>3. EndsSaved'
    BY <2>1, <2>2 DEF EndsSaved, Handles
  <2>4. RunHasTask'
    BY <2>1, <2>2 DEF RunHasTask, Live
  <2> QED BY <2>3, <2>4
<1>4. ASSUME NEW r \in Runs, RequestDies(r) PROVE EndsSaved' /\ RunHasTask'
  <2>1. /\ UNCHANGED <<phase, run, runOf, pc>>
        /\ starting' \cup dropped' = starting \cup dropped
    BY <1>4 DEF RequestDies, queueVars
  <2>2. EndsSaved'
    BY <2>1 DEF EndsSaved, Handles
  <2>3. RunHasTask'
    BY <2>1 DEF RunHasTask, Live
  <2> QED BY <2>2, <2>3
<1>5. ASSUME NEW t \in Tasks, Steers(t) PROVE EndsSaved' /\ RunHasTask'
  <2>1. /\ UNCHANGED <<run, runOf, starting, dropped>> /\ pc' \in {"idle", "begin"}
        /\ \A u \in Tasks : u # t => phase'[u] = phase[u]
    BY <1>5, Steering
  <2>2. EndsSaved'
    BY <2>1 DEF EndsSaved
  <2>3. CASE phase'[t] \in {"waiting", "executing"}
    BY <2>1, <2>2, <2>3 DEF RunHasTask, Live
  <2>4. CASE pc \in {"return", "raise"} /\ Handles(t)
    <3>1. \A r \in Runs : runOf[t] = {r} => run[r].state \in {"complete", "failed"}
      BY <2>4 DEF EndsSaved
    <3> QED BY <2>1, <3>1, <2>2 DEF RunHasTask, Live
  <2> QED BY <1>5, <2>2, <2>3, <2>4, Steering
<1>6. ASSUME NEW t \in Tasks, NEW r \in Runs, Within(t, r) PROVE EndsSaved' /\ RunHasTask'
  <2>1. /\ UNCHANGED <<phase, runOf, starting, dropped>> /\ Handles(t) /\ runOf[t] = {r}
        /\ \A s \in Runs : s # r => run'[s] = run[s]
        /\ pc' = "return" => run'[r].state = "complete"
        /\ pc' = "raise" => run'[r].state = "failed"
    BY <1>6, WithinSaves DEF queueVars
  <2>2. \A u \in Tasks : Handles(u) => u = t
    BY <2>1, OneExecutes, DiscoveryAssumption DEF Handles
  <2>3. EndsSaved'
    BY <2>1, <2>2 DEF EndsSaved, Handles
  <2>4. RunHasTask'
    BY <2>1 DEF RunHasTask, Live, Handles
  <2> QED BY <2>3, <2>4
<1>7. UNCHANGED vars => UNCHANGED <<queueVars, discoveryVars>>
  BY DEF vars
<1> QED BY <1>1, <1>2, <1>3, <1>4, <1>5, <1>6, <1>7, StepKinds DEF Steers

\* A save of one row, with what its discovery found.
LEMMA OfferSaved ==
    ASSUME RunsTyped, OffersOK, NEW r \in Runs, NEW q, NEW found, OfferOK(q, found),
           Save(r, q), heard' = [heard EXCEPT ![r] = found]
    PROVE  OffersOK'
<1>1. run'[r] = q /\ \A s \in Runs : s # r => run'[s] = run[s]
  BY DEF RunsTyped, Save
<1>2. heard' = [s \in Runs |-> heard'[s]]
      /\ heard'[r] = found /\ \A s \in Runs : s # r => heard'[s] = heard[s]
  BY DEF OffersOK
<1>3. ASSUME NEW s \in Runs PROVE OfferOK(run[s], heard[s])'
  <2>1. CASE s = r
    BY <1>1, <1>2, <2>1 DEF OfferOK
  <2>2. CASE s # r
    BY <1>1, <1>2, <2>2 DEF OfferOK, OffersOK
  <2> QED BY <2>1, <2>2
<1> QED BY <1>2, <1>3 DEF OffersOK

LEMMA FoundNothing == \A kind : BestOf(kind, <<>>, {})
BY DEF BestOf, Range1

\* What a discovery of either kind offers is the best of what it found.
LEMMA CompletesOffers ==
    ASSUME IInv, NEW t \in Tasks, NEW r \in Runs, NEW R, NEW found \in Seq(R),
           \A x \in R : /\ x.type \in {"printer", "scanner"}
                        /\ run[r].kind = "lan" => x.address \in run[r].network.addresses,
           Completes(t, r, found, Offered(run[r].kind, found))
    PROVE  OffersOK'
<1> PICK q : q = [run[r] EXCEPT !.state = "complete", !.results = Offered(run[r].kind, found)]
  OBVIOUS
<1>1. run[r] = [f \in Fields |-> run[r][f]] /\ OfferOK(run[r], heard[r])
  BY DEF IInv, RunsTyped, OffersOK
<1>2. /\ q.state = "complete" /\ q.results = Offered(run[r].kind, found)
      /\ q.kind = run[r].kind /\ q.network = run[r].network /\ q.error = run[r].error
  BY <1>1 DEF Fields
<1>3. DOMAIN found = 1..Len(found) /\ Len(found) \in Nat /\ Range1(found) \subseteq R
  BY DEF Range1
<1>4. BestOf(q.kind, found, q.results)
  BY <1>2, <1>3, OffersBest
<1>5. OfferOK(q, found)
  BY <1>1, <1>2, <1>3, <1>4 DEF OfferOK
<1>6. Save(r, q) /\ heard' = [heard EXCEPT ![r] = found]
  BY DEF Completes
<1> QED BY <1>5, <1>6, OfferSaved DEF IInv

LEMMA OffersInductive ==
    ASSUME IInv, [Next]_vars
    PROVE  OffersOK'
<1> USE DEF IInv
<1>1. CASE UNCHANGED <<run, heard>>
  BY <1>1 DEF OffersOK, OfferOK
<1>2. ASSUME NEW r \in Runs, NEW kind \in {"lan", "mdns"},
             NEW n \in Networks \cup {NoNetwork}, CreateRun(r, kind, n)
      PROVE  OffersOK'
  <2> PICK q : q = [NoRun EXCEPT !.state = "pending", !.kind = kind, !.network = n]
    OBVIOUS
  <2>1. q.state = "pending" /\ q.kind = kind /\ q.network = n /\ q.results = {} /\ q.error = FALSE
    BY DEF NoRun
  <2>2. Save(r, q) /\ run[r].state = "absent" /\ heard' = heard
    BY <1>2 DEF CreateRun, NoRun
  <2>3. heard[r] = <<>>
    BY <2>2 DEF OffersOK, OfferOK
  <2>4. OfferOK(q, heard[r])
    <3>1. Range1(<<>>) = {}
      BY DEF Range1
    <3>2. BestOf(q.kind, heard[r], q.results)
      BY <2>1, <2>3, FoundNothing
    <3> QED BY <1>2, <2>1, <2>3, <3>1, <3>2 DEF OfferOK
  <2>5. heard' = [heard EXCEPT ![r] = heard[r]]
    BY <2>2 DEF OffersOK
  <2> QED BY <2>2, <2>4, <2>5, OfferSaved
<1>3. ASSUME NEW t \in Tasks, NEW r \in Runs, RunStarts(t, r) \/ DiscoveryFails(t, r)
      PROVE  OffersOK'
  <2>1. PICK q : /\ Save(r, q) /\ q.state \in {"running", "failed"}
                 /\ q.kind = run[r].kind /\ q.network = run[r].network
                 /\ q.results = run[r].results /\ q.error \in {run[r].error, TRUE}
    <3>1. run[r] = [f \in Fields |-> run[r][f]]
      BY DEF RunsTyped
    <3>2. CASE RunStarts(t, r)
      <4> PICK q : q = [run[r] EXCEPT !.state = "running"]
        OBVIOUS
      <4>1. /\ q.state = "running" /\ q.kind = run[r].kind /\ q.network = run[r].network
            /\ q.results = run[r].results /\ q.error = run[r].error
        BY <3>1 DEF Fields
      <4>2. Save(r, q)
        BY <3>2 DEF RunStarts
      <4> QED BY <4>1, <4>2
    <3>3. CASE DiscoveryFails(t, r)
      <4> PICK q : q = [run[r] EXCEPT !.state = "failed", !.error = TRUE]
        OBVIOUS
      <4>1. /\ q.state = "failed" /\ q.kind = run[r].kind /\ q.network = run[r].network
            /\ q.results = run[r].results /\ q.error = TRUE
        BY <3>1 DEF Fields
      <4>2. Save(r, q)
        BY <3>3 DEF DiscoveryFails
      <4> QED BY <4>1, <4>2
    <3> QED BY <1>3, <3>2, <3>3
  <2>2. OfferOK(q, heard[r])
    BY <2>1 DEF OffersOK, OfferOK
  <2>3. heard' = [heard EXCEPT ![r] = heard[r]]
    BY <1>3 DEF RunStarts, DiscoveryFails, OffersOK
  <2> QED BY <2>1, <2>2, <2>3, OfferSaved
<1>4. ASSUME NEW t \in Tasks, NEW r \in Runs, NEW announced \in MdnsAnswers,
             DiscoverMdns(t, r, announced)
      PROVE  OffersOK'
  <2>1. run[r].kind = "mdns" /\ Completes(t, r, announced, Offered(run[r].kind, announced))
    BY <1>4 DEF DiscoverMdns, Offered
  <2>2. announced \in Seq(Range1(announced))
        /\ \A x \in Range1(announced) : x.type \in {"printer", "scanner"}
    BY DiscoveryAssumption
  <2> QED BY <2>1, <2>2, CompletesOffers
<1>5. ASSUME NEW t \in Tasks, NEW r \in Runs, NEW answers, NEW wsd \in WsdAnswers,
             DiscoverLan(t, r, answers, wsd)
      PROVE  OffersOK'
  <2> PICK n : n = run[r].network
    OBVIOUS
  <2> PICK found : found = Gathered(n, answers, wsd)
    OBVIOUS
  <2>1. run[r].kind = "lan" /\ Completes(t, r, found, Offered(run[r].kind, found))
    BY <1>5 DEF DiscoverLan, Offered
  <2>2. n.hosts \in Seq(n.addresses) /\ wsd \in Seq(Range1(wsd))
    <3>1. n \in Networks \cup {NoNetwork}
      BY DEF OffersOK, OfferOK
    <3>2. NoNetwork.hosts \in Seq(NoNetwork.addresses)
      BY DEF NoNetwork
    <3> QED BY <3>1, <3>2, DiscoveryAssumption
  <2>3. found \in Seq(LanResults(n))
    BY <2>2, GatheredType
  <2>4. \A x \in LanResults(n) : x.type \in {"printer", "scanner"} /\ x.address \in n.addresses
    BY DEF LanResults, Result
  <2> QED BY <2>1, <2>3, <2>4, CompletesOffers
<1>6. ASSUME NEW r \in Runs, EnqueueRun(r) \/ RequestDies(r) PROVE UNCHANGED <<run, heard>>
  BY <1>6 DEF EnqueueRun, RequestDies
<1>7. ASSUME NEW t \in Tasks, Steers(t) PROVE UNCHANGED <<run, heard>>
  BY <1>7 DEF Steers, StartTask, EndTask, WorkerDies
<1>8. UNCHANGED discoveryVars \/ UNCHANGED vars => UNCHANGED <<run, heard>>
  BY DEF discoveryVars, vars
<1> QED BY <1>1, <1>2, <1>3, <1>4, <1>5, <1>6, <1>7, <1>8 DEF Next, HandlerStep, Steers

LEMMA PlacesInductive ==
    ASSUME IInv, [Next]_vars
    PROVE  PlacesOK'
<1> USE DEF IInv
<1>1. ASSUME NEW r \in Runs, NEW kind, NEW n, CreateRun(r, kind, n) PROVE PlacesOK'
  BY <1>1, CreateRunSaves DEF PlacesOK
<1>2. ASSUME NEW r \in Runs, EnqueueRun(r) \/ RequestDies(r) PROVE PlacesOK'
  BY <1>2 DEF EnqueueRun, RequestDies, PlacesOK
<1>3. ASSUME NEW t \in Tasks, Steers(t) PROVE PlacesOK'
  BY <1>3, Steering DEF PlacesOK
<1>4. ASSUME NEW t \in Tasks, NEW r \in Runs, Within(t, r) PROVE PlacesOK'
  BY <1>4 DEF Within, RunStarts, DiscoveryFails, Completes, PlacesOK
<1>5. UNCHANGED discoveryVars \/ UNCHANGED vars => PlacesOK'
  BY DEF discoveryVars, vars, PlacesOK
<1> QED BY <1>1, <1>2, <1>3, <1>4, <1>5, StepKinds DEF Steers

LEMMA Starts == Init => IInv
<1> SUFFICES ASSUME Init PROVE IInv
  OBVIOUS
<1> USE DEF Init
<1>1. QueueOK /\ \A t \in Tasks : phase[t] = "absent"
  BY QueueStarts DEF QueueInit
<1>2. StoredTyped
  <2>1. \A k \in Keys : Accepted[k][2] + 1 \in Int
    BY KeysAre DEF Accepted
  <2> QED BY <2>1 DEF SettingsInit, StoredTyped
<1>3. SavedSoFar /\ Settled /\ SettingsTakeEffect
  BY DEF SettingsInit, SavedSoFar, Settled, SettingsTakeEffect
<1>4. RunsTyped
  <2> PICK q : q = NoRun
    OBVIOUS
  <2>1. q = [f \in Fields |-> q[f]]
    BY DEF NoRun, Fields
  <2> QED BY <2>1 DEF RunsTyped
<1>5. \A r \in Runs : run[r].state = "absent"
  BY DEF NoRun
<1>6. OffersOK
  <2>1. OfferOK(NoRun, <<>>)
    BY FoundNothing DEF OfferOK, NoRun, Range1
  <2> QED BY <2>1 DEF OffersOK
<1>7. PlacesOK
  BY DEF PlacesOK
<1> QED BY <1>1, <1>2, <1>3, <1>4, <1>5, <1>6, <1>7
       DEF IInv, EndsSaved, RunHasTask, LimitsAreSane, Handles

\* The invariant holds of every behaviour: each part is kept by every save of a setting,
\* request, step of the handler and death.
THEOREM Inductive == Spec => []IInv
<1>1. IInv /\ [Next]_vars => IInv'
  BY SettingsInductive, RowsInductive, RunsInductive, OffersInductive, PlacesInductive
     DEF IInv
<1> QED BY Starts, <1>1, PTL DEF Spec

\* A run that shows as pending or running is going to be run by a task that waits or
\* executes: handle_discovery saves COMPLETE or FAILED before its task can end. The one
\* gap is a request that died between the row and the task.
THEOREM NoRunIsForgotten == Spec => []RunHasTask
<1>1. IInv => RunHasTask
  BY DEF IInv
<1> QED BY Inductive, <1>1, PTL

\* Whatever the rows hold, a text that is no number among it, Task.enqueue gives a task
\* between one and ten attempts.
THEOREM LimitsInRange == Spec => []LimitsAreSane
<1>1. IInv => LimitsAreSane
  BY DEF IInv
<1> QED BY Inductive, <1>1, PTL

\* What SettingsForm accepted and the view saved is what every use of get_int reads, as
\* long as the last submission was saved to its end.
THEOREM SavedIsUsed == Spec => []SettingsTakeEffect
<1>1. IInv => SettingsTakeEffect
  BY DEF IInv
<1> QED BY Inductive, <1>1, PTL

\* Type correctness.
THEOREM TypeCorrect == Spec => []TypeOK
<1>1. IInv => TypeOK
  <2> SUFFICES ASSUME IInv PROVE TypeOK
    OBVIOUS
  <2> USE DEF IInv
  <2>1. ASSUME NEW r \in Runs, NEW x \in run[r].results PROVE x.type \in {"printer", "scanner"}
    BY DEF OffersOK, OfferOK, BestOf
  <2>2. \A r \in Runs : /\ run[r].state \in {"absent", "pending", "running", "complete", "failed"}
                        /\ run[r].kind \in {"mdns", "lan"}
                        /\ run[r].network \in Networks \cup {NoNetwork}
                        /\ run[r].error \in BOOLEAN
    BY DEF OffersOK, OfferOK
  <2> QED BY <2>1, <2>2 DEF TypeOK, RunsTyped, PlacesOK, StoredTyped
<1> QED BY Inductive, <1>1, PTL

\* However many answers there are and in whatever order they come, _deduplicate_results
\* offers every scanner of a LAN scan once, with the best driver that was found, and every
\* printer once; discover_mdns offers every service once, as it was announced last.
THEOREM OffersTheBest == Spec => []BestIsOffered
<1>1. IInv => BestIsOffered
  BY DEF IInv, OffersOK, OfferOK, BestIsOffered
<1> QED BY Inductive, <1>1, PTL

\* Whatever answers, a LAN scan offers nothing outside the network it was asked for:
\* _endpoint_is_allowed is asked of the address that answers and of the one it names.
THEOREM StaysInNetwork == Spec => []ResultsInNetwork
<1>1. IInv => ResultsInNetwork
  BY DEF IInv, OffersOK, OfferOK, BestOf, ResultsInNetwork
<1> QED BY Inductive, <1>1, PTL

\* Every step submits, starts or ends one task as the abstract queue does, or leaves the
\* queue alone: the limit of a run's task is one that Task.enqueue can find.
THEOREM DiscoveryKeepsToQueue == Spec => QueueSpec
<1>1. Init => QueueInit
  BY DEF Init
<1>2. IInv /\ [Next]_vars => [QueueNext]_queueVars
  <2> SUFFICES ASSUME IInv, [Next]_vars PROVE [QueueNext]_queueVars
    OBVIOUS
  <2>1. ASSUME NEW r \in Runs, EnqueueRun(r) \/ RequestDies(r) PROVE [QueueNext]_queueVars
    BY <2>1, SubmitIsStep DEF EnqueueRun, RequestDies
  <2>2. ASSUME NEW r \in Runs, NEW kind, NEW n, CreateRun(r, kind, n) PROVE UNCHANGED queueVars
    BY <2>2 DEF CreateRun
  <2>3. ASSUME NEW t \in Tasks, Steers(t) PROVE QueueNext
    BY <2>3 DEF Steers, StartTask, EndTask, WorkerDies, QueueNext
  <2>4. ASSUME NEW t \in Tasks, NEW r \in Runs, Within(t, r) PROVE UNCHANGED queueVars
    BY <2>4, WithinSaves DEF IInv
  <2>5. UNCHANGED vars => UNCHANGED queueVars
    BY DEF vars
  <2> QED BY <2>1, <2>2, <2>3, <2>4, <2>5, StepKinds DEF Steers
<1> QED BY Inductive, <1>1, <1>2, PTL DEF Spec, QueueSpec
=============================================================================
