-------------------------- MODULE GeneratorProofs ---------------------------
(***************************************************************************)
(* The password generator for any settings, any clock and any number of    *)
(* clients, faults and crashes.                                            *)
(***************************************************************************)
EXTENDS Generator, FiniteSetTheorems, SequenceTheorems, TLAPS

Keys == Nat \cup {Torn}
Entries == [created_at : Nat, password : Nat, key : Keys]
\* Passwords are made once: an entry is known by its password.
Distinct(h) == \A d, e \in h : d.password = e.password => d = e
Histories == {h \in SUBSET Entries : IsFiniteSet(h) /\ Distinct(h)}

-----------------------------------------------------------------------------
(* sort_by_key *)

\* The order of the list is strict and total on the entries of one history.
LEMMA BeforeOrders ==
    ASSUME NEW h \in Histories
    PROVE  /\ \A d \in h : ~Before(d, d)
           /\ \A d, e \in h : d = e \/ Before(d, e) \/ Before(e, d)
           /\ \A c, d, e \in h : Before(c, d) /\ Before(d, e) => Before(c, e)
<1>1. \A d \in h : d.created_at \in Nat /\ d.password \in Nat
  BY DEF Histories, Entries
<1>2. \A d, e \in h : d.password = e.password => d = e
  BY DEF Histories, Distinct
<1> QED
  BY <1>1, <1>2 DEF Before

\* Ranks are positions in the list.
LEMMA RankBounds ==
    ASSUME NEW h \in Histories, NEW e \in h
    PROVE  Rank(h, e) \in 1 .. Cardinality(h)
<1> DEFINE P == {d \in h : Before(d, e)}
<1>1. IsFiniteSet(h)
  BY DEF Histories
<1>2. P \in SUBSET h /\ e \notin P
  BY BeforeOrders
<1> HIDE DEF P
<1>3. /\ IsFiniteSet(P) /\ Cardinality(P) <= Cardinality(h)
      /\ Cardinality(P) # Cardinality(h)
  BY <1>1, <1>2, FS_Subset
<1>4. Cardinality(P) \in Nat /\ Cardinality(h) \in Nat
  BY <1>1, <1>3, FS_CardinalityType
<1> QED
  BY <1>3, <1>4 DEF Rank, P

\* An earlier entry has a smaller rank.
LEMMA RankGrows ==
    ASSUME NEW h \in Histories, NEW d \in h, NEW e \in h, Before(d, e)
    PROVE  Rank(h, d) < Rank(h, e)
<1> DEFINE P == {x \in h : Before(x, d)}
           Q == {x \in h : Before(x, e)}
<1>1. IsFiniteSet(h)
  BY DEF Histories
<1>2. P \in SUBSET Q /\ d \in Q /\ d \notin P /\ Q \in SUBSET h
  BY BeforeOrders
<1> HIDE DEF P, Q
<1>3. IsFiniteSet(Q)
  BY <1>1, <1>2, FS_Subset
<1>4. IsFiniteSet(P) /\ Cardinality(P) <= Cardinality(Q) /\ Cardinality(P) # Cardinality(Q)
  BY <1>2, <1>3, FS_Subset
<1>5. Cardinality(P) \in Nat /\ Cardinality(Q) \in Nat
  BY <1>3, <1>4, FS_CardinalityType
<1> QED
  BY <1>4, <1>5 DEF Rank, P, Q

\* The answer to GetGeneratorHistory lists every entry of the file, once, the
\* newest first.
THEOREM NewestFirstSorts ==
    ASSUME NEW h \in Histories
    PROVE  /\ NewestFirst(h) \in Seq(h) /\ Len(NewestFirst(h)) = Cardinality(h)
           /\ \A e \in h : \E i \in DOMAIN NewestFirst(h) : NewestFirst(h)[i] = e
           /\ \A i, j \in DOMAIN NewestFirst(h) :
                  i < j => Before(NewestFirst(h)[i], NewestFirst(h)[j])
<1> DEFINE n == Cardinality(h)
           r == [e \in h |-> Rank(h, e)]
           s == NewestFirst(h)
<1>1. IsFiniteSet(h) /\ n \in Nat
  BY FS_CardinalityType DEF Histories
<1>2. \A e \in h : Rank(h, e) \in 1 .. n
  BY RankBounds
<1>3. \A d, e \in h : Rank(h, d) = Rank(h, e) => d = e
  BY <1>2, BeforeOrders, RankGrows
<1>4. r \in Injection(h, 1 .. n)
  BY <1>2, <1>3 DEF Injection, IsInjective
<1>5. IsFiniteSet(1 .. n) /\ Cardinality(1 .. n) = n
  BY <1>1, FS_Interval
<1> HIDE DEF n, r
<1>6. r \in Surjection(h, 1 .. n)
  BY <1>1, <1>4, <1>5, FS_Injection DEF n
<1>7. \A i \in 1 .. n : \E e \in h : Rank(h, e) = i
  BY <1>6 DEF Surjection, r
<1>8. s = [i \in 1 .. n |-> CHOOSE e \in h : Rank(h, e) = i]
  BY DEF NewestFirst, n
<1>9. \A i \in 1 .. n : s[i] \in h /\ Rank(h, s[i]) = i
  BY <1>7, <1>8
<1>10. s \in Seq(h) /\ Len(s) = n /\ DOMAIN s = 1 .. n
  BY <1>1, <1>8, <1>9
<1> HIDE DEF s
<1>11. \A e \in h : \E i \in DOMAIN s : s[i] = e
  BY <1>2, <1>3, <1>9, <1>10
<1>12. ASSUME NEW i \in DOMAIN s, NEW j \in DOMAIN s, i < j PROVE Before(s[i], s[j])
  <2>1. s[i] \in h /\ s[j] \in h /\ Rank(h, s[i]) < Rank(h, s[j])
    BY <1>1, <1>9, <1>10, <1>12
  <2>2. ~Before(s[j], s[i]) /\ s[i] # s[j]
    BY <1>1, <1>9, <1>10, <1>12, <2>1, RankGrows
  <2> QED
    BY <2>1, <2>2, BeforeOrders
<1> QED
  BY <1>10, <1>11, <1>12 DEF s, n

-----------------------------------------------------------------------------
(* The files *)

Kinds == {"generate", "settings", "history", "delete"}
Requests ==
    {m \in [kind : Kinds, arg : Settings \cup {None} \cup Nat, attempt : {0, 1}] :
        m.kind = "generate" => m.arg \in Settings \cup {None}}
Answers ==
    {m \in [kind : Kinds, ok : BOOLEAN, value : Nat \cup Settings \cup {None} \cup Seq(Entries)] :
        m.ok => /\ m.kind = "generate" => m.value \in Nat
                /\ m.kind = "settings" => m.value \in Settings
                /\ m.kind = "history" => m.value \in Seq(Entries)}

Disks == [settings : Settings \cup {None, Torn}, key : Keys, history : Histories]
\* The entries' passwords are among the first n that were made, and their key is the
\* one in the key file: where there is none, there are no entries.
DiskOK(d, n) ==
    /\ d \in Disks
    /\ \A e \in d.history : e.password \in 1 .. n /\ e.key = d.key
    /\ d.key = 0 => d.history = {}

\* What a handler at time t may do to the history; p is the number of its password.
Forgets(d, e, t) == e.history \subseteq d.history /\ \A x \in d.history \ e.history : Expired(x, t)
Adds(d, e, p, t) ==
    \E x \in e.history : x.password = p /\ x.created_at = t /\ e.history = Prune(d.history, t) \cup {x}
Deletes(d, e) == \E c \in Nat \cup Settings \cup {None} : e.history = DeleteByCreatedAt(d.history, c)

\* What pruning or deleting leaves is a history.
LEMMA SubHistory ==
    ASSUME NEW h \in Histories, NEW g \in SUBSET h
    PROVE  g \in Histories
  BY FS_Subset DEF Histories, Distinct

\* The default settings are settings.
LEMMA DefaultTyped == Default \in Settings
  BY LengthAssumption DEF Default, Settings

\* save_settings leaves the history alone.
LEMMA SaveSettingsOK ==
    ASSUME NEW n, NEW d, DiskOK(d, n), NEW s \in Settings, NEW f
    PROVE  DiskOK(SaveSettings(d, s, f), n) /\ SaveSettings(d, s, f).history = d.history
<1> DEFINE e == SaveSettings(d, s, f)
<1>1. e \in Disks /\ e.key = d.key /\ e.history = d.history
  BY DEF SaveSettings, DiskOK, Disks
<1> HIDE DEF e
<1> QED
  BY <1>1 DEF DiskOK, e

\* A new key is made only for an empty history.
LEMMA LoadOrCreateKeyOK ==
    ASSUME NEW n, NEW d, DiskOK(d, n), NEW fresh \in Nat \ {0}, NEW f
    PROVE  /\ DiskOK(LoadOrCreateKey(d, fresh, f).disk, n)
           /\ LoadOrCreateKey(d, fresh, f).disk.history = d.history
           /\ LoadOrCreateKey(d, fresh, f).key # 0 =>
                  LoadOrCreateKey(d, fresh, f).disk.key = LoadOrCreateKey(d, fresh, f).key
<1> DEFINE k == LoadOrCreateKey(d, fresh, f)
<1>1. ASSUME NEW x \in Keys, d.key = 0
      PROVE  LET e == [d EXCEPT !.key = x] IN DiskOK(e, n) /\ e.history = d.history /\ e.key = x
  <2> DEFINE e == [d EXCEPT !.key = x]
  <2>1. e \in Disks /\ e.key = x /\ e.history = d.history /\ d.history = {}
    BY <1>1 DEF DiskOK, Disks
  <2> HIDE DEF e
  <2>2. DiskOK(e, n)
    BY <2>1 DEF DiskOK
  <2> QED
    BY <2>1, <2>2 DEF e
<1>2. CASE d.key = Torn \/ f = "key_read"
  <2>1. k = [disk |-> d, key |-> 0]
    BY <1>2 DEF LoadOrCreateKey
  <2> HIDE DEF k
  <2> QED
    BY <2>1 DEF k
<1>3. CASE ~(d.key = Torn \/ f = "key_read") /\ d.key = 0 /\ f = "key_write"
  <2> DEFINE e == [d EXCEPT !.key = Torn]
  <2>1. k = [disk |-> e, key |-> 0]
    BY <1>3 DEF LoadOrCreateKey
  <2>2. DiskOK(e, n) /\ e.history = d.history /\ e.key = Torn
    BY <1>1, <1>3 DEF Keys
  <2> HIDE DEF k, e
  <2>3. k.disk = e /\ k.key = 0
    BY <2>1
  <2> QED
    BY <2>2, <2>3 DEF k
<1>4. CASE ~(d.key = Torn \/ f = "key_read") /\ d.key = 0 /\ f # "key_write"
  <2> DEFINE e == [d EXCEPT !.key = fresh]
  <2>1. k = [disk |-> e, key |-> fresh]
    BY <1>4 DEF LoadOrCreateKey
  <2>2. DiskOK(e, n) /\ e.history = d.history /\ e.key = fresh
    BY <1>1, <1>4 DEF Keys
  <2> HIDE DEF k, e
  <2>3. k.disk = e /\ k.key = fresh
    BY <2>1
  <2> QED
    BY <2>2, <2>3 DEF k
<1>5. CASE ~(d.key = Torn \/ f = "key_read") /\ d.key # 0
  <2>1. k = [disk |-> d, key |-> d.key]
    BY <1>5 DEF LoadOrCreateKey
  <2> HIDE DEF k
  <2> QED
    BY <2>1 DEF k
<1> QED
  BY <1>2, <1>3, <1>4, <1>5

\* Leaving out entries keeps the files in order.
LEMMA ShrinkOK ==
    ASSUME NEW n, NEW d, DiskOK(d, n), NEW h \in SUBSET d.history
    PROVE  DiskOK([d EXCEPT !.history = h], n) /\ [d EXCEPT !.history = h].history = h
<1> DEFINE e == [d EXCEPT !.history = h]
<1>1. h \in Histories
  BY SubHistory DEF DiskOK, Disks
<1>2. e \in Disks /\ e.key = d.key /\ e.history = h
  BY <1>1 DEF DiskOK, Disks
<1> HIDE DEF e
<1>3. DiskOK(e, n)
  BY <1>2 DEF DiskOK
<1> QED
  BY <1>2, <1>3 DEF e

\* append_entry adds the new password, or fails and leaves the file.
LEMMA AppendEntryOK ==
    ASSUME NEW n \in Nat, NEW d, DiskOK(d, n), NEW t \in Nat, NEW f
    PROVE  /\ DiskOK(AppendEntry(d, n + 1, t, f), n + 1)
           /\ \/ AppendEntry(d, n + 1, t, f).history = d.history
              \/ Adds(d, AppendEntry(d, n + 1, t, f), n + 1, t)
<1> DEFINE k == LoadOrCreateKey(d, n + 1, f)
           x == [created_at |-> t, password |-> n + 1, key |-> k.key]
           P == Prune(d.history, t)
           h == P \cup {x}
           e == [k.disk EXCEPT !.history = h]
<1>1. /\ DiskOK(k.disk, n) /\ k.disk.history = d.history
      /\ k.key # 0 => k.disk.key = k.key
  BY LoadOrCreateKeyOK
<1> HIDE DEF k
<1>2. CASE k.key = 0 \/ f \in {"load", "save"}
  <2>1. AppendEntry(d, n + 1, t, f) = k.disk
    BY <1>2 DEF AppendEntry, k
  <2>2. DiskOK(k.disk, n + 1)
    BY <1>1 DEF DiskOK
  <2> QED
    BY <1>1, <2>1, <2>2
<1>3. CASE ~(k.key = 0 \/ f \in {"load", "save"})
  <2>1. AppendEntry(d, n + 1, t, f) = e
    BY <1>1, <1>3 DEF AppendEntry, k
  <2>2. P \in SUBSET k.disk.history /\ k.disk \in Disks /\ k.disk.history \in Histories
    BY <1>1 DEF Prune, DiskOK, Disks
  <2>3. P \in Histories /\ \A y \in P : y.password \in 1 .. n /\ y.key = k.disk.key
    BY <1>1, <2>2, SubHistory DEF DiskOK
  <2>4. x \in Entries /\ x.password = n + 1 /\ x.created_at = t /\ x.key = k.disk.key
    BY <1>1, <1>3, <2>2 DEF Entries, Disks
  <2> HIDE DEF P, x
  <2>5. h \in Histories
    BY <2>3, <2>4, FS_AddElement DEF Histories, Distinct
  <2>6. e \in Disks /\ e.key = k.disk.key /\ e.history = h
    BY <2>2, <2>5 DEF Disks
  <2>7. e.key # 0
    BY <1>1, <1>3, <2>6
  <2> HIDE DEF e
  <2>8. DiskOK(e, n + 1)
    BY <2>3, <2>4, <2>6, <2>7 DEF DiskOK
  <2>9. Adds(d, e, n + 1, t)
    BY <2>4, <2>6 DEF Adds, P
  <2> QED
    BY <2>1, <2>8, <2>9
<1> QED
  BY <1>2, <1>3

-----------------------------------------------------------------------------
(* The handlers *)

\* handle_generate returns the password it has made, whether or not it could
\* store it.
LEMMA GenerateOK ==
    ASSUME NEW n \in Nat, NEW d, DiskOK(d, n), NEW settings \in Settings \cup {None},
           NEW t \in Nat, NEW f
    PROVE  LET o == HandleGenerate(d, settings, n + 1, t, f)
           IN  /\ DiskOK(o.disk, n + 1)
               /\ o.disk.history = d.history \/ Adds(d, o.disk, n + 1, t)
               /\ o.ok \in BOOLEAN /\ o.value \in Nat /\ (o.ok => o.value = n + 1)
<1> DEFINE o == HandleGenerate(d, settings, n + 1, t, f)
           d1 == IF settings = None THEN d ELSE SaveSettings(d, settings, f)
           e == AppendEntry(d1, n + 1, t, f)
<1>1. DiskOK(d1, n) /\ d1.history = d.history
  BY SaveSettingsOK
<1>2. \/ o = Outcome(e, TRUE, n + 1)
      \/ o = Outcome(d1, FALSE, 0)
  BY DEF HandleGenerate
<1> HIDE DEF d1, o
<1>3. DiskOK(e, n + 1) /\ (e.history = d1.history \/ Adds(d1, e, n + 1, t))
  BY <1>1, AppendEntryOK
<1>4. DiskOK(d1, n + 1)
  BY <1>1 DEF DiskOK
<1>5. Adds(d1, e, n + 1, t) => Adds(d, e, n + 1, t)
  BY <1>1 DEF Adds
<1> HIDE DEF e
<1>6. o.disk \in {d1, e} /\ o.ok \in BOOLEAN /\ o.value \in {0, n + 1} /\ (o.ok => o.value = n + 1)
  <2>1. CASE o = Outcome(e, TRUE, n + 1)
    <3>1. o.ok = TRUE
      BY <2>1 DEF Outcome
    <3>2. o.disk = e /\ o.value = n + 1
      BY <2>1 DEF Outcome
    <3> QED
      BY <3>1, <3>2
  <2>2. CASE o = Outcome(d1, FALSE, 0)
    <3>1. o.ok = FALSE
      BY <2>2 DEF Outcome
    <3>2. o.disk = d1 /\ o.value = 0
      BY <2>2 DEF Outcome
    <3> QED
      BY <3>1, <3>2
  <2> QED
    BY <1>2, <2>1, <2>2
<1> QED
  BY <1>1, <1>3, <1>4, <1>5, <1>6 DEF o

\* handle_get_settings writes nothing.
LEMMA GetSettingsOK ==
    ASSUME NEW n \in Nat, NEW d, DiskOK(d, n), NEW f
    PROVE  LET o == HandleGetSettings(d, f)
           IN  /\ o.disk = d /\ o.ok \in BOOLEAN /\ o.value \in Settings \cup {None}
               /\ o.ok => o.value \in Settings
<1> DEFINE v == LoadSettings(d, f)
<1>1. v \in Settings \cup {None}
  BY DefaultTyped DEF LoadSettings, DiskOK, Disks
<1> HIDE DEF v
<1> QED
  BY <1>1 DEF HandleGetSettings, Outcome, v

\* An answer holds every entry that the file is left with.
Lists(s, h) == \A e \in h : \E i \in DOMAIN s : s[i] = e

\* handle_get_history lists what it leaves in the file, and only prunes it.
LEMMA GetHistoryOK ==
    ASSUME NEW n \in Nat, NEW d, DiskOK(d, n), NEW fresh \in Nat \ {0}, NEW t \in Nat, NEW f
    PROVE  LET o == HandleGetHistory(d, fresh, t, f)
           IN  /\ DiskOK(o.disk, n) /\ Forgets(d, o.disk, t)
               /\ o.ok \in BOOLEAN /\ o.value \in Seq(Entries)
               /\ o.ok => Lists(o.value, o.disk.history)
<1> DEFINE o == HandleGetHistory(d, fresh, t, f)
           h == Prune(d.history, t)
           d1 == [d EXCEPT !.history = h]
           k == LoadOrCreateKey(d1, fresh, f)
           s == NewestFirst(h)
<1>1. h \in SUBSET d.history /\ \A x \in d.history \ h : Expired(x, t)
  BY DEF Prune
<1>2. DiskOK(d1, n) /\ d1.history = h
  BY <1>1, ShrinkOK
<1>3. h \in Histories
  BY <1>2 DEF DiskOK, Disks
<1>4. s \in Seq(h) /\ Lists(s, h)
  BY <1>3, NewestFirstSorts DEF Lists
<1>5. h \in SUBSET Entries
  BY <1>3 DEF Histories
<1> HIDE DEF s
<1>6. s \in Seq(Entries) /\ <<>> \in Seq(Entries)
  BY <1>4, <1>5
<1>7. \/ o = Outcome(d, FALSE, <<>>)
      \/ h = {} /\ o = Outcome(d1, TRUE, <<>>)
      \/ o = Outcome(k.disk, FALSE, <<>>)
      \/ o = Outcome(k.disk, TRUE, s)
  BY DEF HandleGetHistory, s
<1> HIDE DEF o, h, d1
<1>8. DiskOK(k.disk, n) /\ k.disk.history = h
  BY <1>2, LoadOrCreateKeyOK
<1> HIDE DEF k
<1>9. /\ o.disk = d \/ (DiskOK(o.disk, n) /\ o.disk.history = h)
      /\ o.ok \in BOOLEAN /\ o.value \in {<<>>, s}
      /\ o.ok => o.disk.history = h /\ (h = {} \/ o.value = s)
  <2>1. CASE o = Outcome(d, FALSE, <<>>)
    <3>1. o.ok = FALSE
      BY <2>1 DEF Outcome
    <3>2. o.disk = d /\ o.value = <<>>
      BY <2>1 DEF Outcome
    <3> QED
      BY <3>1, <3>2
  <2>2. CASE h = {} /\ o = Outcome(d1, TRUE, <<>>)
    <3>1. o.ok = TRUE
      BY <2>2 DEF Outcome
    <3>2. o.disk = d1 /\ o.value = <<>>
      BY <2>2 DEF Outcome
    <3> QED
      BY <1>2, <2>2, <3>1, <3>2
  <2>3. CASE o = Outcome(k.disk, FALSE, <<>>)
    <3>1. o.ok = FALSE
      BY <2>3 DEF Outcome
    <3>2. o.disk = k.disk /\ o.value = <<>>
      BY <2>3 DEF Outcome
    <3> QED
      BY <1>8, <3>1, <3>2
  <2>4. CASE o = Outcome(k.disk, TRUE, s)
    <3>1. o.ok = TRUE
      BY <2>4 DEF Outcome
    <3>2. o.disk = k.disk /\ o.value = s
      BY <2>4 DEF Outcome
    <3> QED
      BY <1>8, <3>1, <3>2
  <2> QED
    BY <1>7, <2>1, <2>2, <2>3, <2>4
<1>10. Forgets(d, o.disk, t) /\ DiskOK(o.disk, n)
  BY <1>1, <1>9 DEF Forgets
<1>11. o.ok => Lists(o.value, o.disk.history)
  BY <1>4, <1>9 DEF Lists
<1> QED
  BY <1>6, <1>9, <1>10, <1>11 DEF o

\* handle_delete removes entries and adds none.
LEMMA DeleteOK ==
    ASSUME NEW n \in Nat, NEW d, DiskOK(d, n), NEW c \in Nat \cup Settings \cup {None}, NEW f
    PROVE  LET o == HandleDelete(d, c, f)
           IN  /\ DiskOK(o.disk, n) /\ o.ok \in BOOLEAN /\ o.value = 0
               /\ o.disk.history = d.history \/ Deletes(d, o.disk)
<1> DEFINE o == HandleDelete(d, c, f)
           h == DeleteByCreatedAt(d.history, c)
           e == [d EXCEPT !.history = h]
<1>1. h \in SUBSET d.history
  BY DEF DeleteByCreatedAt
<1>2. DiskOK(e, n) /\ e.history = h
  BY <1>1, ShrinkOK
<1>3. Deletes(d, e)
  BY <1>2 DEF Deletes
<1>4. o = Outcome(d, FALSE, 0) \/ o = Outcome(e, TRUE, 0)
  BY DEF HandleDelete
<1> HIDE DEF e, o
<1>5. o.disk \in {d, e} /\ o.ok \in BOOLEAN /\ o.value = 0
  <2>1. CASE o = Outcome(d, FALSE, 0)
    <3>1. o.ok = FALSE
      BY <2>1 DEF Outcome
    <3>2. o.disk = d /\ o.value = 0
      BY <2>1 DEF Outcome
    <3> QED
      BY <3>1, <3>2
  <2>2. CASE o = Outcome(e, TRUE, 0)
    <3>1. o.ok = TRUE
      BY <2>2 DEF Outcome
    <3>2. o.disk = e /\ o.value = 0
      BY <2>2 DEF Outcome
    <3> QED
      BY <3>1, <3>2
  <2> QED
    BY <1>4, <2>1, <2>2
<1> QED
  BY <1>2, <1>3, <1>5 DEF o

\* What a request of kind k does to the files.
Changes(d, e, n, t, k) ==
    \/ Forgets(d, e, t)
    \/ k = "generate" /\ Adds(d, e, n + 1, t)
    \/ k = "delete" /\ Deletes(d, e)
Made(n, k) == IF k = "generate" THEN n + 1 ELSE n

\* What a served request does to the files, and what it answers.
LEMMA HandleOK ==
    ASSUME made \in Nat, now \in Nat, DiskOK(disk, made), NEW m \in Requests, NEW f
    PROVE  LET o == Handle(m, f)
           IN  /\ DiskOK(o.disk, Made(made, m.kind)) /\ Changes(disk, o.disk, made, now, m.kind)
               /\ [kind |-> m.kind, ok |-> o.ok, value |-> o.value] \in Answers
               /\ o.ok /\ m.kind = "generate" => o.value = made + 1
               /\ o.ok /\ m.kind = "history" => Lists(o.value, o.disk.history)
<1> DEFINE o == Handle(m, f)
           a == [kind |-> m.kind, ok |-> o.ok, value |-> o.value]
<1>1. /\ m.kind \in Kinds /\ m.arg \in Nat \cup Settings \cup {None}
      /\ m.kind = "generate" => m.arg \in Settings \cup {None}
  BY DEF Requests
<1>2. CASE m.kind = "generate"
  <2>1. o = HandleGenerate(disk, m.arg, made + 1, now, f)
    BY <1>2 DEF Handle
  <2> HIDE DEF o
  <2>2. /\ DiskOK(o.disk, made + 1) /\ o.ok \in BOOLEAN /\ o.value \in Nat
        /\ o.ok => o.value = made + 1
        /\ o.disk.history = disk.history \/ Adds(disk, o.disk, made + 1, now)
    BY <1>1, <1>2, <2>1, GenerateOK
  <2>3. a \in Answers
    BY <1>2, <2>2 DEF Answers, Kinds
  <2> QED
    BY <1>2, <2>2, <2>3 DEF o, Made, Changes, Forgets
<1>3. CASE m.kind = "settings"
  <2>1. o = HandleGetSettings(disk, f)
    BY <1>3 DEF Handle
  <2> HIDE DEF o
  <2>2. /\ o.disk = disk /\ o.ok \in BOOLEAN /\ o.value \in Settings \cup {None}
        /\ o.ok => o.value \in Settings
    BY <2>1, GetSettingsOK
  <2>3. a \in Answers
    BY <1>3, <2>2 DEF Answers, Kinds
  <2> QED
    BY <1>3, <2>2, <2>3 DEF o, Made, Changes, Forgets
<1>4. CASE m.kind = "history"
  <2>1. o = HandleGetHistory(disk, made + 1, now, f)
    BY <1>4 DEF Handle
  <2> HIDE DEF o
  <2>2. /\ DiskOK(o.disk, made) /\ Forgets(disk, o.disk, now)
        /\ o.ok \in BOOLEAN /\ o.value \in Seq(Entries)
        /\ o.ok => Lists(o.value, o.disk.history)
    BY <2>1, GetHistoryOK
  <2>3. a \in Answers
    BY <1>4, <2>2 DEF Answers, Kinds
  <2> QED
    BY <1>4, <2>2, <2>3 DEF o, Made, Changes
<1>5. CASE m.kind = "delete"
  <2>1. o = HandleDelete(disk, m.arg, f)
    BY <1>5 DEF Handle
  <2> HIDE DEF o
  <2>2. /\ DiskOK(o.disk, made) /\ o.ok \in BOOLEAN /\ o.value = 0
        /\ o.disk.history = disk.history \/ Deletes(disk, o.disk)
    BY <1>1, <2>1, DeleteOK
  <2>3. a \in Answers
    BY <1>5, <2>2 DEF Answers, Kinds
  <2> QED
    BY <1>5, <2>2, <2>3 DEF o, Made, Changes, Forgets
<1> QED
  BY <1>1, <1>2, <1>3, <1>4, <1>5 DEF Kinds

\* Wherever a handler dies, the files are as some failed or finished call leaves them.
LEMMA CrashOK ==
    ASSUME made \in Nat, now \in Nat, DiskOK(disk, made), NEW m \in Requests,
           NEW e \in CrashDisks(m)
    PROVE  DiskOK(e, Made(made, m.kind)) /\ Changes(disk, e, made, now, m.kind)
<1>1. m.kind = "generate" => m.arg \in Settings \cup {None}
  BY DEF Requests
<1>2. CASE e = disk
  BY <1>2 DEF DiskOK, Made, Changes, Forgets
<1>3. CASE \E f : e = Handle(m, f).disk
  BY <1>3, HandleOK
<1>4. CASE m.kind = "generate" /\ m.arg # None /\ \E f : e = SaveSettings(disk, m.arg, f)
  <2>1. DiskOK(e, made) /\ e.history = disk.history
    BY <1>1, <1>4, SaveSettingsOK
  <2>2. DiskOK(e, made + 1)
    BY <2>1 DEF DiskOK
  <2> QED
    BY <1>4, <2>1, <2>2 DEF Made, Changes, Forgets
<1> QED
  BY <1>2, <1>3, <1>4 DEF CrashDisks

-----------------------------------------------------------------------------
(* The page.  A field that may be filled has a reason that outlasts whatever *)
(* the page renders and drops: it says what the page has had, not what it  *)
(* shows.                                                                  *)

Spared(p, i) ==
    /\ i \in DOMAIN p.fields /\ p.fields[i].hint # "current-password"
    /\ \/ p.fields[i].hint = "new-password" \/ p.fields[i].scope \in Registration
       \/ \E j \in DOMAIN p.fields :
              /\ j # i /\ p.fields[j].scope = p.fields[i].scope
              /\ p.fields[j].hint # "current-password"
Pages(icons) ==
    [fields : Seq(Field), gone : SUBSET Nat, icons : {icons}, asked : Seq(SUBSET Nat),
     filled : SUBSET Nat, dirty : BOOLEAN]
PageOK(p) ==
    /\ p \in Pages(p.icons)
    /\ p.gone \subseteq DOMAIN p.fields
    /\ \A i \in DOMAIN p.icons : \A k \in p.icons[i] : Spared(p, k)
    /\ \A i \in DOMAIN p.asked : \A k \in p.asked[i] : Spared(p, k)
    /\ \A k \in p.filled : Spared(p, k)

\* A page starts without fields and icons.
LEMMA NewPageOK == PageOK(NewPage)
<1> DEFINE p == NewPage
<1>1. /\ p.fields = <<>> /\ p.gone = {} /\ p.icons = <<>> /\ p.asked = <<>> /\ p.filled = {}
      /\ p \in Pages(p.icons)
  BY DEF NewPage, Pages
<1> HIDE DEF p
<1>2. PageOK(p)
  BY <1>1 DEF PageOK
<1> QED
  BY <1>2 DEF p

\* A field that appears changes no icon.
LEMMA RenderedOK ==
    ASSUME NEW p, PageOK(p), NEW f \in Field
    PROVE  PageOK(Rendered(p, f))
<1> DEFINE q == Rendered(p, f)
           F == Append(p.fields, f)
<1>1. p.fields \in Seq(Field)
  BY DEF PageOK, Pages
<1>2. /\ F \in Seq(Field) /\ DOMAIN p.fields \subseteq DOMAIN F
      /\ \A i \in DOMAIN p.fields : F[i] = p.fields[i]
  BY <1>1
<1> HIDE DEF F
<1>3. /\ q.fields = F /\ q.gone = p.gone /\ q.icons = p.icons /\ q.asked = p.asked
      /\ q.filled = p.filled
      /\ q \in Pages(q.icons)
  BY <1>2 DEF Rendered, PageOK, Pages, F
<1> HIDE DEF q
<1>4. \A k : Spared(p, k) => Spared(q, k)
  BY <1>2, <1>3 DEF Spared
<1>5. PageOK(q)
  BY <1>2, <1>3, <1>4 DEF PageOK
<1> QED
  BY <1>5 DEF q

\* Fields that disappear change no icon.
LEMMA DroppedOK ==
    ASSUME NEW p, PageOK(p), NEW fs \in SUBSET Shown(p)
    PROVE  PageOK(Dropped(p, fs))
<1> DEFINE q == Dropped(p, fs)
           G == p.gone \cup fs
<1>1. p.fields \in Seq(Field) /\ DOMAIN p.fields \subseteq Nat
  BY DEF PageOK, Pages
<1>2. G \subseteq DOMAIN p.fields /\ G \in SUBSET Nat
  BY <1>1 DEF PageOK, Shown
<1> HIDE DEF G
<1>3. /\ q.fields = p.fields /\ q.gone = G /\ q.icons = p.icons /\ q.asked = p.asked
      /\ q.filled = p.filled
      /\ q \in Pages(q.icons)
  BY <1>2 DEF Dropped, PageOK, Pages, G
<1> HIDE DEF q
<1>4. \A k : Spared(p, k) => Spared(q, k)
  BY <1>3 DEF Spared
<1>5. PageOK(q)
  BY <1>2, <1>3, <1>4 DEF PageOK
<1> QED
  BY <1>5 DEF q

\* passwordGroupIn takes no lone field of a form that is not a sign-up form.
LEMMA GroupSpared ==
    ASSUME NEW p, PageOK(p), NEW s \in Scopes, NEW k \in PasswordGroupIn(p, s)
    PROVE  Spared(p, k)
<1> DEFINE N == NonCurrent(p, s)
<1>1. p.fields \in Seq(Field) /\ IsFiniteSet(DOMAIN p.fields)
  <2>1. p.fields \in Seq(Field)
    BY DEF PageOK, Pages
  <2>2. DOMAIN p.fields = 1 .. Len(p.fields) /\ Len(p.fields) \in Nat
    BY <2>1
  <2> QED
    BY <2>1, <2>2, FS_Interval
<1>2. CASE k \in NewPasswords(p, s)
  BY <1>2 DEF NewPasswords, FieldsOf, Shown, Spared
<1>3. N \in SUBSET DOMAIN p.fields
  BY DEF NonCurrent, FieldsOf, Shown
<1>4. \A i \in N : i \in DOMAIN p.fields /\ i \notin p.gone /\ p.fields[i].scope = s
                   /\ p.fields[i].hint # "current-password"
  BY DEF NonCurrent, FieldsOf, Shown
<1> HIDE DEF N
<1>5. CASE k \in N /\ Cardinality(N) >= 2
  <2>1. N # {k}
    BY <1>5, FS_Singleton
  <2>2. PICK j \in N : j # k
    BY <1>5, <2>1
  <2> QED
    BY <1>4, <1>5, <2>2 DEF Spared
<1>6. CASE k \in N /\ LooksLikeRegistration(s)
  BY <1>4, <1>6 DEF LooksLikeRegistration, Spared
<1> QED
  BY <1>2, <1>5, <1>6 DEF PasswordGroupIn, N

\* scanAndDecorate keeps the icons there are and adds some for eligible groups.
LEMMA ScanOK ==
    ASSUME NEW p, PageOK(p)
    PROVE  PageOK(ScanAndDecorate(p))
<1> DEFINE q == ScanAndDecorate(p)
           groups == {PasswordGroupIn(p, s) : s \in Scopes}
           I == [i \in DOMAIN p.icons \cup UNION groups |->
                   IF i \in DOMAIN p.icons THEN p.icons[i] ELSE CHOOSE g \in groups : i \in g]
<1>1. \A g \in groups : \A k \in g : Spared(p, k)
  BY GroupSpared
<1> HIDE DEF groups
<1>2. \A i \in DOMAIN I : \A k \in I[i] : Spared(p, k)
  <2> SUFFICES ASSUME NEW i \in DOMAIN I PROVE \A k \in I[i] : Spared(p, k)
    OBVIOUS
  <2>1. CASE i \in DOMAIN p.icons
    BY <2>1 DEF PageOK
  <2>2. CASE i \notin DOMAIN p.icons
    <3>1. \E g \in groups : i \in g
      BY <2>2
    <3>2. I[i] \in groups
      BY <2>2, <3>1
    <3> QED
      BY <1>1, <3>2
  <2> QED
    BY <2>1, <2>2
<1> HIDE DEF I
<1>3. /\ q.fields = p.fields /\ q.gone = p.gone /\ q.icons = I /\ q.asked = p.asked
      /\ q.filled = p.filled
      /\ q \in Pages(q.icons)
  BY DEF ScanAndDecorate, PageOK, Pages, I, groups
<1> HIDE DEF q
<1>4. \A k : Spared(p, k) => Spared(q, k)
  BY <1>3 DEF Spared
<1>5. PageOK(q)
  BY <1>2, <1>3, <1>4 DEF PageOK
<1> QED
  BY <1>5 DEF q

\* repositionAll drops the icons of fields that are gone.
LEMMA RepositionOK ==
    ASSUME NEW p, PageOK(p)
    PROVE  PageOK(RepositionAll(p))
<1> DEFINE q == RepositionAll(p)
           I == [i \in DOMAIN p.icons \cap Shown(p) |-> p.icons[i]]
<1>1. \A i \in DOMAIN I : \A k \in I[i] : Spared(p, k)
  BY DEF PageOK
<1> HIDE DEF I
<1>2. /\ q.fields = p.fields /\ q.gone = p.gone /\ q.icons = I /\ q.asked = p.asked
      /\ q.filled = p.filled
      /\ q \in Pages(q.icons)
  BY DEF RepositionAll, PageOK, Pages, I
<1> HIDE DEF q
<1>3. \A k : Spared(p, k) => Spared(q, k)
  BY <1>2 DEF Spared
<1>4. PageOK(q)
  BY <1>1, <1>2, <1>3 DEF PageOK
<1> QED
  BY <1>4 DEF q

\* A click asks for a password for the group of fields its icon stands for.
LEMMA ClickedOK ==
    ASSUME NEW p, PageOK(p), NEW i \in DOMAIN p.icons
    PROVE  PageOK(Clicked(p, i))
<1> DEFINE q == Clicked(p, i)
           A == Append(p.asked, p.icons[i])
<1>1. p.asked \in Seq(SUBSET Nat) /\ p.fields \in Seq(Field)
  BY DEF PageOK, Pages
<1>2. p.icons[i] \in SUBSET Nat
  BY <1>1 DEF PageOK, Spared
<1>3. A \in Seq(SUBSET Nat) /\ \A j \in DOMAIN A : A[j] = p.icons[i] \/ (j \in DOMAIN p.asked /\ A[j] = p.asked[j])
  BY <1>1, <1>2
<1> HIDE DEF A
<1>4. \A j \in DOMAIN A : \A k \in A[j] : Spared(p, k)
  BY <1>3 DEF PageOK
<1>5. /\ q.fields = p.fields /\ q.gone = p.gone /\ q.icons = p.icons /\ q.asked = A
      /\ q.filled = p.filled
      /\ q \in Pages(q.icons)
  BY <1>3 DEF Clicked, PageOK, Pages, A
<1> HIDE DEF q
<1>6. \A k : Spared(p, k) => Spared(q, k)
  BY <1>5 DEF Spared
<1>7. PageOK(q)
  BY <1>4, <1>5, <1>6 DEF PageOK
<1> QED
  BY <1>7 DEF q

\* The answer fills the group of fields the oldest click was made for.
LEMMA GenerateAnswerOK ==
    ASSUME NEW p, PageOK(p), p.asked # <<>>, NEW ok \in BOOLEAN
    PROVE  PageOK(OnGenerateAnswer(p, ok))
<1> DEFINE q == OnGenerateAnswer(p, ok)
           A == Tail(p.asked)
           F == IF ok THEN p.filled \cup Head(p.asked) ELSE p.filled
<1>1. p.asked \in Seq(SUBSET Nat) /\ p.filled \in SUBSET Nat
  BY DEF PageOK, Pages
<1>2. /\ A \in Seq(SUBSET Nat) /\ Head(p.asked) \in SUBSET Nat
      /\ Head(p.asked) = p.asked[1] /\ 1 \in DOMAIN p.asked
      /\ \A j \in DOMAIN A : j + 1 \in DOMAIN p.asked /\ A[j] = p.asked[j + 1]
  BY <1>1
<1>3. F \in SUBSET Nat /\ \A k \in F : Spared(p, k)
  BY <1>1, <1>2 DEF PageOK
<1> HIDE DEF A, F
<1>4. \A j \in DOMAIN A : \A k \in A[j] : Spared(p, k)
  BY <1>2 DEF PageOK
<1>5. /\ q.fields = p.fields /\ q.gone = p.gone /\ q.icons = p.icons /\ q.asked = A
      /\ q.filled = F
      /\ q \in Pages(q.icons)
  BY <1>2, <1>3 DEF OnGenerateAnswer, PageOK, Pages, A, F
<1> HIDE DEF q
<1>6. \A k : Spared(p, k) => Spared(q, k)
  BY <1>5 DEF Spared
<1>7. PageOK(q)
  BY <1>3, <1>4, <1>5, <1>6 DEF PageOK
<1> QED
  BY <1>7 DEF q

\* A page in order has no login field touched.
LEMMA PageSpares ==
    ASSUME NEW p, PageOK(p)
    PROVE  LoginFieldsUntouched(p)
<1> SUFFICES ASSUME NEW i \in p.filled, i \in Shown(p)
             PROVE  p.fields[i].hint # "current-password" /\ ~LoginField(p, i)
  BY DEF LoginFieldsUntouched
<1>1. Spared(p, i)
  BY DEF PageOK
<1> QED
  BY <1>1 DEF Spared, LoginField, Shown, LooksLikeRegistration

-----------------------------------------------------------------------------
(* The pane's requests and answers.  The answers that have been given and  *)
(* not yet handled, the oldest first:                                      *)

Ahead(l) == l.inbox \o l.reply
Links == [waiting : Seq(Requests), reply : Seq(Answers), inbox : Seq(Answers)]

\* The answers still ahead of the pane, in order.
LEMMA AheadTyped ==
    ASSUME NEW l \in Links
    PROVE  Ahead(l) \in Seq(Answers)
  BY DEF Ahead, Links

\* An answer joins them at the end.
LEMMA AheadAnswered ==
    ASSUME NEW l \in Links, CanServe(l), NEW a \in Answers
    PROVE  /\ Answered(l, a) \in Links /\ Ahead(Answered(l, a)) = Append(Ahead(l), a)
           /\ Answered(l, a).waiting = Tail(l.waiting)
<1> DEFINE r == Answered(l, a)
<1>1. l.waiting \in Seq(Requests) /\ l.waiting # <<>> /\ l.reply = <<>> /\ l.inbox \in Seq(Answers)
  BY DEF CanServe, Links
<1>2. Tail(l.waiting) \in Seq(Requests) /\ <<a>> \in Seq(Answers)
  BY <1>1
<1>3. r \in Links /\ r.waiting = Tail(l.waiting) /\ r.reply = <<a>> /\ r.inbox = l.inbox
  BY <1>2 DEF Answered, Links
<1> HIDE DEF r
<1>4. l.inbox \o <<a>> = Append(l.inbox \o <<>>, a)
  BY <1>1
<1> QED
  BY <1>1, <1>3, <1>4 DEF Ahead, r

\* Delivery does not reorder them.
LEMMA AheadDelivered ==
    ASSUME NEW l \in Links
    PROVE  /\ Delivered(l) \in Links /\ Ahead(Delivered(l)) = Ahead(l)
           /\ Delivered(l).waiting = l.waiting
<1> DEFINE r == Delivered(l)
<1>1. l.reply \in Seq(Answers) /\ l.inbox \in Seq(Answers)
  BY DEF Links
<1>2. l.inbox \o l.reply \in Seq(Answers) /\ <<>> \in Seq(Answers)
  BY <1>1
<1>3. r \in Links /\ r.waiting = l.waiting /\ r.reply = <<>> /\ r.inbox = l.inbox \o l.reply
  BY <1>2 DEF Delivered, Links
<1> HIDE DEF r
<1>4. (l.inbox \o l.reply) \o <<>> = l.inbox \o l.reply
  BY <1>2
<1> QED
  BY <1>3, <1>4 DEF Ahead, r

\* Head and tail of a concatenation whose first part is not empty.
LEMMA HeadTailConcat ==
    ASSUME NEW S, NEW s \in Seq(S), NEW t \in Seq(S), s # <<>>
    PROVE  s \o t # <<>> /\ Head(s \o t) = Head(s) /\ Tail(s \o t) = Tail(s) \o t
<1> DEFINE u == s \o t
           a == Tail(u)
           b == Tail(s) \o t
<1>1. /\ u \in Seq(S) /\ Len(u) = Len(s) + Len(t) /\ Len(s) \in Nat \ {0} /\ Len(t) \in Nat
      /\ \A i \in 1 .. Len(s) + Len(t) : u[i] = IF i <= Len(s) THEN s[i] ELSE t[i - Len(s)]
  BY ConcatProperties
<1>2. /\ Tail(s) \in Seq(S) /\ Len(Tail(s)) = Len(s) - 1
      /\ \A i \in 1 .. Len(s) - 1 : Tail(s)[i] = s[i + 1]
  BY HeadTailProperties
<1> HIDE DEF u
<1>3. u # <<>> /\ Head(u) = u[1] /\ Head(s) = s[1]
  BY <1>1
<1>4. /\ a \in Seq(S) /\ Len(a) = Len(u) - 1
      /\ \A i \in 1 .. Len(u) - 1 : a[i] = u[i + 1]
  BY <1>1, <1>3, HeadTailProperties
<1>5. /\ b \in Seq(S) /\ Len(b) = Len(s) - 1 + Len(t)
      /\ \A i \in 1 .. Len(s) - 1 + Len(t) :
             b[i] = IF i <= Len(s) - 1 THEN Tail(s)[i] ELSE t[i - (Len(s) - 1)]
  BY <1>1, <1>2, ConcatProperties
<1> HIDE DEF a, b
<1>6. ASSUME NEW i \in 1 .. Len(a) PROVE a[i] = b[i]
  <2>1. i \in 1 .. Len(s) + Len(t) - 1 /\ i + 1 \in 1 .. Len(s) + Len(t)
    BY <1>1, <1>4
  <2>2. a[i] = u[i + 1]
    BY <1>1, <1>4, <2>1
  <2>3. CASE i <= Len(s) - 1
    BY <1>1, <1>2, <1>5, <2>1, <2>2, <2>3
  <2>4. CASE ~(i <= Len(s) - 1)
    <3>1. i + 1 - Len(s) = i - (Len(s) - 1)
      BY <1>1, <2>1
    <3>2. u[i + 1] = t[i + 1 - Len(s)]
      BY <1>1, <2>1, <2>4
    <3>3. b[i] = t[i - (Len(s) - 1)]
      BY <1>1, <1>5, <2>1, <2>4
    <3> QED
      BY <2>2, <3>1, <3>2, <3>3
  <2> QED
    BY <2>3, <2>4
<1>7. a = b
  <2>1. Len(a) = Len(b)
    BY <1>1, <1>4, <1>5
  <2>2. \A i \in 1 .. Len(a) : a[i] = b[i]
    BY <1>6
  <2> QED
    BY <1>4, <1>5, <2>1, <2>2, SeqEqual
<1> QED
  BY <1>1, <1>3, <1>7 DEF u, a, b

\* The pane takes the first of them.
LEMMA AheadTaken ==
    ASSUME NEW l \in Links, l.inbox # <<>>
    PROVE  /\ Taken(l) \in Links /\ Ahead(Taken(l)) = Tail(Ahead(l))
           /\ Taken(l).waiting = l.waiting
           /\ Ahead(l) # <<>> /\ Head(Ahead(l)) = Head(l.inbox) /\ Head(l.inbox) \in Answers
<1> DEFINE r == Taken(l)
<1>1. l.reply \in Seq(Answers) /\ l.inbox \in Seq(Answers)
  BY DEF Links
<1>2. Tail(l.inbox) \in Seq(Answers) /\ Head(l.inbox) \in Answers
  BY <1>1
<1>3. r \in Links /\ r.waiting = l.waiting /\ r.reply = l.reply /\ r.inbox = Tail(l.inbox)
  BY <1>2 DEF Taken, Links
<1> HIDE DEF r
<1>4. /\ Tail(l.inbox \o l.reply) = Tail(l.inbox) \o l.reply
      /\ Head(l.inbox \o l.reply) = Head(l.inbox) /\ l.inbox \o l.reply # <<>>
  BY <1>1, HeadTailConcat
<1> QED
  BY <1>2, <1>3, <1>4 DEF Ahead, r

\* A request that is sent changes none of them.
LEMMA AheadEnqueued ==
    ASSUME NEW l \in Links, NEW q \in Seq(Requests)
    PROVE  /\ Enqueue(l, q) \in Links /\ Ahead(Enqueue(l, q)) = Ahead(l)
           /\ Enqueue(l, q).waiting = l.waiting \o q
<1> DEFINE r == Enqueue(l, q)
<1>1. l.waiting \o q \in Seq(Requests)
  BY DEF Links
<1>2. r \in Links /\ r.waiting = l.waiting \o q /\ r.reply = l.reply /\ r.inbox = l.inbox
  BY <1>1 DEF Enqueue, Links
<1> HIDE DEF r
<1> QED
  BY <1>2 DEF Ahead, r

-----------------------------------------------------------------------------
(* Following a generated password: the answers that reach the pane after it *)
(* list it as long as the file has it.                                     *)

InFile(d, v) == \E e \in d.history : e.password = v
ShownIn(s, v) == \E i \in DOMAIN s : s[i].password = v
IsHistory(a) == a.kind = "history" /\ a.ok
IsPassword(a) == a.kind = "generate" /\ a.ok

\* The pane shows password r as its result; answers are the ones to come.
Follows(d, n, r, answers) ==
    /\ r \in 0 .. n
    /\ \A i \in DOMAIN answers : IsPassword(answers[i]) => answers[i].value \in 0 .. n
    /\ \A i \in DOMAIN answers :
           IsHistory(answers[i]) /\ InFile(d, r) => ShownIn(answers[i].value, r)
    /\ \A i, j \in DOMAIN answers :
           i < j /\ IsPassword(answers[i]) /\ IsHistory(answers[j]) /\ InFile(d, answers[i].value)
               => ShownIn(answers[j].value, answers[i].value)

\* No password comes back.
NoneReturns(d, e, n) == \A v \in 0 .. n : InFile(e, v) => InFile(d, v)

\* No handler brings a deleted password back.
LEMMA ChangesReturnNone ==
    ASSUME NEW n \in Nat, NEW d, NEW e, NEW t, NEW k, Changes(d, e, n, t, k)
    PROVE  NoneReturns(d, e, n)
<1>1. CASE Forgets(d, e, t)
  BY <1>1 DEF Forgets, NoneReturns, InFile
<1>2. CASE Adds(d, e, n + 1, t)
  <2>1. PICK x \in e.history : x.password = n + 1 /\ e.history = Prune(d.history, t) \cup {x}
    BY <1>2 DEF Adds
  <2>2. \A v \in 0 .. n : v # n + 1
    OBVIOUS
  <2> QED
    BY <2>1, <2>2 DEF Prune, NoneReturns, InFile
<1>3. CASE Deletes(d, e)
  BY <1>3 DEF Deletes, DeleteByCreatedAt, NoneReturns, InFile
<1> QED
  BY <1>1, <1>2, <1>3 DEF Changes

\* What the pane and the answers ahead say stays true of later files.
LEMMA FollowsFiles ==
    ASSUME NEW d, NEW e, NEW n \in Nat, NEW m \in Nat, n <= m, NoneReturns(d, e, n),
           NEW r, NEW answers, Follows(d, n, r, answers)
    PROVE  Follows(e, m, r, answers)
<1>1. r \in 0 .. n /\ r \in 0 .. m /\ \A v \in 0 .. n : v \in 0 .. m
  BY DEF Follows
<1> QED
  BY <1>1 DEF Follows, NoneReturns

\* The agent answers: a history that lists the file, or a password.
LEMMA FollowsAnswer ==
    ASSUME NEW d, NEW n \in Nat, NEW r, NEW answers \in Seq(Answers), Follows(d, n, r, answers),
           NEW a \in Answers, IsHistory(a) => Lists(a.value, d.history),
           IsPassword(a) => a.value \in 0 .. n
    PROVE  Follows(d, n, r, Append(answers, a))
<1> DEFINE s == Append(answers, a)
           len == Len(answers)
<1>1. /\ len \in Nat /\ DOMAIN answers = 1 .. len /\ DOMAIN s = 1 .. len + 1
      /\ s[len + 1] = a /\ \A i \in 1 .. len : s[i] = answers[i]
  OBVIOUS
<1>2. ASSUME IsHistory(a), NEW v, InFile(d, v) PROVE ShownIn(a.value, v)
  BY <1>2 DEF Lists, InFile, ShownIn
<1> HIDE DEF s, len
<1>3. ASSUME NEW i \in DOMAIN s
      PROVE  /\ IsPassword(s[i]) => s[i].value \in 0 .. n
             /\ IsHistory(s[i]) /\ InFile(d, r) => ShownIn(s[i].value, r)
  <2>1. CASE i = len + 1
    BY <1>1, <1>2, <2>1
  <2>2. CASE i # len + 1
    <3>1. i \in DOMAIN answers /\ s[i] = answers[i]
      BY <1>1, <2>2
    <3> QED
      BY <3>1 DEF Follows
  <2> QED
    BY <2>1, <2>2
<1>4. ASSUME NEW i \in DOMAIN s, NEW j \in DOMAIN s, i < j, IsPassword(s[i]), IsHistory(s[j]),
             InFile(d, s[i].value)
      PROVE  ShownIn(s[j].value, s[i].value)
  <2>1. CASE j = len + 1
    BY <1>1, <1>2, <1>4, <2>1
  <2>2. CASE j # len + 1
    <3>1. /\ i \in DOMAIN answers /\ s[i] = answers[i]
          /\ j \in DOMAIN answers /\ s[j] = answers[j]
      BY <1>1, <1>4, <2>2
    <3> QED
      BY <1>4, <3>1 DEF Follows
  <2> QED
    BY <2>1, <2>2
<1>5. Follows(d, n, r, s)
  BY <1>3, <1>4 DEF Follows
<1> QED
  BY <1>5 DEF s

\* The pane takes the oldest answer.
LEMMA FollowsTaken ==
    ASSUME NEW d, NEW n \in Nat, NEW r, NEW answers \in Seq(Answers), answers # <<>>,
           Follows(d, n, r, answers)
    PROVE  /\ Follows(d, n, r, Tail(answers))
           /\ IsPassword(Head(answers)) => Follows(d, n, Head(answers).value, Tail(answers))
           /\ IsHistory(Head(answers)) /\ InFile(d, r) => ShownIn(Head(answers).value, r)
<1> DEFINE s == Tail(answers)
<1>1. /\ 1 \in DOMAIN answers /\ Head(answers) = answers[1]
      /\ \A i \in DOMAIN s : /\ i \in Nat /\ i + 1 \in DOMAIN answers
                             /\ s[i] = answers[i + 1] /\ 1 < i + 1
  OBVIOUS
<1> HIDE DEF s
<1>2. ASSUME NEW i \in DOMAIN s
      PROVE  /\ IsPassword(s[i]) => s[i].value \in 0 .. n
             /\ IsHistory(s[i]) /\ InFile(d, r) => ShownIn(s[i].value, r)
             /\ IsPassword(Head(answers)) /\ IsHistory(s[i]) /\ InFile(d, Head(answers).value)
                    => ShownIn(s[i].value, Head(answers).value)
  BY <1>1 DEF Follows
<1>3. ASSUME NEW i \in DOMAIN s, NEW j \in DOMAIN s, i < j, IsPassword(s[i]), IsHistory(s[j]),
             InFile(d, s[i].value)
      PROVE  ShownIn(s[j].value, s[i].value)
  <2>1. i + 1 < j + 1 /\ i + 1 \in DOMAIN answers /\ j + 1 \in DOMAIN answers
    BY <1>1, <1>3
  <2>2. s[i] = answers[i + 1] /\ s[j] = answers[j + 1]
    BY <1>1
  <2> QED
    BY <1>3, <2>1, <2>2 DEF Follows
<1>4. Follows(d, n, r, s)
  BY <1>2, <1>3 DEF Follows
<1>5. IsPassword(Head(answers)) => Follows(d, n, Head(answers).value, s)
  BY <1>1, <1>2, <1>3 DEF Follows
<1> QED
  BY <1>1, <1>4, <1>5 DEF Follows, s

-----------------------------------------------------------------------------
(* The invariant *)

Panes == [open : BOOLEAN, settings : Settings, result : Nat, resultRevealed : BOOLEAN,
          history : Seq(Entries), revealed : SUBSET Nat, pending : Nat, error : BOOLEAN,
          chosen : SUBSET Nat]
PaneOK(p) ==
    /\ p \in Panes
    /\ \A i \in p.revealed : i \in DOMAIN p.history /\ p.history[i].password \in p.chosen
    /\ p.resultRevealed => p.result \in p.chosen

\* A history has been asked for, or its answer is on the way.
HasHistory(s) == \E i \in DOMAIN s : s[i].kind = "history"
Coming(l) == HasHistory(l.waiting) \/ HasHistory(Ahead(l))
Shows(d, p, l) ==
    p.result # 0 /\ ~p.error /\ InFile(d, p.result) => ShownIn(p.history, p.result) \/ Coming(l)

Inv ==
    /\ now \in Nat /\ made \in Nat /\ DiskOK(disk, made)
    /\ PaneOK(pane) /\ link \in Links /\ PageOK(page)
    /\ Follows(disk, made, pane.result, Ahead(link)) /\ Shows(disk, pane, link)

\* What a step may do to the files.
Keeps ==
    /\ made' \in {made, made + 1} /\ DiskOK(disk', made')
    /\ \/ disk' = disk
       \/ now' = now /\ \E k \in Kinds : Changes(disk, disk', made, now, k)

\* Files in order stay in order when another password has been made.
LEMMA DiskLater ==
    ASSUME NEW d, NEW n \in Nat, NEW m \in Nat, n <= m, DiskOK(d, n)
    PROVE  DiskOK(d, m)
  BY DEF DiskOK

\* The files change under the pane.
LEMMA KeepsFollows ==
    ASSUME Inv, Keeps
    PROVE  /\ made' \in Nat /\ made <= made'
           /\ Follows(disk', made', pane.result, Ahead(link)) /\ Shows(disk', pane, link)
<1>1. made \in Nat /\ made' \in Nat /\ made <= made'
  BY DEF Inv, Keeps
<1>2. NoneReturns(disk, disk', made)
  <2>1. CASE disk' = disk
    BY <2>1 DEF NoneReturns
  <2>2. CASE \E k \in Kinds : Changes(disk, disk', made, now, k)
    BY <1>1, <2>2, ChangesReturnNone
  <2> QED
    BY <2>1, <2>2 DEF Keeps
<1>3. Follows(disk', made', pane.result, Ahead(link))
  BY <1>1, <1>2, FollowsFiles DEF Inv
<1>4. Shows(disk', pane, link)
  BY <1>2 DEF Inv, Shows, Follows, NoneReturns
<1> QED
  BY <1>1, <1>3, <1>4

\* A history that was asked for is still coming once the agent has answered.
LEMMA ComingAnswered ==
    ASSUME NEW l \in Links, CanServe(l), NEW a \in Answers, a.kind = Head(l.waiting).kind, Coming(l)
    PROVE  Coming(Answered(l, a))
<1>1. l.waiting \in Seq(Requests) /\ l.waiting # <<>>
  BY DEF Links, CanServe
<1>2. Ahead(l) \in Seq(Answers)
  BY AheadTyped
<1> DEFINE s == Append(Ahead(l), a)
<1>3. /\ Ahead(Answered(l, a)) = s /\ Answered(l, a).waiting = Tail(l.waiting)
  BY AheadAnswered
<1>4. /\ Len(Ahead(l)) + 1 \in DOMAIN s /\ s[Len(Ahead(l)) + 1] = a
      /\ \A i \in DOMAIN Ahead(l) : i \in DOMAIN s /\ s[i] = Ahead(l)[i]
  BY <1>2
<1> HIDE DEF s
<1>5. CASE HasHistory(Ahead(l))
  <2>1. HasHistory(s)
    BY <1>4, <1>5 DEF HasHistory
  <2> QED
    BY <1>3, <2>1 DEF Coming
<1>6. CASE HasHistory(l.waiting)
  <2>1. PICK i \in DOMAIN l.waiting : l.waiting[i].kind = "history"
    BY <1>6 DEF HasHistory
  <2>2. CASE i = 1
    <3>1. a.kind = "history"
      BY <1>1, <2>1, <2>2
    <3>2. HasHistory(s)
      BY <1>4, <3>1 DEF HasHistory
    <3> QED
      BY <1>3, <3>2 DEF Coming
  <2>3. CASE i # 1
    <3>1. i - 1 \in DOMAIN Tail(l.waiting) /\ Tail(l.waiting)[i - 1] = l.waiting[i]
      BY <1>1, <2>1, <2>3
    <3>2. HasHistory(Tail(l.waiting))
      BY <2>1, <3>1 DEF HasHistory
    <3> QED
      BY <1>3, <3>2 DEF Coming
  <2> QED
    BY <2>2, <2>3
<1> QED
  BY <1>5, <1>6 DEF Coming

\* Another request does not take it off the way.
LEMMA ComingEnqueued ==
    ASSUME NEW l \in Links, NEW q \in Seq(Requests), Coming(l) \/ HasHistory(q)
    PROVE  Coming(Enqueue(l, q))
<1> DEFINE w == l.waiting \o q
<1>1. Ahead(Enqueue(l, q)) = Ahead(l) /\ Enqueue(l, q).waiting = w
  BY AheadEnqueued
<1>2. /\ l.waiting \in Seq(Requests) /\ Len(l.waiting) \in Nat
      /\ \A i \in DOMAIN l.waiting : i \in DOMAIN w /\ w[i] = l.waiting[i]
      /\ \A i \in DOMAIN q : Len(l.waiting) + i \in DOMAIN w /\ w[Len(l.waiting) + i] = q[i]
  BY DEF Links
<1> HIDE DEF w
<1>3. HasHistory(l.waiting) \/ HasHistory(q) => HasHistory(w)
  BY <1>2 DEF HasHistory
<1> QED
  BY <1>1, <1>3 DEF Coming

\* It comes until the pane takes it.
LEMMA ComingTaken ==
    ASSUME NEW l \in Links, l.inbox # <<>>, Coming(l)
    PROVE  Coming(Taken(l)) \/ Head(l.inbox).kind = "history"
<1> DEFINE A == Ahead(l)
<1>1. /\ A \in Seq(Answers) /\ A # <<>> /\ Head(A) = Head(l.inbox)
      /\ Ahead(Taken(l)) = Tail(A) /\ Taken(l).waiting = l.waiting
  BY AheadTyped, AheadTaken
<1> HIDE DEF A
<1>2. CASE HasHistory(l.waiting)
  BY <1>1, <1>2 DEF Coming
<1>3. CASE HasHistory(A)
  <2>1. PICK i \in DOMAIN A : A[i].kind = "history"
    BY <1>3 DEF HasHistory
  <2>2. CASE i = 1
    BY <1>1, <2>1, <2>2
  <2>3. CASE i # 1
    <3>1. i - 1 \in DOMAIN Tail(A) /\ Tail(A)[i - 1] = A[i]
      BY <1>1, <2>1, <2>3
    <3>2. HasHistory(Tail(A))
      BY <2>1, <3>1 DEF HasHistory
    <3> QED
      BY <1>1, <3>2 DEF Coming
  <2> QED
    BY <2>2, <2>3
<1> QED
  BY <1>2, <1>3 DEF Coming, A

-----------------------------------------------------------------------------
(* The steps: the agent *)

\* The agent serves one request.
LEMMA ServeOK ==
    ASSUME Inv, NEW f, Serve(f)
    PROVE  Inv' /\ Keeps /\ now' = now
<1> DEFINE m == Head(link.waiting)
           o == Handle(m, f)
           a == [kind |-> m.kind, ok |-> o.ok, value |-> o.value]
<1>1. /\ CanServe(link) /\ disk' = o.disk /\ Count(o.disk, m) /\ link' = Answered(link, a)
      /\ UNCHANGED <<now, pane, page>>
  BY DEF Serve
<1>2. m \in Requests /\ made \in Nat /\ link \in Links
  BY <1>1 DEF Inv, Links, CanServe
<1> HIDE DEF m, o
<1>3. /\ DiskOK(o.disk, Made(made, m.kind)) /\ Changes(disk, o.disk, made, now, m.kind)
      /\ a \in Answers
      /\ o.ok /\ m.kind = "generate" => o.value = made + 1
      /\ o.ok /\ m.kind = "history" => Lists(o.value, o.disk.history)
  BY <1>2, HandleOK DEF Inv, o
<1>4. a.kind = m.kind /\ a.ok = o.ok /\ a.value = o.value
  OBVIOUS
<1> HIDE DEF a
<1>5. Keeps
  <2>1. /\ made' \in {made, made + 1} /\ Made(made, m.kind) \in Nat
        /\ Made(made, m.kind) <= made' /\ made' \in Nat
    BY <1>1, <1>2 DEF Count, Made
  <2>2. DiskOK(disk', made')
    BY <1>1, <1>3, <2>1, DiskLater
  <2>3. m.kind \in Kinds
    BY <1>2 DEF Requests
  <2> QED
    BY <1>1, <1>3, <2>1, <2>2, <2>3 DEF Keeps
<1>6. /\ made' \in Nat /\ made <= made'
      /\ Follows(disk', made', pane.result, Ahead(link)) /\ Shows(disk', pane, link)
  BY <1>5, KeepsFollows
<1>7. link' \in Links /\ Ahead(link') = Append(Ahead(link), a)
  BY <1>1, <1>2, <1>3, AheadAnswered
<1>8. Follows(disk', made', pane.result, Ahead(link'))
  <2>1. IsHistory(a) => Lists(a.value, disk'.history)
    BY <1>1, <1>3, <1>4 DEF IsHistory
  <2>2. IsPassword(a) => a.value \in 0 .. made'
    <3>1. m.kind = "generate" => made' = made + 1
      BY <1>1 DEF Count
    <3> QED
      BY <1>2, <1>3, <1>4, <3>1 DEF IsPassword
  <2>3. Ahead(link) \in Seq(Answers)
    BY <1>2, AheadTyped
  <2> QED
    BY <1>3, <1>6, <1>7, <2>1, <2>2, <2>3, FollowsAnswer
<1>9. Shows(disk', pane, link')
  <2>1. Coming(link) => Coming(link')
    BY <1>1, <1>2, <1>3, <1>4, ComingAnswered DEF m
  <2> QED
    BY <1>6, <2>1 DEF Shows
<1> QED
  BY <1>1, <1>5, <1>6, <1>7, <1>8, <1>9 DEF Inv, Keeps

\* A step that touches only the files and the page.
LEMMA FilesOK ==
    ASSUME Inv, Keeps, UNCHANGED <<pane, link>>, now' \in Nat, PageOK(page')
    PROVE  Inv'
<1>1. /\ made' \in Nat
      /\ Follows(disk', made', pane.result, Ahead(link)) /\ Shows(disk', pane, link)
  BY KeepsFollows
<1> QED
  BY <1>1 DEF Inv, Keeps

\* The request that is repeated on a new connection.
LEMMA AheadRepeated ==
    ASSUME NEW l \in Links, CanServe(l)
    PROVE  LET r == [l EXCEPT !.waiting[1].attempt = 1]
           IN  r \in Links /\ Ahead(r) = Ahead(l) /\ (Coming(l) => Coming(r))
<1> DEFINE w == [l.waiting EXCEPT ![1].attempt = 1]
           r == [l EXCEPT !.waiting[1].attempt = 1]
<1>1. l.waiting \in Seq(Requests) /\ 1 \in DOMAIN l.waiting /\ l.waiting[1] \in Requests
  BY DEF Links, CanServe
<1> DEFINE x == [l.waiting[1] EXCEPT !.attempt = 1]
<1>2. x \in Requests /\ x.kind = l.waiting[1].kind
  BY <1>1 DEF Requests
<1>3. w = [l.waiting EXCEPT ![1] = x]
  OBVIOUS
<1> HIDE DEF x, w
<1>4. w \in Seq(Requests)
  BY <1>1, <1>2, <1>3
<1>5. DOMAIN w = DOMAIN l.waiting /\ \A i \in DOMAIN w : w[i].kind = l.waiting[i].kind
  BY <1>1, <1>2, <1>3
<1>6. r \in Links /\ r.waiting = w /\ r.inbox = l.inbox /\ r.reply = l.reply
  BY <1>4 DEF w, Links
<1> HIDE DEF r
<1>7. Ahead(r) = Ahead(l) /\ (Coming(l) => Coming(r))
  BY <1>5, <1>6 DEF Ahead, Coming, HasHistory
<1> QED
  BY <1>6, <1>7 DEF r

\* The agent stops in the middle of a write.
LEMMA CrashStepOK ==
    ASSUME Inv, Crash
    PROVE  Inv' /\ Keeps /\ now' = now
<1> DEFINE m == Head(link.waiting)
           a == [kind |-> m.kind, ok |-> FALSE, value |-> 0]
<1>1. /\ CanServe(link) /\ disk' \in CrashDisks(m) /\ Count(disk', m)
      /\ \/ link' = [link EXCEPT !.waiting[1].attempt = 1]
         \/ link' = Answered(link, a)
      /\ UNCHANGED <<now, pane, page>>
  BY DEF Crash
<1>2. m \in Requests /\ made \in Nat /\ link \in Links
  BY <1>1 DEF Inv, Links, CanServe
<1>3. m.kind \in Kinds
  BY <1>2 DEF Requests
<1> HIDE DEF m
<1>4. DiskOK(disk', Made(made, m.kind)) /\ Changes(disk, disk', made, now, m.kind)
  BY <1>1, <1>2, CrashOK DEF Inv
<1>5. Keeps
  <2>1. /\ made' \in {made, made + 1} /\ Made(made, m.kind) \in Nat
        /\ Made(made, m.kind) <= made' /\ made' \in Nat
    BY <1>1, <1>2 DEF Count, Made
  <2>2. DiskOK(disk', made')
    BY <1>4, <2>1, DiskLater
  <2> QED
    BY <1>1, <1>3, <1>4, <2>1, <2>2 DEF Keeps
<1>6. /\ made' \in Nat /\ made <= made'
      /\ Follows(disk', made', pane.result, Ahead(link)) /\ Shows(disk', pane, link)
  BY <1>5, KeepsFollows
<1>7. /\ link' \in Links /\ Follows(disk', made', pane.result, Ahead(link'))
      /\ Coming(link) => Coming(link')
  <2>1. CASE link' = [link EXCEPT !.waiting[1].attempt = 1]
    BY <1>1, <1>2, <1>6, <2>1, AheadRepeated
  <2>2. CASE link' = Answered(link, a)
    <3>1. a.ok = FALSE
      OBVIOUS
    <3>2. a \in [kind : Kinds, ok : BOOLEAN, value : {0}] /\ a.kind = m.kind
      BY <1>3
    <3> HIDE DEF a
    <3>3. a \in Answers
      BY <3>1, <3>2 DEF Answers
    <3>4. ~IsHistory(a) /\ ~IsPassword(a)
      BY <3>1 DEF IsHistory, IsPassword
    <3>5. link' \in Links /\ Ahead(link') = Append(Ahead(link), a)
      BY <1>1, <1>2, <2>2, <3>3, AheadAnswered
    <3>6. Ahead(link) \in Seq(Answers)
      BY <1>2, AheadTyped
    <3>7. Follows(disk', made', pane.result, Ahead(link'))
      BY <1>6, <3>3, <3>4, <3>5, <3>6, FollowsAnswer
    <3>8. Coming(link) => Coming(link')
      BY <1>1, <1>2, <2>2, <3>2, <3>3, ComingAnswered DEF m
    <3> QED
      BY <3>5, <3>7, <3>8
  <2> QED
    BY <1>1, <2>1, <2>2
<1>8. Shows(disk', pane, link')
  BY <1>6, <1>7 DEF Shows
<1> QED
  BY <1>1, <1>5, <1>6, <1>7, <1>8 DEF Inv, Keeps

\* A password generated with the stored settings, or by the CLI with others.
LEMMA GenerateKeeps ==
    ASSUME Inv, NEW settings \in Settings \cup {None}, made' = made + 1, now' = now,
           disk' = HandleGenerate(disk, settings, made + 1, now, "none").disk
    PROVE  Keeps
<1> DEFINE o == HandleGenerate(disk, settings, made + 1, now, "none")
<1>1. DiskOK(o.disk, made + 1) /\ (o.disk.history = disk.history \/ Adds(disk, o.disk, made + 1, now))
  BY GenerateOK DEF Inv
<1> HIDE DEF o
<1>2. Changes(disk, disk', made, now, "generate")
  BY <1>1 DEF Changes, Forgets, o
<1> QED
  BY <1>1, <1>2 DEF Keeps, Kinds, o

\* Another client generates.
LEMMA ElsewhereOK ==
    ASSUME Inv, NEW settings \in Settings \cup {None}, Elsewhere(settings)
    PROVE  Inv' /\ Keeps /\ now' = now
<1>1. Keeps /\ now' = now
  BY GenerateKeeps DEF Elsewhere
<1>2. UNCHANGED <<pane, link, page>> /\ now' \in Nat /\ PageOK(page')
  BY DEF Elsewhere, Inv
<1> QED
  BY <1>1, <1>2, FilesOK

\* The page's own request is served and answered.
LEMMA IconAnsweredOK ==
    ASSUME Inv, IconAnswered
    PROVE  Inv' /\ Keeps /\ now' = now
<1> DEFINE o == HandleGenerate(disk, None, made + 1, now, "none")
<1>1. /\ page.asked # <<>> /\ disk' = o.disk /\ page' = OnGenerateAnswer(page, o.ok)
      /\ made' = made + 1 /\ UNCHANGED <<now, pane, link>>
  BY DEF IconAnswered
<1>2. Keeps
  BY <1>1, GenerateKeeps
<1>3. o.ok \in BOOLEAN
  BY GenerateOK DEF Inv
<1> HIDE DEF o
<1>4. PageOK(page') /\ now' \in Nat
  BY <1>1, <1>3, GenerateAnswerOK DEF Inv
<1> QED
  BY <1>1, <1>2, <1>4, FilesOK

-----------------------------------------------------------------------------
(* The steps: the pane *)

\* The requests the pane builds are well formed.
LEMMA RequestTyped ==
    ASSUME NEW k \in Kinds, NEW arg \in Settings \cup {None} \cup Nat,
           k = "generate" => arg \in Settings
    PROVE  <<Request(k, arg)>> \in Seq(Requests) /\ Request(k, arg).kind = k
  BY DEF Request, Requests

\* The pane's refresh asks for the history.
LEMMA FetchesHistory == FetchHistory \in Seq(Requests) /\ HasHistory(FetchHistory)
<1> DEFINE r == Request("history", None)
<1>1. <<r>> \in Seq(Requests) /\ r.kind = "history"
  BY RequestTyped DEF Kinds
<1> HIDE DEF r
<1> QED
  BY <1>1 DEF FetchHistory, HasHistory, r

\* A step of the pane that leaves its result, its list and its error mark, and may
\* send requests.
LEMMA PaneStepOK ==
    ASSUME Inv, UNCHANGED <<disk, now, made, page>>, PaneOK(pane'),
           pane'.result = pane.result, pane'.error = pane.error, pane'.history = pane.history,
           link' = link \/ \E q \in Seq(Requests) : link' = Enqueue(link, q)
    PROVE  Inv'
<1>1. /\ link' \in Links /\ Ahead(link') = Ahead(link)
      /\ Coming(link) => Coming(link')
  BY AheadEnqueued, ComingEnqueued DEF Inv
<1>2. Follows(disk', made', pane'.result, Ahead(link'))
  BY <1>1 DEF Inv
<1>3. Shows(disk', pane', link')
  BY <1>1 DEF Inv, Shows
<1> QED
  BY <1>1, <1>2, <1>3 DEF Inv

\* The pane's own fields.
LEMMA PaneFieldsOK ==
    ASSUME NEW p, PaneOK(p), NEW s \in Settings, NEW n \in Nat, NEW b \in BOOLEAN
    PROVE  \A q \in {[p EXCEPT !.open = b], [p EXCEPT !.settings = s], [p EXCEPT !.pending = n]} :
               PaneOK(q) /\ q.result = p.result /\ q.error = p.error /\ q.history = p.history
<1> SUFFICES ASSUME NEW q \in {[p EXCEPT !.open = b], [p EXCEPT !.settings = s],
                               [p EXCEPT !.pending = n]}
             PROVE  PaneOK(q) /\ q.result = p.result /\ q.error = p.error /\ q.history = p.history
  OBVIOUS
<1>1. /\ q \in Panes /\ q.result = p.result /\ q.error = p.error /\ q.history = p.history
      /\ q.revealed = p.revealed /\ q.chosen = p.chosen /\ q.resultRevealed = p.resultRevealed
  BY DEF PaneOK, Panes
<1> QED
  BY <1>1 DEF PaneOK

\* The pane is opened.
LEMMA GeneratorViewClickedOK ==
    ASSUME Inv, GeneratorViewClicked
    PROVE  Inv'
<1> DEFINE q == <<Request("settings", None)>> \o FetchHistory
           b == TRUE
<1>1. <<Request("settings", None)>> \in Seq(Requests)
  BY RequestTyped DEF Kinds
<1>2. q \in Seq(Requests)
  BY <1>1, FetchesHistory
<1> HIDE DEF q
<1>3. b \in BOOLEAN /\ pane' = [pane EXCEPT !.open = b]
  BY DEF GeneratorViewClicked
<1> HIDE DEF b
<1>4. PaneOK(pane') /\ pane'.result = pane.result /\ pane'.error = pane.error
      /\ pane'.history = pane.history
  BY <1>3, PaneFieldsOK, DefaultTyped DEF Inv
<1>5. UNCHANGED <<disk, now, made, page>> /\ link' = Enqueue(link, q)
  BY DEF GeneratorViewClicked, User, Send, q
<1> QED
  BY <1>2, <1>4, <1>5, PaneStepOK

\* A setting is changed.
LEMMA SettingsChangedOK ==
    ASSUME Inv, NEW s \in Settings, SettingsChanged(s)
    PROVE  Inv'
<1>1. /\ pane' = [pane EXCEPT !.settings = s] /\ UNCHANGED <<disk, now, made, page, link>>
  BY DEF SettingsChanged, InPane, User
<1>2. PaneOK(pane') /\ pane'.result = pane.result /\ pane'.error = pane.error
      /\ pane'.history = pane.history
  BY <1>1, PaneFieldsOK DEF Inv
<1> QED
  BY <1>1, <1>2, PaneStepOK

\* A password is asked for.
LEMMA GenerateClickedOK ==
    ASSUME Inv, GenerateClicked
    PROVE  Inv'
<1> DEFINE q == <<Request("generate", pane.settings)>>
<1>1. q \in Seq(Requests)
  BY RequestTyped DEF Kinds, Inv, PaneOK, Panes
<1> HIDE DEF q
<1>2. UNCHANGED <<disk, now, made, page, pane>> /\ link' = Enqueue(link, q)
  BY DEF GenerateClicked, InPane, User, Send, q
<1> QED
  BY <1>1, <1>2, PaneStepOK DEF Inv

\* The new password is shown or hidden.
LEMMA RevealToggledOK ==
    ASSUME Inv, RevealToggled
    PROVE  Inv'
<1>1. /\ pane' = [pane EXCEPT !.resultRevealed = ~@, !.chosen = @ \cup {pane.result}]
      /\ UNCHANGED <<disk, now, made, page, link>>
  BY DEF RevealToggled, InPane, User
<1>2. pane \in Panes
  BY DEF Inv, PaneOK
<1>3. /\ pane' \in Panes /\ pane'.result = pane.result /\ pane'.error = pane.error
      /\ pane'.history = pane.history /\ pane'.revealed = pane.revealed
      /\ pane'.chosen = pane.chosen \cup {pane.result}
  BY <1>1, <1>2 DEF Panes
<1>4. PaneOK(pane')
  BY <1>3 DEF Inv, PaneOK
<1> QED
  BY <1>1, <1>3, <1>4, PaneStepOK

\* A password of the list is shown or hidden.
LEMMA HistoryRevealToggledOK ==
    ASSUME Inv, NEW i \in DOMAIN pane.history, HistoryRevealToggled(i)
    PROVE  Inv'
<1> DEFINE R == (pane.revealed \ {i}) \cup ({i} \ pane.revealed)
           C == pane.chosen \cup {pane.history[i].password}
<1>1. /\ pane' = [pane EXCEPT !.revealed = R, !.chosen = C]
      /\ UNCHANGED <<disk, now, made, page, link>>
  BY DEF HistoryRevealToggled, InPane, User
<1>2. pane \in Panes /\ pane.history \in Seq(Entries)
  BY DEF Inv, PaneOK, Panes
<1>3. pane.history[i] \in Entries /\ i \in Nat
  BY <1>2
<1>4. pane.history[i].password \in Nat
  BY <1>3 DEF Entries
<1>5. R \in SUBSET Nat /\ C \in SUBSET Nat
  BY <1>2, <1>3, <1>4 DEF Panes
<1>6. \A j \in R : j \in DOMAIN pane.history /\ pane.history[j].password \in C
  BY DEF Inv, PaneOK
<1>7. pane.chosen \subseteq C
  OBVIOUS
<1> HIDE DEF R, C
<1>8. /\ pane' \in Panes /\ pane'.result = pane.result /\ pane'.error = pane.error
      /\ pane'.history = pane.history /\ pane'.revealed = R /\ pane'.chosen = C
      /\ pane'.resultRevealed = pane.resultRevealed
  BY <1>1, <1>2, <1>5 DEF Panes
<1>9. PaneOK(pane')
  BY <1>6, <1>7, <1>8 DEF Inv, PaneOK
<1> QED
  BY <1>1, <1>8, <1>9, PaneStepOK

\* A deletion is asked for, and is to be confirmed.
LEMMA DeleteRequestedOK ==
    ASSUME Inv, NEW i \in DOMAIN pane.history, DeleteRequested(i)
    PROVE  Inv'
<1>1. /\ pane' = [pane EXCEPT !.pending = i] /\ UNCHANGED <<disk, now, made, page, link>>
  BY DEF DeleteRequested, InPane, User
<1>2. pane.history \in Seq(Entries)
  BY DEF Inv, PaneOK, Panes
<1>3. i \in Nat
  BY <1>2
<1>4. PaneOK(pane') /\ pane'.result = pane.result /\ pane'.error = pane.error
      /\ pane'.history = pane.history
  BY <1>1, <1>3, PaneFieldsOK, DefaultTyped DEF Inv
<1> QED
  BY <1>1, <1>4, PaneStepOK

\* It is cancelled.
LEMMA DeleteCancelledOK ==
    ASSUME Inv, DeleteCancelled
    PROVE  Inv'
<1>1. /\ pane' = [pane EXCEPT !.pending = 0] /\ UNCHANGED <<disk, now, made, page, link>>
  BY DEF DeleteCancelled, User
<1>2. PaneOK(pane') /\ pane'.result = pane.result /\ pane'.error = pane.error
      /\ pane'.history = pane.history
  BY <1>1, PaneFieldsOK, DefaultTyped DEF Inv
<1> QED
  BY <1>1, <1>2, PaneStepOK

\* It is confirmed and sent.
LEMMA DeleteConfirmedOK ==
    ASSUME Inv, DeleteConfirmed
    PROVE  Inv'
<1> DEFINE q == IF pane.pending \in DOMAIN pane.history
                THEN <<Request("delete", pane.history[pane.pending].created_at)>> ELSE <<>>
<1>1. /\ pane' = [pane EXCEPT !.pending = 0] /\ UNCHANGED <<disk, now, made, page>>
      /\ link' = Enqueue(link, q)
  BY DEF DeleteConfirmed, User, Send
<1>2. q \in Seq(Requests)
  <2>1. pane.history \in Seq(Entries)
    BY DEF Inv, PaneOK, Panes
  <2>2. CASE pane.pending \in DOMAIN pane.history
    <3>1. pane.history[pane.pending] \in Entries
      BY <2>1, <2>2
    <3>2. pane.history[pane.pending].created_at \in Nat
      BY <3>1 DEF Entries
    <3> QED
      BY <2>2, <3>2, RequestTyped DEF Kinds
  <2>3. CASE pane.pending \notin DOMAIN pane.history
    BY <2>3
  <2> QED
    BY <2>2, <2>3
<1>3. PaneOK(pane') /\ pane'.result = pane.result /\ pane'.error = pane.error
      /\ pane'.history = pane.history
  BY <1>1, PaneFieldsOK, DefaultTyped DEF Inv
<1> HIDE DEF q
<1> QED
  BY <1>1, <1>2, <1>3, PaneStepOK

\* Password 0 is none: no file has it.
LEMMA NoPassword ==
    ASSUME NEW n \in Nat, NEW d, DiskOK(d, n)
    PROVE  ~InFile(d, 0)
  BY DEF DiskOK, InFile

\* The pane is wiped with the vault.
LEMMA WipeOK ==
    ASSUME Inv, Wipe
    PROVE  Inv'
<1> DEFINE no == FALSE
<1>1. /\ pane' = [pane EXCEPT !.open = no, !.result = 0, !.resultRevealed = no,
                              !.history = <<>>, !.revealed = {}, !.chosen = {}]
      /\ UNCHANGED <<disk, now, made, page, link>>
  BY DEF Wipe, User
<1>2. no \in BOOLEAN /\ ~no
  OBVIOUS
<1> HIDE DEF no
<1>3. pane \in Panes /\ <<>> \in Seq(Entries)
  BY DEF Inv, PaneOK
<1>4. /\ pane' \in Panes /\ pane'.result = 0 /\ pane'.resultRevealed = no
      /\ pane'.revealed = {}
  BY <1>1, <1>2, <1>3 DEF Panes
<1>5. PaneOK(pane')
  BY <1>2, <1>4 DEF PaneOK
<1>6. ~InFile(disk, 0) /\ made \in Nat
  BY NoPassword DEF Inv
<1>7. Follows(disk, made, 0, Ahead(link))
  BY <1>6 DEF Inv, Follows
<1>8. Shows(disk, pane', link)
  BY <1>4 DEF Shows
<1> QED
  BY <1>1, <1>4, <1>5, <1>7, <1>8 DEF Inv

\* An answer leaves the pane with r.pane and asks for r.asks.
LEMMA MessageOK ==
    ASSUME Inv, link.inbox # <<>>, UNCHANGED <<disk, now, made, page>>,
           PaneOK(pane'), NEW q \in Seq(Requests), link' = Enqueue(Taken(link), q),
           Follows(disk, made, pane'.result, Ahead(Taken(link))),
           \/ pane'.error \/ HasHistory(q)
           \/ InFile(disk, pane'.result) => ShownIn(pane'.history, pane'.result)
           \/ /\ Head(link.inbox).kind # "history" /\ pane'.result = pane.result
              /\ pane'.error = pane.error /\ pane'.history = pane.history
    PROVE  Inv'
<1>1. Taken(link) \in Links /\ (Coming(link) => Coming(Taken(link)) \/ Head(link.inbox).kind = "history")
  BY AheadTaken, ComingTaken DEF Inv
<1>2. /\ link' \in Links /\ Ahead(link') = Ahead(Taken(link))
      /\ Coming(Taken(link)) \/ HasHistory(q) => Coming(link')
  BY <1>1, AheadEnqueued, ComingEnqueued
<1>3. Shows(disk, pane', link')
  BY <1>1, <1>2 DEF Inv, Shows
<1> QED
  BY <1>2, <1>3 DEF Inv

\* The pane handles an answer.
LEMMA HandleMessageOK ==
    ASSUME Inv, HandleMessage
    PROVE  Inv'
<1> DEFINE a == Head(link.inbox)
           l == Taken(link)
           none == <<>>
<1>1. /\ link.inbox # <<>> /\ UNCHANGED <<disk, now, made, page>>
  BY DEF HandleMessage
<1>2. /\ a \in Answers /\ Ahead(link) \in Seq(Answers) /\ Ahead(link) # <<>>
      /\ Head(Ahead(link)) = a /\ Ahead(l) = Tail(Ahead(link))
  BY <1>1, AheadTaken, AheadTyped DEF Inv
<1>3. /\ Follows(disk, made, pane.result, Ahead(l))
      /\ IsPassword(a) => Follows(disk, made, a.value, Ahead(l))
      /\ IsHistory(a) /\ InFile(disk, pane.result) => ShownIn(a.value, pane.result)
  BY <1>2, FollowsTaken DEF Inv
<1>4. /\ a.kind \in Kinds /\ a.ok \in BOOLEAN
      /\ a.ok => /\ a.kind = "generate" => a.value \in Nat
                 /\ a.kind = "settings" => a.value \in Settings
                 /\ a.kind = "history" => a.value \in Seq(Entries)
  BY <1>2 DEF Answers
<1>5. none \in Seq(Requests)
  OBVIOUS
<1>6. pane \in Panes
  BY DEF Inv, PaneOK
<1>7. \/ a.kind = "generate" /\ pane' = Generated(a.ok, a.value).pane
            /\ link' = Enqueue(l, Generated(a.ok, a.value).asks)
      \/ a.kind = "settings" /\ pane' = SettingsReceived(a.ok, a.value).pane
            /\ link' = Enqueue(l, SettingsReceived(a.ok, a.value).asks)
      \/ a.kind = "history" /\ pane' = HistoryReceived(a.ok, a.value).pane
            /\ link' = Enqueue(l, HistoryReceived(a.ok, a.value).asks)
      \/ a.kind = "delete" /\ pane' = Deleted(a.ok).pane /\ link' = Enqueue(l, Deleted(a.ok).asks)
  BY <1>4 DEF HandleMessage, Kinds, Send
<1> HIDE DEF a, l, none
\* A failed request, but for the settings, only raises the error mark.
<1>8. CASE ~a.ok /\ a.kind # "settings"
  <2> DEFINE yes == TRUE
  <2>1. pane' = [pane EXCEPT !.error = yes] /\ link' = Enqueue(l, none)
    BY <1>7, <1>8 DEF Generated, HistoryReceived, Deleted, none
  <2>2. yes \in BOOLEAN /\ yes
    OBVIOUS
  <2> HIDE DEF yes
  <2>3. /\ pane' \in Panes /\ pane'.error = yes /\ pane'.result = pane.result
        /\ pane'.history = pane.history /\ pane'.revealed = pane.revealed
        /\ pane'.chosen = pane.chosen /\ pane'.resultRevealed = pane.resultRevealed
    BY <1>6, <2>1, <2>2 DEF Panes
  <2>4. PaneOK(pane')
    BY <2>3 DEF Inv, PaneOK
  <2> QED
    BY <1>1, <1>3, <1>5, <2>1, <2>2, <2>3, <2>4, MessageOK DEF l
<1>9. CASE a.ok /\ a.kind = "generate"
  <2> DEFINE no == FALSE
             v == a.value
  <2>1. /\ pane' = [pane EXCEPT !.result = v, !.resultRevealed = no, !.error = no]
        /\ link' = Enqueue(l, FetchHistory)
    BY <1>7, <1>9 DEF Generated
  <2>2. no \in BOOLEAN /\ ~no /\ v \in Nat
    BY <1>4, <1>9
  <2> HIDE DEF no, v
  <2>3. /\ pane' \in Panes /\ pane'.result = v
        /\ pane'.history = pane.history /\ pane'.revealed = pane.revealed
        /\ pane'.chosen = pane.chosen /\ pane'.resultRevealed = no
    BY <1>6, <2>1, <2>2 DEF Panes
  <2>4. PaneOK(pane')
    BY <2>2, <2>3 DEF Inv, PaneOK
  <2>5. Follows(disk, made, pane'.result, Ahead(l))
    BY <1>3, <1>9, <2>3 DEF IsPassword, v
  <2> QED
    BY <1>1, <2>1, <2>4, <2>5, FetchesHistory, MessageOK DEF l
<1>10. CASE a.kind = "settings"
  <2>1. /\ pane' = IF a.ok THEN [pane EXCEPT !.settings = a.value] ELSE pane
        /\ link' = Enqueue(l, none)
    BY <1>7, <1>10 DEF SettingsReceived, none
  <2>2. PaneOK(pane') /\ pane'.result = pane.result /\ pane'.error = pane.error
        /\ pane'.history = pane.history
    <3>1. CASE a.ok
      <4> DEFINE s == a.value
      <4>1. s \in Settings /\ pane' = [pane EXCEPT !.settings = s]
        BY <1>4, <1>10, <2>1, <3>1
      <4> HIDE DEF s
      <4> QED
        BY <4>1, PaneFieldsOK DEF Inv
    <3>2. CASE ~a.ok
      BY <2>1, <3>2 DEF Inv
    <3> QED
      BY <3>1, <3>2
  <2> QED
    BY <1>1, <1>3, <1>5, <1>10, <2>1, <2>2, MessageOK DEF l, a
<1>11. CASE a.ok /\ a.kind = "history"
  <2> DEFINE h == a.value
  <2>1. pane' = [pane EXCEPT !.history = h, !.revealed = {}] /\ link' = Enqueue(l, none)
    BY <1>7, <1>11 DEF HistoryReceived, none
  <2>2. h \in Seq(Entries)
    BY <1>4, <1>11
  <2>3. InFile(disk, pane.result) => ShownIn(h, pane.result)
    BY <1>3, <1>11 DEF IsHistory
  <2> HIDE DEF h
  <2>4. /\ pane' \in Panes /\ pane'.result = pane.result
        /\ pane'.history = h /\ pane'.revealed = {}
        /\ pane'.chosen = pane.chosen /\ pane'.resultRevealed = pane.resultRevealed
    BY <1>6, <2>1, <2>2 DEF Panes
  <2>5. PaneOK(pane')
    BY <2>4 DEF Inv, PaneOK
  <2> QED
    BY <1>1, <1>3, <1>5, <2>1, <2>3, <2>4, <2>5, MessageOK DEF l
<1>12. CASE a.ok /\ a.kind = "delete"
  <2>1. pane' = pane /\ link' = Enqueue(l, FetchHistory)
    BY <1>7, <1>12 DEF Deleted
  <2>2. PaneOK(pane')
    BY <2>1 DEF Inv
  <2> QED
    BY <1>1, <1>3, <2>1, <2>2, FetchesHistory, MessageOK DEF l
<1> QED
  BY <1>4, <1>8, <1>9, <1>10, <1>11, <1>12 DEF Kinds

\* An answer reaches the pane's queue.
LEMMA DeliverOK ==
    ASSUME Inv, Deliver
    PROVE  Inv'
<1>1. link' = Delivered(link) /\ UNCHANGED <<disk, now, made, pane, page>>
  BY DEF Deliver
<1>2. link' \in Links /\ Ahead(link') = Ahead(link) /\ link'.waiting = link.waiting
  BY <1>1, AheadDelivered DEF Inv
<1>3. Shows(disk, pane, link')
  BY <1>2 DEF Inv, Shows, Coming
<1> QED
  BY <1>1, <1>2, <1>3 DEF Inv

-----------------------------------------------------------------------------
(* The steps: the page *)

\* A step of the page concerns the page only.
LEMMA PageStepOK ==
    ASSUME Inv, PageStep, PageOK(page')
    PROVE  Inv'
  BY DEF Inv, PageStep

\* The steps of the page keep it in order.
LEMMA PageNextOK ==
    ASSUME Inv,
           \/ \E f \in Field : RenderField(f)
           \/ \E s \in Forms : DropFields(FieldsOf(page, s))
           \/ \E i \in Shown(page) : DropFields({i})
           \/ Rescan \/ Scroll
           \/ \E i \in DOMAIN page.fields : IconClicked(i)
    PROVE  Inv' /\ PageStep
<1> DEFINE p == page
<1>1. PageOK(p)
  BY DEF Inv
<1>2. CASE \E f \in Field : RenderField(f)
  BY <1>1, <1>2, RenderedOK, PageStepOK DEF RenderField
<1>3. CASE \/ \E s \in Forms : DropFields(FieldsOf(page, s))
           \/ \E i \in Shown(page) : DropFields({i})
  <2>1. PICK fs \in SUBSET Shown(page) : DropFields(fs)
    BY <1>3 DEF FieldsOf
  <2> QED
    BY <1>1, <2>1, DroppedOK, PageStepOK DEF DropFields
<1>4. CASE Rescan
  BY <1>1, <1>4, ScanOK, PageStepOK DEF Rescan
<1>5. CASE Scroll
  BY <1>1, <1>5, RepositionOK, PageStepOK DEF Scroll
<1>6. CASE \E i \in DOMAIN page.fields : IconClicked(i)
  BY <1>1, <1>6, ClickedOK, PageStepOK DEF IconClicked
<1> QED
  BY <1>2, <1>3, <1>4, <1>5, <1>6

-----------------------------------------------------------------------------
(* The theorems *)

\* The files start empty and the pane closed.
LEMMA InitOK == Init => Inv
<1> SUFFICES ASSUME Init PROVE Inv
  OBVIOUS
<1> DEFINE no == FALSE
<1>1. /\ now = 0 /\ made = 0
      /\ disk = [settings |-> None, key |-> 0, history |-> {}]
      /\ pane = [open |-> no, settings |-> Default, result |-> 0, resultRevealed |-> no,
                 history |-> <<>>, revealed |-> {}, pending |-> 0, error |-> no, chosen |-> {}]
      /\ link = [waiting |-> <<>>, reply |-> <<>>, inbox |-> <<>>] /\ page = NewPage
  BY DEF Init, NewLink
<1>2. no \in BOOLEAN /\ ~no
  OBVIOUS
<1> HIDE DEF no
<1>3. {} \in Histories
  BY FS_EmptySet DEF Histories, Distinct
<1>4. disk \in Disks /\ disk.history = {}
  BY <1>1, <1>3 DEF Disks, Keys
<1>5. DiskOK(disk, made)
  BY <1>4 DEF DiskOK
<1>6. pane \in Panes /\ pane.revealed = {} /\ pane.resultRevealed = no /\ pane.result = 0
  BY <1>1, <1>2, DefaultTyped DEF Panes
<1>7. PaneOK(pane)
  BY <1>2, <1>6 DEF PaneOK
<1>8. link \in Links /\ link.inbox = <<>> /\ link.reply = <<>>
  BY <1>1 DEF Links
<1>9. Ahead(link) = <<>>
  BY <1>8 DEF Ahead
<1>10. Follows(disk, made, pane.result, Ahead(link)) /\ Shows(disk, pane, link)
  BY <1>1, <1>6, <1>9 DEF Follows, Shows
<1> QED
  BY <1>1, <1>5, <1>7, <1>8, <1>10, NewPageOK DEF Inv

\* The steps that change the files, and the others.
AgentNext ==
    \/ \E f \in Faults \cup {"none"} : Serve(f)
    \/ IconAnswered \/ Crash
    \/ \E s \in Settings \cup {None} : CliGenerate(s)
    \/ AppletGeneratePasswordRequested \/ ContextMenuClicked

\* Every step of the agent keeps Inv.
LEMMA AgentNextOK ==
    ASSUME Inv, AgentNext
    PROVE  Inv' /\ Keeps /\ now' = now
<1>1. CASE \E f \in Faults \cup {"none"} : Serve(f)
  BY <1>1, ServeOK
<1>2. CASE IconAnswered
  BY <1>2, IconAnsweredOK
<1>3. CASE Crash
  BY <1>3, CrashStepOK
<1>4. CASE \E s \in Settings \cup {None} : CliGenerate(s)
  BY <1>4, ElsewhereOK DEF CliGenerate
<1>5. CASE AppletGeneratePasswordRequested \/ ContextMenuClicked
  BY <1>5, ElsewhereOK DEF AppletGeneratePasswordRequested, ContextMenuClicked
<1> QED
  BY <1>1, <1>2, <1>3, <1>4, <1>5 DEF AgentNext

\* The clock changes no file.
LEMMA ClockOK ==
    ASSUME Inv, NEW t \in 0 .. MaxNow, Clock(t)
    PROVE  Inv' /\ now' \in Nat /\ disk' = disk
<1>1. now' = t /\ t \in Nat /\ UNCHANGED <<disk, made, pane, link, page>>
  BY DEF Clock
<1> QED
  BY <1>1 DEF Inv

\* Every step keeps the invariant, and what it does to the clock and the files.
LEMMA NextOK ==
    ASSUME Inv, [Next]_vars
    PROVE  /\ Inv'
           /\ \/ now' = now /\ Keeps
              \/ now' \in Nat /\ disk' = disk
<1>1. CASE AgentNext
  BY <1>1, AgentNextOK
<1>2. CASE \E t \in 0 .. MaxNow : Clock(t)
  BY <1>2, ClockOK
<1>3. CASE Deliver \/ HandleMessage
  BY <1>3, DeliverOK, HandleMessageOK DEF Deliver, HandleMessage, Inv
<1>4. CASE \/ GeneratorViewClicked \/ GenerateClicked \/ RevealToggled
           \/ \E s \in Settings : SettingsChanged(s)
  BY <1>4, GeneratorViewClickedOK, GenerateClickedOK, RevealToggledOK, SettingsChangedOK
     DEF GeneratorViewClicked, GenerateClicked, RevealToggled, SettingsChanged, InPane, User, Inv
<1>5. CASE \E i \in DOMAIN pane.history : HistoryRevealToggled(i) \/ DeleteRequested(i)
  BY <1>5, HistoryRevealToggledOK, DeleteRequestedOK
     DEF HistoryRevealToggled, DeleteRequested, InPane, User, Inv
<1>6. CASE DeleteCancelled \/ DeleteConfirmed \/ Wipe
  BY <1>6, DeleteCancelledOK, DeleteConfirmedOK, WipeOK
     DEF DeleteCancelled, DeleteConfirmed, Wipe, User, Inv
<1>7. CASE \/ \E f \in Field : RenderField(f)
           \/ \E s \in Forms : DropFields(FieldsOf(page, s))
           \/ \E i \in Shown(page) : DropFields({i})
           \/ Rescan \/ Scroll
           \/ \E i \in DOMAIN page.fields : IconClicked(i)
  BY <1>7, PageNextOK DEF PageStep, Inv
<1>8. CASE UNCHANGED vars
  BY <1>8 DEF vars, Inv
<1> QED
  BY <1>1, <1>2, <1>3, <1>4, <1>5, <1>6, <1>7, <1>8 DEF Next, AgentNext

\* The inductive invariant.
LEMMA InvHolds == Spec => []Inv
<1>1. Init => Inv
  BY InitOK
<1>2. Inv /\ [Next]_vars => Inv'
  BY NextOK
<1> QED
  BY <1>1, <1>2, PTL DEF Spec

\* Every entry of the history can be decrypted with the key in the key file, through
\* any failed read or write and any crash (load_or_create_key, append_entry).
THEOREM HistoryDecryptsHolds == Spec => []HistoryDecrypts
<1>1. Inv => HistoryDecrypts
  BY DEF Inv, DiskOK, HistoryDecrypts
<1> QED
  BY <1>1, InvHolds, PTL

\* No refresh of the list moves a reveal mark to a password that the user did not ask
\* to see (generator_history_revealed).
THEOREM RevealedWasChosenHolds == Spec => []RevealedWasChosen
<1>1. Inv => RevealedWasChosen
  BY DEF Inv, PaneOK, RevealedWasChosen
<1> QED
  BY <1>1, InvHolds, PTL

\* Once every answer is in and no error is shown, the pane lists the password it
\* shows as long as the file has it: the refresh that follows each answer is enough,
\* whatever other clients do to the file in between.
THEOREM GeneratedIsShownHolds == Spec => []GeneratedIsShown
<1>1. Inv => GeneratedIsShown
  <2> SUFFICES ASSUME Inv, Idle(link), pane.result # 0, ~pane.error,
                      NEW e \in disk.history, e.password = pane.result
               PROVE  \E j \in DOMAIN pane.history : pane.history[j].password = pane.result
    BY DEF GeneratedIsShown
  <2>1. link.waiting \in Seq(Requests) /\ link.reply \in Seq(Answers) /\ link.inbox \in Seq(Answers)
    BY DEF Inv, Links
  <2>2. link.waiting = <<>> /\ link.reply = <<>> /\ link.inbox = <<>>
    <3> DEFINE w == Len(link.waiting)
               r == Len(link.reply)
               i == Len(link.inbox)
    <3>1. w \in Nat /\ r \in Nat /\ i \in Nat
      BY <2>1
    <3>2. w + r + i = 0
      BY DEF Idle, Pending
    <3> HIDE DEF w, r, i
    <3>3. w = 0 /\ r = 0 /\ i = 0
      BY <3>1, <3>2
    <3> QED
      BY <2>1, <3>3, EmptySeq DEF w, r, i
  <2>3. ~Coming(link)
    BY <2>2 DEF Coming, HasHistory, Ahead
  <2>4. InFile(disk, pane.result)
    BY DEF InFile
  <2> QED
    BY <2>3, <2>4 DEF Inv, Shows, ShownIn
<1> QED
  BY <1>1, InvHolds, PTL

\* The icons never fill a field that the page marks as the current password, nor a field
\* that has always been the only one of a login form, in whatever order a page adds and
\* drops fields.  A field that has had a second one beside it is not covered: its icon
\* outlives the second field.
THEOREM IconsSpareLoginsHolds == Spec => []IconsSpareLogins
<1>1. Inv => IconsSpareLogins
  BY PageSpares DEF Inv, IconsSpareLogins
<1> QED
  BY <1>1, InvHolds, PTL

-----------------------------------------------------------------------------
(* The refinement.  All entries are readable, so PasswordHistory's entries  *)
(* are the history without its keys.                                       *)

Strip(e) == [created_at |-> e.created_at, password |-> e.password]

\* In order, every entry of the file decrypts.
LEMMA ReadableView ==
    ASSUME Inv
    PROVE  Readable = {Strip(e) : e \in disk.history}
  BY DEF Inv, DiskOK, Readable, Strip

\* What a served request does to the files is a step of PasswordHistory.
LEMMA StepRefines ==
    ASSUME Inv, Inv', now' = now, NEW k \in Kinds, Changes(disk, disk', made, now, k)
    PROVE  History!Next
<1>1. /\ Readable = {Strip(e) : e \in disk.history}
      /\ Readable' = {Strip(e) : e \in disk'.history}
  <2>1. Readable' = {Strip(e) : e \in disk'.history}
    BY DEF Inv, DiskOK, Readable, Strip
  <2> QED
    BY <2>1, ReadableView
<1>2. \A e : Strip(e).created_at = e.created_at /\ Strip(e).password = e.password
  BY DEF Strip
<1>3. CASE Forgets(disk, disk', now)
  <2>1. Readable' \subseteq Readable
    BY <1>1, <1>3 DEF Forgets
  <2>2. ASSUME NEW v \in Readable \ Readable' PROVE History!MayForget(v)
    <3>1. PICK e \in disk.history : v = Strip(e)
      BY <1>1
    <3>2. e \notin disk'.history
      BY <1>1, <2>2, <3>1
    <3>3. Expired(e, now)
      BY <1>3, <3>2 DEF Forgets
    <3> QED
      BY <1>2, <3>1, <3>3 DEF Expired, History!MayForget
  <2>3. History!Forget
    BY <2>1, <2>2 DEF History!Forget
  <2> QED
    BY <2>3 DEF History!Next
<1>4. CASE Adds(disk, disk', made + 1, now)
  <2>1. PICK x \in disk'.history : /\ x.password = made + 1 /\ x.created_at = now
                                   /\ disk'.history = Prune(disk.history, now) \cup {x}
    BY <1>4 DEF Adds
  <2> DEFINE v == Strip(x)
  <2>2. v.created_at = now /\ v.password = made + 1
    BY <1>2, <2>1
  <2>3. \A old \in Readable : old.password # v.password
    <3>1. \A e \in disk.history : e.password # made + 1
      BY DEF Inv, DiskOK
    <3> QED
      BY <1>1, <1>2, <2>2, <3>1
  <2>4. v \in Readable' \ Readable /\ Readable' \ Readable = {v}
    BY <1>1, <2>1, <2>3 DEF Prune
  <2>5. ASSUME NEW old \in Readable \ Readable' PROVE History!MayForget(old)
    <3>1. PICK e \in disk.history : old = Strip(e)
      BY <1>1
    <3>2. e \notin disk'.history
      BY <1>1, <2>5, <3>1
    <3>3. Expired(e, now)
      BY <2>1, <3>2 DEF Prune
    <3> QED
      BY <1>2, <3>1, <3>3 DEF Expired, History!MayForget
  <2> HIDE DEF v
  <2>6. History!Add
    BY <2>2, <2>3, <2>4, <2>5 DEF History!Add
  <2> QED
    BY <2>6 DEF History!Next
<1>5. CASE Deletes(disk, disk')
  <2>1. PICK c : disk'.history = {e \in disk.history : e.created_at # c}
    BY <1>5 DEF Deletes, DeleteByCreatedAt
  <2>2. Readable' = {v \in Readable : v.created_at # c}
    BY <1>1, <1>2, <2>1
  <2>3. CASE \E d \in Readable : d.created_at = c
    <3>1. History!Delete
      BY <2>2, <2>3 DEF History!Delete
    <3> QED
      BY <3>1 DEF History!Next
  <2>4. CASE ~\E d \in Readable : d.created_at = c
    <3>1. Readable' = Readable
      BY <2>2, <2>4
    <3>2. History!Forget
      BY <3>1 DEF History!Forget
    <3> QED
      BY <3>2 DEF History!Next
  <2> QED
    BY <2>3, <2>4
<1> QED
  BY <1>3, <1>4, <1>5 DEF Changes

\* The generator implements PasswordHistory, for any TTL, any clock and any number of
\* faults and crashes: a readable entry goes only when it expires or when its second
\* is deleted, and every write adds at most one entry, dated now.
THEOREM ImplementsHistoryHolds == Spec => ImplementsHistory
<1>1. Init => History!Init
  BY DEF Init, History!Init, Readable
<1>2. Inv /\ Inv' /\ [Next]_vars => [History!Next]_<<Readable, now>>
  <2> SUFFICES ASSUME Inv, Inv', [Next]_vars PROVE [History!Next]_<<Readable, now>>
    OBVIOUS
  <2>1. CASE now' = now /\ Keeps /\ disk' # disk
    BY <2>1, StepRefines DEF Keeps
  <2>2. CASE now' \in Nat /\ disk' = disk
    <3>1. Readable' = Readable
      BY <2>2 DEF Readable
    <3> QED
      BY <2>2, <3>1 DEF History!Next, History!Tick
  <2>3. CASE now' = now /\ disk' = disk
    BY <2>3 DEF Readable
  <2> QED
    BY <2>1, <2>2, <2>3, NextOK
<1> QED
  BY <1>1, <1>2, InvHolds, PTL DEF Spec, ImplementsHistory, History!Spec, History!vars
=============================================================================
