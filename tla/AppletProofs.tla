---------------------------- MODULE AppletProofs ----------------------------
(***************************************************************************)
(* The vault window and the applet, for any number of operations of their  *)
(* user and of other clients, and any number of requests in flight.        *)
(*                                                                         *)
(* What the window shows is never wrong for good: once the subscription is *)
(* open, every change of the agent's lock state or of its list leaves      *)
(* something on its way that makes the window read the agent again.        *)
(***************************************************************************)
EXTENDS AppletSession, FiniteSetTheorems, SequenceTheorems, TLAPS

Surfaces == {"app", "window", "popup", "login", "restore"}
Auth == {"Login", "Unlock", "UnlockWithPin"}
Others == {"Lock", "Logout", "SetupTpmPin", "DisableTpmPin"}
Kinds == {"GetConfig", "CheckTpm", "GetEntries"} \cup Auth \cup Others
Requests == [kind : Kinds, by : Surfaces]

Configs ==
    [kind : {"GetConfig"}, by : Surfaces, code : {"ok"}, epoch : Nat,
     snap : [locked : BOOLEAN, account : BOOLEAN, early : BOOLEAN]]
Tpms == [kind : {"CheckTpm"}, by : Surfaces, code : {"ok"}, epoch : Nat, snap : [pin : BOOLEAN]]
Lists ==
    [kind : {"GetEntries"}, by : Surfaces, code : {"ok"}, epoch : Nat, snap : [list : Nat]]
    \cup [kind : {"GetEntries"}, by : Surfaces, code : {"locked"}, epoch : Nat, snap : {Nothing}]
Results ==
    [kind : Auth \cup Others, by : Surfaces, code : {"ok", "err", "new_device", "pin_gone"},
     epoch : Nat, snap : {Nothing}]
Replies == Configs \cup Tpms \cup Lists \cup Results
Events ==
    [kind : {"Event"}, epoch : Nat,
     event : {"Locked", "Unlocked", "VaultChanged", "PinRequested", "UnlockRequested", "OpenEntry"}]
Messages == Replies \cup Events \cup {RefreshStateInternal}
Links ==
    {q \in [waiting : Seq(Requests), reply : Seq(Replies), inbox : Seq(Messages)] :
        Len(q.reply) <= 1}

Agents ==
    [locked : BOOLEAN, account : BOOLEAN, pin : BOOLEAN, epoch : Nat, list : Nat,
     notified : BOOLEAN, link : BOOLEAN, subscribed : BOOLEAN]
Views == {"Loading", "Setup", "Unlock", "Vault", "Settings", "PasswordGenerator"}
Uis ==
    [run : RunModes, view : Views, last : Nat, account : BOOLEAN, tpm : BOOLEAN, pin : BOOLEAN,
     mode : {"Password", "Pin"}, preferred : BOOLEAN, applyPin : BOOLEAN, unlockPin : BOOLEAN,
     loginPin : BOOLEAN, popup : BOOLEAN, list : Nat, link : {"none", "settings", "locked"},
     early : BOOLEAN]
-----------------------------------------------------------------------------
(* What is on its way.                                                     *)

\* A message whose handler asks for the config, now or in its next message.
Renews(m) ==
    m.kind = "Refresh" \/ (m.kind = "Event" /\ m.event \in {"Locked", "Unlocked", "VaultChanged"})
Renewal(ev, q) ==
    \/ \E i \in DOMAIN ev : Renews(ev[i])
    \/ \E i \in DOMAIN q.inbox : Renews(q.inbox[i])
    \/ \E i \in DOMAIN q.waiting : q.waiting[i].kind = "GetConfig"

\* A config that says how the agent is now.
Current(a, m) == m.kind = "GetConfig" /\ m.epoch = a.epoch
Fresh(a, m) == m.kind = "GetEntries" /\ m.code = "ok" /\ m.snap.list = a.list
\* A reply that shows the vault ...
Showing(m) ==
    \/ m.kind \in Auth /\ m.code = "ok"
    \/ m.kind = "GetConfig" /\ m.snap.account /\ ~m.snap.locked
\* ... and one that lists it as it is not.
Outdating(a, m) == m.kind = "GetEntries" /\ ~Fresh(a, m)

\* The config that follows position i of the message queue.
Covered(a, q, i) ==
    \/ \E j \in DOMAIN q.inbox : j >= i /\ Current(a, q.inbox[j])
    \/ \E j \in DOMAIN q.reply : Current(a, q.reply[j])
\* The list that follows it.
Listed(a, q, i) ==
    \/ \E j \in DOMAIN q.inbox : j >= i /\ Fresh(a, q.inbox[j])
    \/ \E j \in DOMAIN q.reply : Fresh(a, q.reply[j])
    \/ \E j \in DOMAIN q.waiting : q.waiting[j].kind = "GetEntries"

\* A reply from before the subscription, which finds or leaves the window `early`.
EarlyConfig(m) == m.kind = "GetConfig" => m.snap.early
Excused(u, q, m, i) ==
    IF m.kind = "GetConfig" THEN m.snap.early
    ELSE u.early /\ \A j \in DOMAIN q.inbox : j < i => EarlyConfig(q.inbox[j])

\* Without a renewal on its way, the replies that show a vault or list it wrongly are
\* followed by what puts it right.
ShowingOK(a, q, u) ==
    /\ \A i \in DOMAIN q.inbox :
           Showing(q.inbox[i]) => Covered(a, q, i) \/ Excused(u, q, q.inbox[i], i)
    /\ \A i \in DOMAIN q.reply :
           Showing(q.reply[i]) => Current(a, q.reply[i])
                                  \/ Excused(u, q, q.reply[i], Len(q.inbox) + 1)
OutdatingOK(a, q, u) ==
    ~a.locked =>
        /\ \A i \in DOMAIN q.inbox :
               Outdating(a, q.inbox[i]) => \/ Covered(a, q, i) \/ Listed(a, q, i)
                                           \/ Excused(u, q, q.inbox[i], i)
        /\ \A i \in DOMAIN q.reply :
               Outdating(a, q.reply[i]) =>
                   \/ \E j \in DOMAIN q.waiting : q.waiting[j].kind = "GetEntries"
                   \/ Excused(u, q, q.reply[i], Len(q.inbox) + 1)
\* So is what the window shows now.
ViewOK(a, q, u) ==
    IsUnlocked(u.view) /\ ~u.early =>
        /\ a.locked \/ u.link = "locked" => Covered(a, q, 1)
        /\ ~a.locked /\ u.list # a.list => Covered(a, q, 1) \/ Listed(a, q, 1)

\* A config of the agent's present epoch has its present state.
ConfigOK(a, m) ==
    m.kind = "GetConfig" =>
        /\ m.epoch <= a.epoch
        /\ m.epoch = a.epoch => m.snap.locked = a.locked /\ m.snap.account = a.account
        /\ ~a.subscribed => m.snap.early
ConfigsOK(a, q) ==
    /\ \A i \in DOMAIN q.inbox : ConfigOK(a, q.inbox[i])
    /\ \A i \in DOMAIN q.reply : ConfigOK(a, q.reply[i])

\* Before the subscription nothing but an early config opens a form.
Opened(u, m) ==
    \/ m.kind \in {"CheckTpm", "GetEntries", "Refresh"} \cup Auth
    \/ u.run = "window" /\ m.kind \in {"Lock", "Logout"}
Unsubscribed(ev, q, u) ==
    /\ ev = <<>> /\ \A i \in DOMAIN q.inbox : q.inbox[i].kind # "Event"
    /\ ~u.early => /\ ~u.tpm /\ ~IsUnlocked(u.view) /\ (u.run = "window" => u.view = "Loading")
                   /\ \A i \in DOMAIN q.inbox : ~Opened(u, q.inbox[i])
                   /\ \A i \in DOMAIN q.reply : ~Opened(u, q.reply[i])
                   /\ \A i \in DOMAIN q.waiting : ~Opened(u, q.waiting[i])

Settles(a, ev, q, u) ==
    a.subscribed /\ ~Renewal(ev, q) => ShowingOK(a, q, u) /\ OutdatingOK(a, q, u) /\ ViewOK(a, q, u)
Good(a, ev, q, u) ==
    /\ a \in Agents /\ ev \in Seq(Events) /\ q \in Links /\ u \in Uis
    /\ ~a.locked => a.account
    /\ u.last <= a.epoch
    /\ ConfigsOK(a, q)
    /\ ~a.subscribed => Unsubscribed(ev, q, u)
    /\ Settles(a, ev, q, u)
    /\ u.preferred => u.mode = "Password"
Inv == Good(agent, events, io, ui)

-----------------------------------------------------------------------------
(* Messages by kind *)

\* A message is what its kind says it is.
LEMMA MessageKinds ==
    ASSUME NEW m \in Messages
    PROVE  /\ m.kind = "GetConfig" => m \in Configs
           /\ m.kind = "CheckTpm" => m \in Tpms
           /\ m.kind = "GetEntries" => m \in Lists
           /\ m.kind \in Auth \cup Others => m \in Results
           /\ m.kind = "Event" => m \in Events
           /\ m.kind \in {"GetConfig", "CheckTpm", "GetEntries", "Event", "Refresh"} \cup Auth \cup Others
           /\ m \in Replies => m.kind # "Event" /\ m.kind # "Refresh"
  BY DEF Messages, Replies, Configs, Tpms, Lists, Results, Events, RefreshStateInternal, Auth, Others

-----------------------------------------------------------------------------
(* Leaving out elements of a sequence *)

\* f takes each position of t to the one of s it was at.
Places(s, K, t, f) ==
    /\ f \in [DOMAIN t -> K]
    /\ \A i \in DOMAIN t : t[i] = s[f[i]]
    /\ \A i, j \in DOMAIN t : i < j => f[i] < f[j]
    /\ \A k \in K : \E i \in DOMAIN t : f[i] = k

\* Keeping leaves the order of what it keeps.
LEMMA KeepingProps ==
    ASSUME NEW S, NEW s \in Seq(S), NEW K \in SUBSET DOMAIN s
    PROVE  /\ Keeping(s, K) \in Seq(S) /\ Len(Keeping(s, K)) <= Len(s)
           /\ \E f : Places(s, K, Keeping(s, K), f)
<1> DEFINE n == Cardinality(K)
           Upto(i) == {j \in K : j <= i}
           r == [i \in K |-> Cardinality(Upto(i))]
           f == [k \in 1 .. n |-> CHOOSE i \in K : Cardinality(Upto(i)) = k]
           t == Keeping(s, K)
<1>1. DOMAIN s = 1 .. Len(s) /\ Len(s) \in Nat /\ K \subseteq Nat
  OBVIOUS
<1>2. IsFiniteSet(DOMAIN s) /\ Cardinality(DOMAIN s) = Len(s)
  BY <1>1, FS_Interval
<1>3. IsFiniteSet(K) /\ n <= Len(s) /\ n \in Nat
  BY <1>2, FS_Subset, FS_CardinalityType
<1>4. \A i \in K : IsFiniteSet(Upto(i)) /\ Cardinality(Upto(i)) \in 1 .. n
  <2> SUFFICES ASSUME NEW i \in K PROVE IsFiniteSet(Upto(i)) /\ Cardinality(Upto(i)) \in 1 .. n
    OBVIOUS
  <2>1. Upto(i) \in SUBSET K /\ i \in Upto(i)
    BY <1>1
  <2> HIDE DEF Upto
  <2>2. IsFiniteSet(Upto(i)) /\ Cardinality(Upto(i)) <= n /\ Cardinality(Upto(i)) \in Nat
    BY <1>3, <2>1, FS_Subset, FS_CardinalityType
  <2>3. Cardinality(Upto(i)) # 0
    BY <2>1, <2>2, FS_EmptySet
  <2> QED
    BY <1>3, <2>2, <2>3
<1>5. \A i, j \in K : i < j => Cardinality(Upto(i)) < Cardinality(Upto(j))
  <2> SUFFICES ASSUME NEW i \in K, NEW j \in K, i < j
               PROVE  Cardinality(Upto(i)) < Cardinality(Upto(j))
    OBVIOUS
  <2>1. Upto(i) \in SUBSET Upto(j) /\ j \in Upto(j) /\ j \notin Upto(i)
    BY <1>1
  <2> HIDE DEF Upto
  <2>2. /\ Cardinality(Upto(i)) <= Cardinality(Upto(j))
        /\ Cardinality(Upto(i)) # Cardinality(Upto(j))
    BY <1>4, <2>1, FS_Subset
  <2> QED
    BY <1>3, <1>4, <2>2
<1> HIDE DEF Upto
<1>6. r \in Injection(K, 1 .. n)
  BY <1>1, <1>3, <1>4, <1>5 DEF Injection, IsInjective
<1>7. IsFiniteSet(1 .. n) /\ Cardinality(1 .. n) = n
  BY <1>3, FS_Interval
<1> HIDE DEF n, r
<1>8. r \in Surjection(K, 1 .. n)
  BY <1>3, <1>6, <1>7, FS_Injection DEF n
<1>9. \A k \in 1 .. n : \E i \in K : Cardinality(Upto(i)) = k
  BY <1>8 DEF Surjection, r
<1>10. f \in [1 .. n -> K] /\ \A k \in 1 .. n : Cardinality(Upto(f[k])) = k
  BY <1>9
<1>11. t = [k \in 1 .. n |-> s[f[k]]]
  BY DEF Keeping, n, Upto
<1> HIDE DEF f, t
<1>12. \A k \in 1 .. n : s[f[k]] \in S
  BY <1>10
<1>13. t \in Seq(S) /\ Len(t) = n /\ DOMAIN t = 1 .. n
  BY <1>3, <1>11, <1>12
<1>14. \A i, j \in 1 .. n : i < j => f[i] < f[j]
  <2> SUFFICES ASSUME NEW i \in 1 .. n, NEW j \in 1 .. n, i < j PROVE f[i] < f[j]
    OBVIOUS
  <2>1. f[i] \in K /\ f[j] \in K /\ f[i] \in Nat /\ f[j] \in Nat
    BY <1>1, <1>10
  <2>2. Cardinality(Upto(f[i])) = i /\ Cardinality(Upto(f[j])) = j
    BY <1>10
  <2>3. f[i] # f[j] /\ ~(f[j] < f[i])
    BY <1>3, <1>5, <2>1, <2>2
  <2> QED
    BY <2>1, <2>3
<1>15. \A k \in K : \E i \in 1 .. n : f[i] = k
  <2> SUFFICES ASSUME NEW k \in K PROVE \E i \in 1 .. n : f[i] = k
    OBVIOUS
  <2> DEFINE i == Cardinality(Upto(k))
  <2>1. i \in 1 .. n
    BY <1>4
  <2>2. f[i] \in K /\ Cardinality(Upto(f[i])) = i
    BY <1>10, <2>1
  <2>3. ~(f[i] < k) /\ ~(k < f[i])
    BY <1>3, <1>5, <2>1, <2>2
  <2>4. f[i] = k
    BY <1>1, <2>2, <2>3
  <2> QED
    BY <2>1, <2>4
<1>16. \A i \in 1 .. n : t[i] = s[f[i]]
  BY <1>11
<1>17. t \in Seq(S) /\ Len(t) <= Len(s)
  BY <1>3, <1>13
<1>18. f \in [DOMAIN t -> K]
  BY <1>10, <1>13
<1>19. Places(s, K, t, f)
  BY <1>13, <1>14, <1>15, <1>16, <1>18 DEF Places
<1> QED
  BY <1>17, <1>19 DEF t

-----------------------------------------------------------------------------
(* The link: requests, replies and messages *)

\* The parts of a link, element by element.
LEMMA LinkTyped ==
    ASSUME NEW q \in Links
    PROVE  /\ q.waiting \in Seq(Requests) /\ q.reply \in Seq(Replies) /\ q.inbox \in Seq(Messages)
           /\ Len(q.reply) <= 1 /\ DOMAIN q.reply \subseteq {1}
           /\ \A i \in DOMAIN q.waiting : q.waiting[i] \in Requests
           /\ \A i \in DOMAIN q.reply : q.reply[i] \in Replies
           /\ \A i \in DOMAIN q.inbox : q.inbox[i] \in Messages /\ i \in Nat \ {0}
<1>1. q.waiting \in Seq(Requests) /\ q.reply \in Seq(Replies) /\ q.inbox \in Seq(Messages)
      /\ Len(q.reply) <= 1
  BY DEF Links
<1> HIDE DEF Links, Requests, Replies, Messages
<1> QED
  BY <1>1

\* Taking a message moves the others up by one place.
LEMMA TakenLinks ==
    ASSUME NEW q \in Links, q.inbox # <<>>
    PROVE  /\ Taken(q) \in Links /\ Taken(q).waiting = q.waiting /\ Taken(q).reply = q.reply
           /\ Head(q.inbox) = q.inbox[1] /\ 1 \in DOMAIN q.inbox /\ Head(q.inbox) \in Messages
           /\ \A i \in DOMAIN Taken(q).inbox :
                  i \in Nat /\ i + 1 \in DOMAIN q.inbox /\ Taken(q).inbox[i] = q.inbox[i + 1]
           /\ \A j \in DOMAIN q.inbox :
                  j # 1 => j - 1 \in DOMAIN Taken(q).inbox /\ Taken(q).inbox[j - 1] = q.inbox[j]
           /\ Len(Taken(q).inbox) + 1 = Len(q.inbox) /\ Len(Taken(q).inbox) \in Nat
<1> DEFINE t == Tail(q.inbox)
           r == Taken(q)
<1>1. q.inbox \in Seq(Messages)
  BY LinkTyped
<1> HIDE DEF Messages
<1>2. /\ Head(q.inbox) = q.inbox[1] /\ 1 \in DOMAIN q.inbox /\ Head(q.inbox) \in Messages
      /\ t \in Seq(Messages)
      /\ \A i \in DOMAIN t : i \in Nat /\ i + 1 \in DOMAIN q.inbox /\ t[i] = q.inbox[i + 1]
      /\ \A j \in DOMAIN q.inbox : j # 1 => j - 1 \in DOMAIN t /\ t[j - 1] = q.inbox[j]
      /\ Len(t) + 1 = Len(q.inbox) /\ Len(t) \in Nat
  BY <1>1
<1> HIDE DEF t
<1>3. r \in Links /\ r.waiting = q.waiting /\ r.reply = q.reply /\ r.inbox = t
  BY <1>2 DEF Taken, Links, t
<1> QED
  BY <1>2, <1>3

\* What was on its way before a message was taken still is, unless that message
\* was it.
LEMMA TakenCover ==
    ASSUME NEW q \in Links, q.inbox # <<>>, NEW a, NEW ev
    PROVE  LET m == Head(q.inbox)
               r == Taken(q)
           IN  /\ Renewal(ev, q) => Renewal(ev, r) \/ Renews(m)
               /\ ConfigsOK(a, q) => ConfigsOK(a, r) /\ ConfigOK(a, m)
               /\ Covered(a, q, 1) => Covered(a, r, 1) \/ Current(a, m)
               /\ Listed(a, q, 1) => Listed(a, r, 1) \/ Fresh(a, m)
<1> DEFINE m == Head(q.inbox)
           r == Taken(q)
<1>1. /\ r \in Links /\ r.waiting = q.waiting /\ r.reply = q.reply
      /\ m = q.inbox[1] /\ 1 \in DOMAIN q.inbox
      /\ \A i \in DOMAIN r.inbox : i \in Nat /\ i + 1 \in DOMAIN q.inbox /\ r.inbox[i] = q.inbox[i + 1]
      /\ \A j \in DOMAIN q.inbox : j # 1 => j - 1 \in DOMAIN r.inbox /\ r.inbox[j - 1] = q.inbox[j]
  BY TakenLinks
<1>2. \A i \in DOMAIN r.inbox : i >= 1
  BY <1>1, LinkTyped
<1> HIDE DEF m, r
<1>3. Renewal(ev, q) => Renewal(ev, r) \/ Renews(m)
  BY <1>1 DEF Renewal
<1>4. ConfigsOK(a, q) => ConfigsOK(a, r) /\ ConfigOK(a, m)
  BY <1>1 DEF ConfigsOK
<1>5. Covered(a, q, 1) => Covered(a, r, 1) \/ Current(a, m)
  BY <1>1, <1>2 DEF Covered
<1>6. Listed(a, q, 1) => Listed(a, r, 1) \/ Fresh(a, m)
  BY <1>1, <1>2 DEF Listed
<1> QED
  BY <1>3, <1>4, <1>5, <1>6 DEF m, r

\* The messages behind the head: v is the application after it.
LEMMA TakenSettles ==
    ASSUME NEW q \in Links, q.inbox # <<>>, NEW a, NEW u, NEW v,
           \/ u.early => v.early
           \/ Head(q.inbox).kind = "GetConfig" /\ v.early = Head(q.inbox).snap.early
    PROVE  /\ ShowingOK(a, q, u) => ShowingOK(a, Taken(q), v)
           /\ OutdatingOK(a, q, u) => OutdatingOK(a, Taken(q), v)
<1> DEFINE m == Head(q.inbox)
           r == Taken(q)
           n == Len(r.inbox)
<1>1. /\ r \in Links /\ r.waiting = q.waiting /\ r.reply = q.reply
      /\ m = q.inbox[1] /\ 1 \in DOMAIN q.inbox
      /\ \A i \in DOMAIN r.inbox : i \in Nat /\ i + 1 \in DOMAIN q.inbox /\ r.inbox[i] = q.inbox[i + 1]
      /\ \A j \in DOMAIN q.inbox : j # 1 => j - 1 \in DOMAIN r.inbox /\ r.inbox[j - 1] = q.inbox[j]
      /\ n + 1 = Len(q.inbox) /\ n \in Nat
  BY TakenLinks
<1>2. /\ \A i \in DOMAIN r.inbox : i >= 1
      /\ \A j \in DOMAIN q.inbox : j \in Nat
  BY <1>1, LinkTyped
<1>3. \/ u.early => v.early
      \/ m.kind = "GetConfig" /\ v.early = m.snap.early
  OBVIOUS
<1> HIDE DEF m, r, n
<1>4. ASSUME NEW i \in Nat \ {0}
      PROVE  /\ Covered(a, q, i + 1) => Covered(a, r, i)
             /\ Listed(a, q, i + 1) => Listed(a, r, i)
  <2>1. ASSUME NEW j \in DOMAIN q.inbox, j >= i + 1
        PROVE  j - 1 \in DOMAIN r.inbox /\ j - 1 >= i /\ r.inbox[j - 1] = q.inbox[j]
    BY <1>1, <1>2, <2>1
  <2> QED
    BY <1>1, <2>1 DEF Covered, Listed
<1>5. ASSUME NEW i \in Nat \ {0}, NEW x, Excused(u, q, x, i + 1)
      PROVE  Excused(v, r, x, i)
  <2>1. CASE x.kind = "GetConfig"
    BY <1>5, <2>1 DEF Excused
  <2>2. CASE x.kind # "GetConfig"
    <3>1. u.early /\ \A j \in DOMAIN q.inbox : j < i + 1 => EarlyConfig(q.inbox[j])
      BY <1>5, <2>2 DEF Excused
    <3>2. v.early
      BY <1>1, <1>3, <3>1 DEF EarlyConfig
    <3>3. ASSUME NEW j \in DOMAIN r.inbox, j < i PROVE EarlyConfig(r.inbox[j])
      <4>1. j + 1 \in DOMAIN q.inbox /\ j + 1 < i + 1 /\ r.inbox[j] = q.inbox[j + 1]
        BY <1>1, <3>3
      <4> QED
        BY <3>1, <4>1
    <3> QED
      BY <2>2, <3>2, <3>3 DEF Excused
  <2> QED
    BY <2>1, <2>2
<1>6. ASSUME ShowingOK(a, q, u) PROVE ShowingOK(a, r, v)
  <2>1. ASSUME NEW i \in DOMAIN r.inbox, Showing(r.inbox[i])
        PROVE  Covered(a, r, i) \/ Excused(v, r, r.inbox[i], i)
    <3>1. i + 1 \in DOMAIN q.inbox /\ r.inbox[i] = q.inbox[i + 1] /\ i \in Nat \ {0}
      BY <1>1, <1>2
    <3>2. Covered(a, q, i + 1) \/ Excused(u, q, r.inbox[i], i + 1)
      BY <1>6, <2>1, <3>1 DEF ShowingOK
    <3> QED
      BY <1>4, <1>5, <3>1, <3>2
  <2>2. ASSUME NEW i \in DOMAIN r.reply, Showing(r.reply[i])
        PROVE  Current(a, r.reply[i]) \/ Excused(v, r, r.reply[i], n + 1)
    <3>1. Current(a, r.reply[i]) \/ Excused(u, q, r.reply[i], Len(q.inbox) + 1)
      BY <1>1, <1>6, <2>2 DEF ShowingOK
    <3>2. n + 1 \in Nat \ {0} /\ Len(q.inbox) + 1 = (n + 1) + 1
      BY <1>1
    <3> QED
      BY <1>5, <3>1, <3>2
  <2> QED
    BY <2>1, <2>2 DEF ShowingOK, n
<1>7. ASSUME OutdatingOK(a, q, u) PROVE OutdatingOK(a, r, v)
  <2> SUFFICES ASSUME ~a.locked
               PROVE  /\ \A i \in DOMAIN r.inbox :
                             Outdating(a, r.inbox[i]) => \/ Covered(a, r, i) \/ Listed(a, r, i)
                                                         \/ Excused(v, r, r.inbox[i], i)
                      /\ \A i \in DOMAIN r.reply :
                             Outdating(a, r.reply[i]) =>
                                 \/ \E j \in DOMAIN r.waiting : r.waiting[j].kind = "GetEntries"
                                 \/ Excused(v, r, r.reply[i], n + 1)
    BY DEF OutdatingOK, n
  <2>1. ASSUME NEW i \in DOMAIN r.inbox, Outdating(a, r.inbox[i])
        PROVE  Covered(a, r, i) \/ Listed(a, r, i) \/ Excused(v, r, r.inbox[i], i)
    <3>1. i + 1 \in DOMAIN q.inbox /\ r.inbox[i] = q.inbox[i + 1] /\ i \in Nat \ {0}
      BY <1>1, <1>2
    <3>2. Covered(a, q, i + 1) \/ Listed(a, q, i + 1) \/ Excused(u, q, r.inbox[i], i + 1)
      BY <1>7, <2>1, <3>1 DEF OutdatingOK
    <3> QED
      BY <1>4, <1>5, <3>1, <3>2
  <2>2. ASSUME NEW i \in DOMAIN r.reply, Outdating(a, r.reply[i])
        PROVE  \/ \E j \in DOMAIN r.waiting : r.waiting[j].kind = "GetEntries"
               \/ Excused(v, r, r.reply[i], n + 1)
    <3>1. \/ \E j \in DOMAIN r.waiting : r.waiting[j].kind = "GetEntries"
          \/ Excused(u, q, r.reply[i], Len(q.inbox) + 1)
      BY <1>1, <1>7, <2>2 DEF OutdatingOK
    <3>2. n + 1 \in Nat \ {0} /\ Len(q.inbox) + 1 = (n + 1) + 1
      BY <1>1
    <3> QED
      BY <1>5, <3>1, <3>2
  <2> QED
    BY <2>1, <2>2
<1> QED
  BY <1>6, <1>7 DEF r

\* More requests only help.
LEMMA EnqueuedSettles ==
    ASSUME NEW q \in Links, NEW s \in Seq(Requests), NEW a, NEW ev, NEW u
    PROVE  LET r == Enqueue(q, s)
           IN  /\ r \in Links /\ r.inbox = q.inbox /\ r.reply = q.reply
               /\ \A i \in DOMAIN r.waiting :
                      \/ i \in DOMAIN q.waiting /\ r.waiting[i] = q.waiting[i]
                      \/ \E j \in DOMAIN s : r.waiting[i] = s[j]
               /\ Renewal(ev, q) \/ (\E i \in DOMAIN s : s[i].kind = "GetConfig") => Renewal(ev, r)
               /\ ConfigsOK(a, q) => ConfigsOK(a, r)
               /\ ShowingOK(a, q, u) => ShowingOK(a, r, u)
               /\ OutdatingOK(a, q, u) => OutdatingOK(a, r, u)
               /\ ViewOK(a, q, u) => ViewOK(a, r, u)
               /\ \A i : Covered(a, q, i) => Covered(a, r, i)
               /\ (\E i \in DOMAIN s : s[i].kind = "GetEntries") => Listed(a, r, 1)
<1> DEFINE r == Enqueue(q, s)
           w == q.waiting \o s
<1>1. q.waiting \in Seq(Requests)
  BY LinkTyped
<1> HIDE DEF Requests
<1>2. /\ w \in Seq(Requests)
      /\ \A i \in DOMAIN q.waiting : i \in DOMAIN w /\ w[i] = q.waiting[i]
      /\ \A i \in DOMAIN s : Len(q.waiting) + i \in DOMAIN w /\ w[Len(q.waiting) + i] = s[i]
  BY <1>1
<1>3. \A i \in DOMAIN w : \/ i \in DOMAIN q.waiting /\ w[i] = q.waiting[i]
                          \/ i - Len(q.waiting) \in DOMAIN s /\ w[i] = s[i - Len(q.waiting)]
  BY <1>1
<1> HIDE DEF w
<1>4. r \in Links /\ r.waiting = w /\ r.inbox = q.inbox /\ r.reply = q.reply
  BY <1>2 DEF Enqueue, Links, w
<1> HIDE DEF r
<1>5. /\ Renewal(ev, q) \/ (\E i \in DOMAIN s : s[i].kind = "GetConfig") => Renewal(ev, r)
      /\ \A i : Covered(a, q, i) => Covered(a, r, i)
      /\ \A i : Listed(a, q, i) => Listed(a, r, i)
      /\ (\E i \in DOMAIN s : s[i].kind = "GetEntries") => \A i : Listed(a, r, i)
      /\ \A x, i : Excused(u, q, x, i) => Excused(u, r, x, i)
  BY <1>2, <1>4 DEF Renewal, Covered, Listed, Excused
<1>6. ConfigsOK(a, q) => ConfigsOK(a, r)
  BY <1>4 DEF ConfigsOK
<1>7. ShowingOK(a, q, u) => ShowingOK(a, r, u)
  BY <1>4, <1>5 DEF ShowingOK
<1>8. OutdatingOK(a, q, u) => OutdatingOK(a, r, u)
  BY <1>2, <1>4, <1>5 DEF OutdatingOK
<1>9. ViewOK(a, q, u) => ViewOK(a, r, u)
  BY <1>5 DEF ViewOK
<1>10. \A i \in DOMAIN r.waiting :
                      \/ i \in DOMAIN q.waiting /\ r.waiting[i] = q.waiting[i]
                      \/ \E j \in DOMAIN s : r.waiting[i] = s[j]
  BY <1>3, <1>4
<1> QED
  BY <1>4, <1>5, <1>6, <1>7, <1>8, <1>9, <1>10 DEF r

\* What AskFor sends.
LEMMA AskForSends ==
    ASSUME NEW q, NEW kinds \in Seq(Kinds), NEW by \in Surfaces
    PROVE  \E s \in Seq(Requests) :
               /\ AskFor(q, kinds, by) = Enqueue(q, s)
               /\ DOMAIN s = DOMAIN kinds /\ \A i \in DOMAIN s : s[i].kind = kinds[i]
<1> DEFINE s == [i \in DOMAIN kinds |-> Request(kinds[i], by)]
<1>1. \A i \in DOMAIN kinds : Request(kinds[i], by) \in Requests /\ Request(kinds[i], by).kind = kinds[i]
  <2> HIDE DEF Kinds, Surfaces
  <2> QED
    BY DEF Request, Requests
<1> HIDE DEF Requests, Kinds
<1>2. s \in Seq(Requests)
  BY <1>1
<1>3. AskFor(q, kinds, by) = Enqueue(q, s)
  BY DEF AskFor
<1>4. DOMAIN s = DOMAIN kinds /\ \A i \in DOMAIN s : s[i].kind = kinds[i]
  BY <1>1
<1> HIDE DEF s
<1> QED
  BY <1>2, <1>3, <1>4

\* A message at the end of the queue that is no reply.
LEMMA PostedSettles ==
    ASSUME NEW q \in Links, NEW m \in Messages, m.kind \in {"Event", "Refresh"}, NEW a, NEW ev, NEW u
    PROVE  LET r == PostMessage(q, m)
           IN  /\ r \in Links /\ r.waiting = q.waiting /\ r.reply = q.reply
               /\ \A i \in DOMAIN r.inbox : (i \in DOMAIN q.inbox /\ r.inbox[i] = q.inbox[i]) \/ r.inbox[i] = m
               /\ Renewal(ev, q) \/ Renews(m) => Renewal(ev, r)
               /\ ConfigsOK(a, q) => ConfigsOK(a, r)
               /\ ShowingOK(a, q, u) => ShowingOK(a, r, u)
               /\ OutdatingOK(a, q, u) => OutdatingOK(a, r, u)
               /\ ViewOK(a, q, u) => ViewOK(a, r, u)
<1> DEFINE r == PostMessage(q, m)
           t == Append(q.inbox, m)
           n == Len(q.inbox)
<1>1. q.inbox \in Seq(Messages)
  BY LinkTyped
<1> HIDE DEF Messages
<1>2. /\ t \in Seq(Messages) /\ n \in Nat /\ Len(t) = n + 1
      /\ n + 1 \in DOMAIN t /\ t[n + 1] = m
      /\ \A i \in DOMAIN q.inbox : i \in DOMAIN t /\ t[i] = q.inbox[i]
      /\ \A i \in DOMAIN t : i \in Nat /\ (i = n + 1 \/ (i \in DOMAIN q.inbox /\ t[i] = q.inbox[i]))
  BY <1>1
<1> HIDE DEF t
<1>3. r \in Links /\ r.waiting = q.waiting /\ r.inbox = t /\ r.reply = q.reply
  BY <1>2 DEF PostMessage, Links, t
<1> HIDE DEF r
<1>4. ~Showing(m) /\ ~Outdating(a, m) /\ EarlyConfig(m) /\ ConfigOK(a, m)
  BY DEF Showing, Outdating, EarlyConfig, ConfigOK, Auth
<1>5. /\ Renewal(ev, q) \/ Renews(m) => Renewal(ev, r)
      /\ \A i : Covered(a, q, i) => Covered(a, r, i)
      /\ \A i : Listed(a, q, i) => Listed(a, r, i)
  BY <1>2, <1>3 DEF Renewal, Covered, Listed
<1>6. ASSUME NEW x, NEW i, Excused(u, q, x, i), i \in DOMAIN q.inbox \/ i = n + 1
      PROVE  Excused(u, r, x, i) /\ (i = n + 1 => Excused(u, r, x, n + 2))
  <2>1. CASE x.kind = "GetConfig"
    BY <1>6, <2>1 DEF Excused
  <2>2. CASE x.kind # "GetConfig"
    <3>1. u.early /\ \A j \in DOMAIN q.inbox : j < i => EarlyConfig(q.inbox[j])
      BY <1>6, <2>2 DEF Excused
    <3>2. \A j \in DOMAIN t : j < i => EarlyConfig(t[j])
      BY <1>2, <1>4, <3>1
    <3>3. i = n + 1 => \A j \in DOMAIN t : EarlyConfig(t[j])
      <4>1. \A j \in DOMAIN q.inbox : j < n + 1
        BY <1>1
      <4> QED
        BY <1>2, <1>4, <3>1, <4>1
    <3> QED
      BY <1>3, <2>2, <3>1, <3>2, <3>3 DEF Excused
  <2> QED
    BY <2>1, <2>2
<1>7. ConfigsOK(a, q) => ConfigsOK(a, r)
  BY <1>2, <1>3, <1>4 DEF ConfigsOK
<1>8. ASSUME ShowingOK(a, q, u) PROVE ShowingOK(a, r, u)
  <2>1. ASSUME NEW i \in DOMAIN t, Showing(t[i])
        PROVE  Covered(a, r, i) \/ Excused(u, r, t[i], i)
    <3>1. i \in DOMAIN q.inbox /\ t[i] = q.inbox[i]
      BY <1>2, <1>4, <2>1
    <3>2. Covered(a, q, i) \/ Excused(u, q, t[i], i)
      BY <1>8, <2>1, <3>1 DEF ShowingOK
    <3> QED
      BY <1>5, <1>6, <3>1, <3>2
  <2>2. ASSUME NEW i \in DOMAIN q.reply, Showing(q.reply[i])
        PROVE  Current(a, q.reply[i]) \/ Excused(u, r, q.reply[i], Len(t) + 1)
    <3>1. Current(a, q.reply[i]) \/ Excused(u, q, q.reply[i], n + 1)
      BY <1>8, <2>2 DEF ShowingOK
    <3>2. Len(t) + 1 = n + 2
      BY <1>2
    <3> QED
      BY <1>6, <3>1, <3>2
  <2> QED
    BY <1>3, <2>1, <2>2 DEF ShowingOK
<1>9. ASSUME OutdatingOK(a, q, u) PROVE OutdatingOK(a, r, u)
  <2>1. ASSUME ~a.locked, NEW i \in DOMAIN t, Outdating(a, t[i])
        PROVE  Covered(a, r, i) \/ Listed(a, r, i) \/ Excused(u, r, t[i], i)
    <3>1. i \in DOMAIN q.inbox /\ t[i] = q.inbox[i]
      BY <1>2, <1>4, <2>1
    <3>2. Covered(a, q, i) \/ Listed(a, q, i) \/ Excused(u, q, t[i], i)
      BY <1>9, <2>1, <3>1 DEF OutdatingOK
    <3> QED
      BY <1>5, <1>6, <3>1, <3>2
  <2>2. ASSUME ~a.locked, NEW i \in DOMAIN q.reply, Outdating(a, q.reply[i])
        PROVE  \/ \E j \in DOMAIN q.waiting : q.waiting[j].kind = "GetEntries"
               \/ Excused(u, r, q.reply[i], Len(t) + 1)
    <3>1. \/ \E j \in DOMAIN q.waiting : q.waiting[j].kind = "GetEntries"
          \/ Excused(u, q, q.reply[i], n + 1)
      BY <1>9, <2>2 DEF OutdatingOK
    <3>2. Len(t) + 1 = n + 2
      BY <1>2
    <3> QED
      BY <1>6, <3>1, <3>2
  <2> QED
    BY <1>3, <2>1, <2>2 DEF OutdatingOK
<1>10. ViewOK(a, q, u) => ViewOK(a, r, u)
  BY <1>5 DEF ViewOK
<1>11. \A i \in DOMAIN r.inbox : (i \in DOMAIN q.inbox /\ r.inbox[i] = q.inbox[i]) \/ r.inbox[i] = m
  BY <1>2, <1>3
<1> QED
  BY <1>3, <1>5, <1>7, <1>8, <1>9, <1>10, <1>11 DEF r

\* Leaving out the list requests and replies of an earlier search.
LEMMA NewSearchSettles ==
    ASSUME NEW q \in Links, NEW a, NEW ev, NEW u
    PROVE  LET r == NewSearch(q)
           IN  /\ r \in Links
               /\ \A i \in DOMAIN r.inbox : \E j \in DOMAIN q.inbox : r.inbox[i] = q.inbox[j]
               /\ \A i \in DOMAIN r.reply : \E j \in DOMAIN q.reply : r.reply[i] = q.reply[j]
               /\ \A i \in DOMAIN r.waiting : \E j \in DOMAIN q.waiting : r.waiting[i] = q.waiting[j]
               /\ Renewal(ev, q) => Renewal(ev, r)
               /\ ConfigsOK(a, q) => ConfigsOK(a, r)
               /\ ShowingOK(a, q, u) => ShowingOK(a, r, u)
               /\ OutdatingOK(a, r, u)
               /\ Covered(a, q, 1) => Covered(a, r, 1)
<1> DEFINE r == NewSearch(q)
           KI == {i \in DOMAIN q.inbox : q.inbox[i].kind # "GetEntries"}
           KR == {i \in DOMAIN q.reply : q.reply[i].kind # "GetEntries"}
           KW == {i \in DOMAIN q.waiting : q.waiting[i].kind # "GetEntries"}
<1>1. r = [waiting |-> Keeping(q.waiting, KW), reply |-> Keeping(q.reply, KR),
           inbox |-> Keeping(q.inbox, KI)]
  BY DEF NewSearch
<1>2. /\ q.waiting \in Seq(Requests) /\ q.reply \in Seq(Replies) /\ q.inbox \in Seq(Messages)
      /\ Len(q.reply) <= 1 /\ Len(q.reply) \in Nat
      /\ \A i \in DOMAIN q.inbox : i \in Nat \ {0} /\ i < Len(q.inbox) + 1
  BY LinkTyped
<1>3. KI \in SUBSET DOMAIN q.inbox /\ KR \in SUBSET DOMAIN q.reply /\ KW \in SUBSET DOMAIN q.waiting
  OBVIOUS
<1>4. r.waiting = Keeping(q.waiting, KW) /\ r.reply = Keeping(q.reply, KR) /\ r.inbox = Keeping(q.inbox, KI)
  BY <1>1
<1> HIDE DEF KI, KR, KW, Requests, Replies, Messages
<1>5. r.waiting \in Seq(Requests) /\ r.reply \in Seq(Replies) /\ Len(r.reply) <= Len(q.reply)
      /\ r.inbox \in Seq(Messages)
  BY <1>2, <1>3, <1>4, KeepingProps
<1>6. r \in Links
  <2>1. Len(r.reply) <= 1
    BY <1>2, <1>5
  <2> QED
    BY <1>1, <1>4, <1>5, <2>1 DEF Links
<1>7. PICK f : Places(q.inbox, KI, r.inbox, f)
  BY <1>2, <1>3, <1>4, KeepingProps
<1>8. PICK g : Places(q.reply, KR, r.reply, g)
  BY <1>2, <1>3, <1>4, KeepingProps
<1>9. PICK h : Places(q.waiting, KW, r.waiting, h)
  BY <1>2, <1>3, <1>4, KeepingProps
<1> HIDE DEF r
<1>10. /\ \A i \in DOMAIN r.inbox :
              f[i] \in DOMAIN q.inbox /\ r.inbox[i] = q.inbox[f[i]] /\ r.inbox[i].kind # "GetEntries"
       /\ \A i \in DOMAIN r.reply :
              g[i] \in DOMAIN q.reply /\ r.reply[i] = q.reply[g[i]] /\ r.reply[i].kind # "GetEntries"
       /\ \A i \in DOMAIN r.waiting : h[i] \in DOMAIN q.waiting /\ r.waiting[i] = q.waiting[h[i]]
  BY <1>7, <1>8, <1>9 DEF Places, KI, KR, KW
<1>11. /\ \A k \in DOMAIN q.inbox :
              q.inbox[k].kind # "GetEntries" => \E i \in DOMAIN r.inbox : f[i] = k /\ r.inbox[i] = q.inbox[k]
       /\ \A k \in DOMAIN q.reply :
              q.reply[k].kind # "GetEntries" => \E i \in DOMAIN r.reply : r.reply[i] = q.reply[k]
       /\ \A k \in DOMAIN q.waiting :
              q.waiting[k].kind # "GetEntries" => \E i \in DOMAIN r.waiting : r.waiting[i] = q.waiting[k]
  BY <1>7, <1>8, <1>9 DEF Places, KI, KR, KW
<1>12. Renewal(ev, q) => Renewal(ev, r)
  BY <1>11 DEF Renewal, Renews
<1>13. ConfigsOK(a, q) => ConfigsOK(a, r)
  BY <1>10 DEF ConfigsOK
<1>14. OutdatingOK(a, r, u)
  BY <1>10 DEF OutdatingOK, Outdating
<1>15. \A i, k \in DOMAIN r.inbox : i \in Nat /\ f[i] \in Nat /\ (f[k] >= f[i] => k >= i)
  <2> SUFFICES ASSUME NEW i \in DOMAIN r.inbox, NEW k \in DOMAIN r.inbox
               PROVE  i \in Nat /\ f[i] \in Nat /\ (f[k] >= f[i] => k >= i)
    OBVIOUS
  <2>1. i \in Nat /\ k \in Nat
    BY <1>5
  <2>2. f[i] \in Nat /\ f[k] \in Nat
    BY <1>2, <1>10
  <2>3. k < i => f[k] < f[i]
    BY <1>7 DEF Places
  <2> QED
    BY <2>1, <2>2, <2>3
<1>16. \A i \in DOMAIN r.inbox : Covered(a, q, f[i]) => Covered(a, r, i)
  <2> SUFFICES ASSUME NEW i \in DOMAIN r.inbox, Covered(a, q, f[i]) PROVE Covered(a, r, i)
    OBVIOUS
  <2>1. CASE \E j \in DOMAIN q.reply : Current(a, q.reply[j])
    BY <1>11, <2>1 DEF Covered, Current
  <2>2. CASE \E j \in DOMAIN q.inbox : j >= f[i] /\ Current(a, q.inbox[j])
    <3>1. PICK j \in DOMAIN q.inbox : j >= f[i] /\ Current(a, q.inbox[j])
      BY <2>2
    <3>2. PICK k \in DOMAIN r.inbox : f[k] = j /\ r.inbox[k] = q.inbox[j]
      BY <1>11, <3>1 DEF Current
    <3> QED
      BY <1>15, <3>1, <3>2 DEF Covered
  <2> QED
    BY <2>1, <2>2 DEF Covered
<1>17. Covered(a, q, 1) => Covered(a, r, 1)
  <2>1. \A k \in DOMAIN r.inbox : k >= 1
    BY <1>5
  <2> QED
    BY <1>11, <2>1 DEF Covered, Current
<1>18. ASSUME ShowingOK(a, q, u) PROVE ShowingOK(a, r, u)
  <2>1. ASSUME NEW i \in DOMAIN r.inbox, Showing(r.inbox[i])
        PROVE  Covered(a, r, i) \/ Excused(u, r, r.inbox[i], i)
    <3>1. Covered(a, q, f[i]) \/ Excused(u, q, r.inbox[i], f[i])
      BY <1>10, <1>18, <2>1 DEF ShowingOK
    <3>2. ASSUME Excused(u, q, r.inbox[i], f[i]) PROVE Excused(u, r, r.inbox[i], i)
      <4>1. \A j \in DOMAIN r.inbox : j < i => f[j] \in DOMAIN q.inbox /\ f[j] < f[i] /\ r.inbox[j] = q.inbox[f[j]]
        BY <1>7, <1>10 DEF Places
      <4> QED
        BY <3>2, <4>1 DEF Excused
    <3> QED
      BY <1>16, <3>1, <3>2
  <2>2. ASSUME NEW i \in DOMAIN r.reply, Showing(r.reply[i])
        PROVE  Current(a, r.reply[i]) \/ Excused(u, r, r.reply[i], Len(r.inbox) + 1)
    <3>1. Current(a, r.reply[i]) \/ Excused(u, q, r.reply[i], Len(q.inbox) + 1)
      BY <1>10, <1>18, <2>2 DEF ShowingOK
    <3>2. ASSUME Excused(u, q, r.reply[i], Len(q.inbox) + 1)
          PROVE  Excused(u, r, r.reply[i], Len(r.inbox) + 1)
      <4>1. \A j \in DOMAIN r.inbox : f[j] \in DOMAIN q.inbox /\ f[j] < Len(q.inbox) + 1 /\ r.inbox[j] = q.inbox[f[j]]
        BY <1>2, <1>10
      <4> QED
        BY <3>2, <4>1 DEF Excused
    <3> QED
      BY <3>1, <3>2
  <2> QED
    BY <2>1, <2>2 DEF ShowingOK
<1> QED
  BY <1>6, <1>10, <1>12, <1>13, <1>14, <1>17, <1>18 DEF r

\* The agent's answer to the request at the head.
LEMMA AnsweredSettles ==
    ASSUME NEW q \in Links, CanServe(q), NEW m \in Replies, NEW a, NEW ev, NEW u,
           m.kind = Head(q.waiting).kind
    PROVE  LET r == Answered(q, m)
               h == Head(q.waiting)
           IN  /\ r \in Links /\ r.inbox = q.inbox /\ r.reply = <<m>>
               /\ h \in Requests /\ 1 \in DOMAIN q.waiting /\ h = q.waiting[1]
               /\ \A i \in DOMAIN r.waiting : \E j \in DOMAIN q.waiting : r.waiting[i] = q.waiting[j]
               /\ Renewal(ev, q) => Renewal(ev, r) \/ h.kind = "GetConfig"
               /\ ConfigsOK(a, q) /\ ConfigOK(a, m) => ConfigsOK(a, r)
               /\ ShowingOK(a, q, u) /\ ~Showing(m) => ShowingOK(a, r, u)
               /\ OutdatingOK(a, q, u) /\ (h.kind = "GetEntries" => a.locked \/ Fresh(a, m))
                      => OutdatingOK(a, r, u)
               /\ ViewOK(a, q, u) /\ (h.kind = "GetEntries" => a.locked \/ Fresh(a, m))
                      => ViewOK(a, r, u)
<1> DEFINE r == Answered(q, m)
           h == Head(q.waiting)
           t == Tail(q.waiting)
           e == <<m>>
<1>1. q.waiting \in Seq(Requests) /\ q.waiting # <<>> /\ q.reply = <<>> /\ q.inbox \in Seq(Messages)
  BY LinkTyped DEF CanServe
<1> HIDE DEF Requests, Replies, Messages
<1>2. /\ t \in Seq(Requests) /\ h \in Requests /\ 1 \in DOMAIN q.waiting /\ h = q.waiting[1]
      /\ \A i \in DOMAIN t : i + 1 \in DOMAIN q.waiting /\ t[i] = q.waiting[i + 1]
      /\ \A i \in DOMAIN q.waiting : i = 1 \/ (i - 1 \in DOMAIN t /\ t[i - 1] = q.waiting[i])
      /\ e \in Seq(Replies) /\ Len(e) = 1 /\ DOMAIN e = {1} /\ e[1] = m
      /\ DOMAIN q.reply = {}
  BY <1>1
<1> HIDE DEF t, e
<1>3. r \in Links /\ r.waiting = t /\ r.inbox = q.inbox /\ r.reply = e
  <2>1. r = [q EXCEPT !.waiting = t, !.reply = e]
    BY DEF Answered, t, e
  <2>2. t \in Seq(Requests) /\ e \in Seq(Replies) /\ Len(e) <= 1
    BY <1>2
  <2> HIDE DEF r
  <2> QED
    BY <2>1, <2>2 DEF Links
<1> HIDE DEF r, h, e
<1>4. m.kind = h.kind
  BY DEF h
<1>5. /\ Renewal(ev, q) => Renewal(ev, r) \/ h.kind = "GetConfig"
      /\ \A i : Covered(a, q, i) => Covered(a, r, i)
      /\ \A i : Listed(a, q, i) => Listed(a, r, i) \/ h.kind = "GetEntries"
      /\ Fresh(a, m) => \A i : Listed(a, r, i)
      /\ \A x, i : Excused(u, q, x, i) => Excused(u, r, x, i)
  BY <1>2, <1>3 DEF Renewal, Covered, Listed, Excused
<1>6. ConfigsOK(a, q) /\ ConfigOK(a, m) => ConfigsOK(a, r)
  BY <1>2, <1>3 DEF ConfigsOK
<1>7. ShowingOK(a, q, u) /\ ~Showing(m) => ShowingOK(a, r, u)
  BY <1>2, <1>3, <1>5 DEF ShowingOK
<1>8. ASSUME OutdatingOK(a, q, u), h.kind = "GetEntries" => a.locked \/ Fresh(a, m)
      PROVE  OutdatingOK(a, r, u)
  <2>1. ~Outdating(a, m) \/ a.locked
    BY <1>4, <1>8 DEF Outdating
  <2> QED
    BY <1>2, <1>3, <1>5, <1>8, <2>1 DEF OutdatingOK
<1>9. ViewOK(a, q, u) /\ (h.kind = "GetEntries" => a.locked \/ Fresh(a, m)) => ViewOK(a, r, u)
  BY <1>5 DEF ViewOK
<1>10. \A i \in DOMAIN r.waiting : \E j \in DOMAIN q.waiting : r.waiting[i] = q.waiting[j]
  BY <1>2, <1>3
<1> QED
  BY <1>2, <1>3, <1>5, <1>6, <1>7, <1>8, <1>9, <1>10 DEF r, h

\* A config read now puts everything before it right.
LEMMA ConfigSettles ==
    ASSUME NEW q \in Links, NEW m, q.reply = <<m>>, NEW a, Current(a, m), NEW u
    PROVE  ShowingOK(a, q, u) /\ OutdatingOK(a, q, u) /\ ViewOK(a, q, u)
<1>1. DOMAIN q.reply = {1} /\ q.reply[1] = m
  OBVIOUS
<1>2. \A i : Covered(a, q, i)
  BY <1>1 DEF Covered
<1>3. ~Outdating(a, m)
  BY DEF Outdating, Current
<1> QED
  BY <1>1, <1>2, <1>3 DEF ShowingOK, OutdatingOK, ViewOK

\* The reply that was on the connection goes to the end of the queue.
LEMMA DeliveredSettles ==
    ASSUME NEW q \in Links, q.reply # <<>>, NEW a, NEW ev, NEW u
    PROVE  LET r == Delivered(q)
           IN  /\ r \in Links /\ r.waiting = q.waiting /\ r.reply = <<>>
               /\ \A i \in DOMAIN r.inbox : \/ i \in DOMAIN q.inbox /\ r.inbox[i] = q.inbox[i]
                                            \/ 1 \in DOMAIN q.reply /\ r.inbox[i] = q.reply[1]
               /\ Renewal(ev, q) => Renewal(ev, r)
               /\ ConfigsOK(a, q) => ConfigsOK(a, r)
               /\ ShowingOK(a, q, u) => ShowingOK(a, r, u)
               /\ OutdatingOK(a, q, u) => OutdatingOK(a, r, u)
               /\ ViewOK(a, q, u) => ViewOK(a, r, u)
<1> DEFINE r == Delivered(q)
           t == q.inbox \o q.reply
           n == Len(q.inbox)
           m == q.reply[1]
           e == <<>>
<1>1. q.inbox \in Seq(Messages) /\ q.reply \in Seq(Replies) /\ Len(q.reply) <= 1
      /\ Replies \subseteq Messages
  BY LinkTyped DEF Messages
<1> HIDE DEF Messages, Replies
<1>2. q.reply \in Seq(Messages) /\ Len(q.reply) = 1 /\ DOMAIN q.reply = {1} /\ n \in Nat
  <2>1. Len(q.reply) \in Nat /\ Len(q.reply) # 0 /\ DOMAIN q.reply = 1 .. Len(q.reply) /\ n \in Nat
    BY <1>1
  <2>0. Len(q.reply) = 1
    <3> DEFINE l == Len(q.reply)
    <3>1. l \in Nat /\ l # 0 /\ l <= 1
      BY <1>1, <2>1
    <3> HIDE DEF l
    <3>2. l = 1
      BY <3>1
    <3> QED
      BY <3>2 DEF l
  <2>2. Len(q.reply) = 1 /\ DOMAIN q.reply = {1}
    BY <2>1, <2>0
  <2>3. \A i \in 1 .. Len(q.reply) : q.reply[i] \in Messages
    BY <1>1
  <2>4. q.reply = [i \in 1 .. Len(q.reply) |-> q.reply[i]]
    BY <1>1
  <2>5. q.reply \in Seq(Messages)
    BY <2>1, <2>3, <2>4
  <2> QED
    BY <2>1, <2>2, <2>5
<1>3. /\ t \in Seq(Messages)
      /\ n + 1 \in DOMAIN t /\ t[n + 1] = m
      /\ \A i \in DOMAIN q.inbox : i \in DOMAIN t /\ t[i] = q.inbox[i] /\ i <= n
      /\ \A i \in DOMAIN t : i \in Nat /\ (i = n + 1 \/ (i \in DOMAIN q.inbox /\ t[i] = q.inbox[i]))
  <2>1. /\ t \in Seq(Messages) /\ Len(t) = n + 1
        /\ \A i \in 1 .. Len(t) : t[i] = IF i <= n THEN q.inbox[i] ELSE q.reply[i - n]
    <3> DEFINE y == q.inbox
               z == q.reply
    <3>1. y \in Seq(Messages) /\ z \in Seq(Messages) /\ Len(z) = 1
      BY <1>1, <1>2
    <3>2. t = y \o z /\ n = Len(y)
      OBVIOUS
    <3> HIDE DEF y, z, t, n
    <3>3. Len(t) = n + 1 /\ t \in Seq(Messages)
      <4>1. t \in Seq(Messages) /\ Len(t) = Len(y) + Len(z)
        BY <3>1, <3>2, ConcatProperties
      <4> QED
        BY <3>1, <3>2, <4>1
    <3>4. \A i \in 1 .. Len(t) : t[i] = IF i <= n THEN y[i] ELSE z[i - n]
      BY <3>1, <3>2, <3>3, ConcatProperties
    <3> QED
      BY <3>3, <3>4 DEF y, z
  <2>2. DOMAIN t = 1 .. n + 1 /\ DOMAIN q.inbox = 1 .. n
    <3>1. DOMAIN t = 1 .. Len(t)
      <4> HIDE DEF t
      <4> QED
        BY <2>1
    <3> QED
      BY <1>1, <2>1, <3>1
  <2> HIDE DEF t, n
  <2>3. n + 1 \in DOMAIN t /\ t[n + 1] = m
    BY <1>2, <2>1, <2>2
  <2> QED
    BY <1>2, <2>1, <2>2, <2>3
<1>0. e \in Seq(Replies) /\ Len(e) = 0 /\ DOMAIN e = {}
  OBVIOUS
<1> HIDE DEF t, e
<1>4. r \in Links /\ r.waiting = q.waiting /\ r.inbox = t /\ r.reply = e /\ DOMAIN r.reply = {}
  <2>1. r = [q EXCEPT !.reply = e, !.inbox = t]
    BY DEF Delivered, t, e
  <2>2. t \in Seq(Messages) /\ e \in Seq(Replies) /\ Len(e) <= 1
    BY <1>3, <1>0
  <2> HIDE DEF r
  <2> QED
    BY <1>0, <2>1, <2>2 DEF Links
<1> HIDE DEF r
<1>5. /\ Renewal(ev, q) => Renewal(ev, r)
      /\ \A i \in Nat : i <= n + 1 /\ Covered(a, q, i) => Covered(a, r, i)
      /\ \A i \in Nat : i <= n + 1 /\ Listed(a, q, i) => Listed(a, r, i)
      /\ Current(a, m) => Covered(a, r, n + 1)
      /\ (\E j \in DOMAIN q.waiting : q.waiting[j].kind = "GetEntries") => Listed(a, r, n + 1)
  <2>1. Renewal(ev, q) => Renewal(ev, r)
    BY <1>3, <1>4 DEF Renewal
  <2>2. ASSUME NEW i \in Nat, i <= n + 1, Covered(a, q, i) PROVE Covered(a, r, i)
    BY <1>2, <1>3, <1>4, <2>2 DEF Covered
  <2>3. ASSUME NEW i \in Nat, i <= n + 1, Listed(a, q, i) PROVE Listed(a, r, i)
    BY <1>2, <1>3, <1>4, <2>3 DEF Listed
  <2>4. Current(a, m) => Covered(a, r, n + 1)
    BY <1>2, <1>3, <1>4 DEF Covered
  <2>5. (\E j \in DOMAIN q.waiting : q.waiting[j].kind = "GetEntries") => Listed(a, r, n + 1)
    BY <1>4 DEF Listed
  <2> QED
    BY <2>1, <2>2, <2>3, <2>4, <2>5
<1>6. ASSUME NEW x, NEW i \in Nat, Excused(u, q, x, i), i <= n + 1 PROVE Excused(u, r, x, i)
  <2>1. \A j \in DOMAIN t : j < i => j \in DOMAIN q.inbox /\ t[j] = q.inbox[j]
    BY <1>2, <1>3, <1>6
  <2> QED
    BY <1>4, <1>6, <2>1 DEF Excused
<1>7. ConfigsOK(a, q) => ConfigsOK(a, r)
  BY <1>2, <1>3, <1>4 DEF ConfigsOK
<1>8. ASSUME ShowingOK(a, q, u), NEW i \in DOMAIN t, Showing(t[i])
      PROVE  Covered(a, r, i) \/ Excused(u, r, t[i], i)
  <2>1. CASE i = n + 1
    <3>1. Current(a, m) \/ Excused(u, q, m, n + 1)
      BY <1>2, <1>3, <1>8, <2>1 DEF ShowingOK
    <3> QED
      BY <1>2, <1>3, <1>5, <1>6, <2>1, <3>1
  <2>2. CASE i # n + 1
    <3>1. i \in DOMAIN q.inbox /\ t[i] = q.inbox[i] /\ i \in Nat /\ i <= n + 1
      BY <1>2, <1>3, <2>2
    <3>2. Covered(a, q, i) \/ Excused(u, q, t[i], i)
      BY <1>8, <3>1 DEF ShowingOK
    <3> QED
      BY <1>5, <1>6, <3>1, <3>2
  <2> QED
    BY <2>1, <2>2
<1>9. ASSUME OutdatingOK(a, q, u), ~a.locked, NEW i \in DOMAIN t, Outdating(a, t[i])
      PROVE  Covered(a, r, i) \/ Listed(a, r, i) \/ Excused(u, r, t[i], i)
  <2>1. CASE i = n + 1
    <3>1. \/ \E j \in DOMAIN q.waiting : q.waiting[j].kind = "GetEntries"
          \/ Excused(u, q, m, n + 1)
      BY <1>2, <1>3, <1>9, <2>1 DEF OutdatingOK
    <3> QED
      BY <1>2, <1>3, <1>5, <1>6, <2>1, <3>1
  <2>2. CASE i # n + 1
    <3>1. i \in DOMAIN q.inbox /\ t[i] = q.inbox[i] /\ i \in Nat /\ i <= n + 1
      BY <1>2, <1>3, <2>2
    <3>2. Covered(a, q, i) \/ Listed(a, q, i) \/ Excused(u, q, t[i], i)
      BY <1>9, <3>1 DEF OutdatingOK
    <3> QED
      BY <1>5, <1>6, <3>1, <3>2
  <2> QED
    BY <2>1, <2>2
<1>10. (ShowingOK(a, q, u) => ShowingOK(a, r, u)) /\ (OutdatingOK(a, q, u) => OutdatingOK(a, r, u))
  BY <1>4, <1>8, <1>9 DEF ShowingOK, OutdatingOK
<1>11. ViewOK(a, q, u) => ViewOK(a, r, u)
  <2>1. 1 \in Nat /\ 1 <= n + 1
    BY <1>2
  <2> QED
    BY <1>5, <2>1 DEF ViewOK
<1>12. \A i \in DOMAIN r.inbox : \/ i \in DOMAIN q.inbox /\ r.inbox[i] = q.inbox[i]
                                 \/ 1 \in DOMAIN q.reply /\ r.inbox[i] = q.reply[1]
  BY <1>2, <1>3, <1>4
<1> QED
  BY <1>4, <1>5, <1>7, <1>10, <1>11, <1>12 DEF r, e

-----------------------------------------------------------------------------
(* What the agent does *)

\* Nothing in Good depends on the PIN, the pending link or the prompt.
LEMMA SameAgent ==
    ASSUME NEW a, NEW b \in Agents, NEW ev, NEW q, NEW u, Good(a, ev, q, u),
           b.locked = a.locked, b.account = a.account, b.epoch = a.epoch, b.list = a.list,
           b.subscribed = a.subscribed
    PROVE  Good(b, ev, q, u)
<1>1. \A m : /\ ConfigOK(a, m) <=> ConfigOK(b, m)
             /\ Current(a, m) <=> Current(b, m)
             /\ Fresh(a, m) <=> Fresh(b, m)
             /\ Outdating(a, m) <=> Outdating(b, m)
  BY DEF ConfigOK, Current, Fresh, Outdating
<1>2. \A i : (Covered(a, q, i) <=> Covered(b, q, i)) /\ (Listed(a, q, i) <=> Listed(b, q, i))
  BY <1>1 DEF Covered, Listed
<1>3. ConfigsOK(a, q) => ConfigsOK(b, q)
  BY <1>1 DEF ConfigsOK
<1>4. ShowingOK(a, q, u) => ShowingOK(b, q, u)
  BY <1>1, <1>2 DEF ShowingOK
<1>5. OutdatingOK(a, q, u) => OutdatingOK(b, q, u)
  BY <1>1, <1>2 DEF OutdatingOK
<1>6. ViewOK(a, q, u) => ViewOK(b, q, u)
  BY <1>2 DEF ViewOK
<1> QED
  BY <1>3, <1>4, <1>5, <1>6 DEF Good, Settles

\* A broadcast adds to what is on its way and takes nothing from it.
LEMMA Broadcasts ==
    ASSUME NEW ev \in Seq(Events), NEW e \in Events, NEW q
    PROVE  /\ Append(ev, e) \in Seq(Events)
           /\ Renewal(ev, q) \/ Renews(e) => Renewal(Append(ev, e), q)
<1> DEFINE t == Append(ev, e)
           n == Len(ev) + 1
<1> HIDE DEF Events
<1>1. /\ t \in Seq(Events) /\ n \in DOMAIN t /\ t[n] = e
      /\ \A i \in DOMAIN ev : i \in DOMAIN t /\ t[i] = ev[i]
  OBVIOUS
<1> HIDE DEF t, n
<1>2. Renewal(ev, q) \/ Renews(e) => Renewal(t, q)
  BY <1>1 DEF Renewal
<1> QED
  BY <1>1, <1>2 DEF t

\* A change of the agent's state is told to a window that subscribed.
LEMMA Changed ==
    ASSUME NEW a, NEW ev, NEW q, NEW u, Good(a, ev, q, u),
           NEW b \in Agents, b.subscribed = a.subscribed, ~b.locked => b.account, a.epoch <= b.epoch,
           NEW r \in Links, ConfigsOK(b, r), ~a.subscribed => Unsubscribed(ev, r, u),
           NEW e \in Events, Renews(e)
    PROVE  Good(b, IF a.subscribed THEN Append(ev, e) ELSE ev, r, u)
<1>1. a.epoch \in Nat /\ b.epoch \in Nat /\ u.last \in Nat /\ u.last <= a.epoch /\ ev \in Seq(Events)
  BY DEF Good, Agents, Uis
<1>2. u.last <= b.epoch
  BY <1>1
<1>3. Append(ev, e) \in Seq(Events) /\ Renewal(Append(ev, e), r)
  BY <1>1, Broadcasts
<1>4. CASE a.subscribed
  BY <1>2, <1>3, <1>4 DEF Good, Settles
<1>5. CASE ~a.subscribed
  BY <1>1, <1>2, <1>5 DEF Good, Settles
<1> QED
  BY <1>4, <1>5

\* A change of the lock state or the account starts a new epoch.
LEMMA NewEpoch ==
    ASSUME NEW a, NEW ev, NEW q, NEW u, Good(a, ev, q, u),
           NEW b \in Agents, b.subscribed = a.subscribed, b.epoch = a.epoch + 1
    PROVE  ConfigsOK(b, q)
<1>1. \A m \in Messages : ConfigOK(a, m) => ConfigOK(b, m)
  <2> SUFFICES ASSUME NEW m \in Messages, ConfigOK(a, m), m.kind = "GetConfig" PROVE ConfigOK(b, m)
    BY DEF ConfigOK
  <2>1. m.epoch \in Nat /\ a.epoch \in Nat /\ m.epoch <= a.epoch
    BY MessageKinds DEF Good, Agents, Configs, ConfigOK
  <2>2. m.epoch <= b.epoch /\ m.epoch # b.epoch
    BY <2>1
  <2> QED
    BY <2>2 DEF ConfigOK
<1>2. q \in Links /\ ConfigsOK(a, q)
  BY DEF Good
<1>3. /\ \A i \in DOMAIN q.inbox : q.inbox[i] \in Messages
      /\ \A i \in DOMAIN q.reply : q.reply[i] \in Messages
  BY <1>2, LinkTyped DEF Messages
<1> QED
  BY <1>1, <1>2, <1>3 DEF ConfigsOK

\* A request that is answered opens no form that it did not open as a request.
LEMMA UnsubscribedServed ==
    ASSUME NEW a, NEW ev, NEW q, NEW u, Good(a, ev, q, u), CanServe(q),
           NEW m \in Replies, m.kind = Head(q.waiting).kind, ~a.subscribed
    PROVE  Unsubscribed(ev, Answered(q, m), u)
<1> DEFINE r == Answered(q, m)
           h == Head(q.waiting)
<1>1. q \in Links /\ Unsubscribed(ev, q, u)
  BY DEF Good
<1>2. /\ r.inbox = q.inbox /\ r.reply = <<m>>
      /\ 1 \in DOMAIN q.waiting /\ h = q.waiting[1]
      /\ \A i \in DOMAIN r.waiting : \E j \in DOMAIN q.waiting : r.waiting[i] = q.waiting[j]
  BY <1>1, AnsweredSettles
<1> HIDE DEF r
<1>3. DOMAIN r.reply = {1} /\ r.reply[1] = m
  BY <1>2
<1>4. Opened(u, m) => Opened(u, q.waiting[1])
  BY <1>2 DEF Opened
<1> QED
  BY <1>1, <1>2, <1>3, <1>4 DEF Unsubscribed, r

\* A request that only reads, or fails.
LEMMA ServedQuietly ==
    ASSUME NEW a, NEW ev, NEW q, NEW u, Good(a, ev, q, u), CanServe(q),
           NEW m \in Replies, m.kind = Head(q.waiting).kind, ConfigOK(a, m),
           Current(a, m) \/ (m.kind # "GetConfig" /\ ~Showing(m)),
           m.kind = "GetEntries" => a.locked \/ Fresh(a, m)
    PROVE  Good(a, ev, Answered(q, m), u)
<1> DEFINE r == Answered(q, m)
<1>1. q \in Links /\ ConfigsOK(a, q)
  BY DEF Good
<1>2. /\ r \in Links /\ ConfigsOK(a, r) /\ r.reply = <<m>>
      /\ Renewal(ev, q) => Renewal(ev, r) \/ m.kind = "GetConfig"
      /\ ShowingOK(a, q, u) /\ ~Showing(m) => ShowingOK(a, r, u)
      /\ OutdatingOK(a, q, u) => OutdatingOK(a, r, u)
      /\ ViewOK(a, q, u) => ViewOK(a, r, u)
  BY <1>1, AnsweredSettles
<1>3. ~a.subscribed => Unsubscribed(ev, r, u)
  BY UnsubscribedServed
<1> HIDE DEF r
<1>4. Settles(a, ev, r, u)
  <2>1. CASE Current(a, m)
    BY <1>2, <2>1, ConfigSettles DEF Settles
  <2>2. CASE ~Current(a, m)
    BY <1>2, <2>2 DEF Good, Settles
  <2> QED
    BY <2>1, <2>2
<1>5. Good(a, ev, r, u)
  BY <1>2, <1>3, <1>4 DEF Good
<1> QED
  BY <1>5 DEF r

\* A request that locks or unlocks.
LEMMA ServedRenewing ==
    ASSUME NEW a, NEW ev, NEW q, NEW u, Good(a, ev, q, u), CanServe(q),
           NEW m \in Replies, m.kind = Head(q.waiting).kind, m.kind # "GetConfig",
           NEW b \in Agents, b.subscribed = a.subscribed, ~b.locked => b.account,
           b.epoch = a.epoch + 1, NEW e \in Events, Renews(e)
    PROVE  Good(b, IF a.subscribed THEN Append(ev, e) ELSE ev, Answered(q, m), u)
<1> DEFINE r == Answered(q, m)
<1>1. q \in Links /\ ConfigsOK(b, q) /\ a.epoch <= b.epoch
  BY NewEpoch DEF Good, Agents
<1>2. ConfigOK(b, m)
  BY DEF ConfigOK
<1>3. r \in Links /\ ConfigsOK(b, r)
  BY <1>1, <1>2, AnsweredSettles
<1>4. ~a.subscribed => Unsubscribed(ev, r, u)
  BY UnsubscribedServed
<1> HIDE DEF r
<1>5. Good(b, IF a.subscribed THEN Append(ev, e) ELSE ev, r, u)
  BY <1>1, <1>3, <1>4, Changed
<1> QED
  BY <1>5 DEF r

\* The replies the agent's handlers build are well formed.
LEMMA ReplyTyped ==
    ASSUME NEW h \in Requests, NEW code, NEW snap, agent' \in Agents
    PROVE  LET m == Reply(h, code, snap)
           IN  /\ m.kind = h.kind /\ m.code = code /\ m.snap = snap /\ m.epoch = agent'.epoch
               /\ h.kind \in Kinds
               /\ h.kind = "GetConfig" /\ code = "ok"
                    /\ snap \in [locked : BOOLEAN, account : BOOLEAN, early : BOOLEAN] => m \in Replies
               /\ h.kind = "CheckTpm" /\ code = "ok" /\ snap \in [pin : BOOLEAN] => m \in Replies
               /\ h.kind = "GetEntries" /\ code = "ok" /\ snap \in [list : Nat] => m \in Replies
               /\ h.kind = "GetEntries" /\ code = "locked" /\ snap = Nothing => m \in Replies
               /\ h.kind \in Auth \cup Others /\ code \in {"ok", "err", "new_device", "pin_gone"}
                    /\ snap = Nothing => m \in Replies
<1> DEFINE m == Reply(h, code, snap)
<1>1. m = [kind |-> h.kind, by |-> h.by, code |-> code, snap |-> snap, epoch |-> agent'.epoch]
  BY DEF Reply
<1>2. h.kind \in Kinds /\ h.by \in Surfaces /\ agent'.epoch \in Nat
  BY DEF Requests, Agents
<1> HIDE DEF m, Kinds, Surfaces, Nothing, Auth, Others
<1>3. h.kind = "GetConfig" /\ code = "ok"
           /\ snap \in [locked : BOOLEAN, account : BOOLEAN, early : BOOLEAN] => m \in Configs
  BY <1>1, <1>2 DEF Configs
<1>4. h.kind = "CheckTpm" /\ code = "ok" /\ snap \in [pin : BOOLEAN] => m \in Tpms
  BY <1>1, <1>2 DEF Tpms
<1>5. h.kind = "GetEntries" /\ ((code = "ok" /\ snap \in [list : Nat]) \/ (code = "locked" /\ snap = Nothing))
        => m \in Lists
  BY <1>1, <1>2 DEF Lists
<1>6. h.kind \in Auth \cup Others /\ code \in {"ok", "err", "new_device", "pin_gone"} /\ snap = Nothing
        => m \in Results
  BY <1>1, <1>2 DEF Results
<1> QED
  BY <1>1, <1>2, <1>3, <1>4, <1>5, <1>6 DEF m, Replies

\* Lock, Unlock and the account: what the agent is afterwards.
LEMMA AgentSteps ==
    ASSUME NEW a \in Agents
    PROVE  /\ Lock(a) \in Agents /\ Lock(a).locked
           /\ Lock(a).epoch = a.epoch + 1 /\ Lock(a).subscribed = a.subscribed
           /\ ClearAccount(a) \in Agents /\ ClearAccount(a).locked
           /\ ClearAccount(a).epoch = a.epoch + 1 /\ ClearAccount(a).subscribed = a.subscribed
           /\ Unlock(a) \in Agents /\ Unlock(a).account = a.account
           /\ Unlock(a).epoch = a.epoch + 1 /\ Unlock(a).subscribed = a.subscribed
<1> DEFINE yes == TRUE
           no == FALSE
           n == a.epoch + 1
<1>1. yes \in BOOLEAN /\ yes /\ no \in BOOLEAN /\ ~no /\ n \in Nat
  BY DEF Agents
<1> HIDE DEF yes, no, n
<1>2. Lock(a) = [a EXCEPT !.locked = yes, !.epoch = n, !.notified = no, !.link = no]
  BY DEF Lock, yes, no, n
<1>3. Unlock(a) = [a EXCEPT !.locked = no, !.epoch = n]
  BY DEF Unlock, no, n
<1>4. /\ Lock(a) \in Agents /\ Lock(a).locked
      /\ Lock(a).epoch = n /\ Lock(a).subscribed = a.subscribed
  BY <1>1, <1>2 DEF Agents
<1>5. /\ Unlock(a) \in Agents /\ Unlock(a).account = a.account
      /\ Unlock(a).epoch = n /\ Unlock(a).subscribed = a.subscribed
  BY <1>1, <1>3 DEF Agents
<1>6. ClearAccount(a) = [Lock(a) EXCEPT !.account = no]
  BY DEF ClearAccount, no
<1>7. /\ ClearAccount(a) \in Agents /\ ClearAccount(a).locked
      /\ ClearAccount(a).epoch = n /\ ClearAccount(a).subscribed = a.subscribed
  BY <1>1, <1>4, <1>6 DEF Agents
<1> QED
  BY <1>4, <1>5, <1>7 DEF n

\* The events the agent broadcasts are well formed.
LEMMA EventTyped ==
    ASSUME NEW n \in Nat,
           NEW e \in {"Locked", "Unlocked", "VaultChanged", "PinRequested", "UnlockRequested", "OpenEntry"}
    PROVE  LET m == [kind |-> "Event", event |-> e, epoch |-> n]
           IN  m \in Events /\ m.kind = "Event"
               /\ (e \in {"Locked", "Unlocked", "VaultChanged"} => Renews(m))
  BY DEF Events, Renews

\* handle_get_config and the other reads.
LEMMA ReadStep ==
    ASSUME Inv, CanServe(io), NEW h, h = Head(io.waiting), h \in Requests, Read(h)
    PROVE  Good(agent, events, io', ui)
<1>1. UNCHANGED <<agent, events>> /\ agent \in Agents /\ agent' \in Agents
  BY DEF Inv, Good, Read
<1>2. CASE h.kind = "GetConfig" /\ Answer(h, "ok", Config(agent))
  <2> DEFINE c == Config(agent)
             m == Reply(h, "ok", c)
             unheard == ~agent.subscribed
  <2>1. unheard \in BOOLEAN /\ agent.locked \in BOOLEAN /\ agent.account \in BOOLEAN
    BY <1>1 DEF Agents
  <2>2. c = [locked |-> agent.locked, account |-> agent.account, early |-> unheard]
    BY DEF Config
  <2> HIDE DEF unheard, c
  <2>3. /\ c \in [locked : BOOLEAN, account : BOOLEAN, early : BOOLEAN]
        /\ c.locked = agent.locked /\ c.account = agent.account /\ c.early = unheard
    BY <2>1, <2>2
  <2>4. /\ m \in Replies /\ m.kind = "GetConfig" /\ m.kind = h.kind /\ m.snap = c
        /\ m.epoch = agent.epoch
    BY <1>1, <1>2, <2>3, ReplyTyped
  <2>5. io' = Answered(io, m)
    BY <1>2 DEF Answer, c
  <2> HIDE DEF m
  <2>6. ConfigOK(agent, m) /\ Current(agent, m)
    BY <1>1, <2>3, <2>4 DEF ConfigOK, Current, unheard, Agents
  <2>7. Good(agent, events, Answered(io, m), ui)
    BY <2>4, <2>6, ServedQuietly DEF Inv
  <2> QED
    BY <2>5, <2>7
<1>3. CASE h.kind = "CheckTpm" /\ Answer(h, "ok", [pin |-> agent.pin])
  <2> DEFINE m == Reply(h, "ok", [pin |-> agent.pin])
  <2>1. [pin |-> agent.pin] \in [pin : BOOLEAN]
    BY <1>1 DEF Agents
  <2>2. m \in Replies /\ m.kind = h.kind /\ m.kind = "CheckTpm"
    BY <1>1, <1>3, <2>1, ReplyTyped
  <2>3. io' = Answered(io, m)
    BY <1>3 DEF Answer
  <2> HIDE DEF m
  <2>4. ConfigOK(agent, m) /\ ~Showing(m)
    BY <2>2 DEF ConfigOK, Showing, Auth
  <2> QED
    BY <2>2, <2>3, <2>4, ServedQuietly DEF Inv
<1>4. CASE h.kind = "GetEntries" /\ agent.locked /\ Answer(h, "locked", Nothing)
  <2> DEFINE m == Reply(h, "locked", Nothing)
  <2>1. m \in Replies /\ m.kind = h.kind /\ m.kind = "GetEntries"
    BY <1>1, <1>4, ReplyTyped
  <2>2. io' = Answered(io, m)
    BY <1>4 DEF Answer
  <2> HIDE DEF m
  <2>3. ConfigOK(agent, m) /\ ~Showing(m)
    BY <2>1 DEF ConfigOK, Showing, Auth
  <2> QED
    BY <1>4, <2>1, <2>2, <2>3, ServedQuietly DEF Inv
<1>5. CASE h.kind = "GetEntries" /\ ~agent.locked /\ Answer(h, "ok", [list |-> agent.list])
  <2> DEFINE c == [list |-> agent.list]
             m == Reply(h, "ok", c)
  <2>1. c \in [list : Nat] /\ c.list = agent.list
    BY <1>1 DEF Agents
  <2>2. io' = Answered(io, m)
    BY <1>5 DEF Answer
  <2> HIDE DEF c
  <2>3. m \in Replies /\ m.kind = h.kind /\ m.kind = "GetEntries" /\ m.code = "ok" /\ m.snap = c
    BY <1>1, <1>5, <2>1, ReplyTyped
  <2> HIDE DEF m
  <2>4. ConfigOK(agent, m) /\ ~Showing(m) /\ Fresh(agent, m)
    BY <2>1, <2>3 DEF ConfigOK, Showing, Auth, Fresh
  <2> QED
    BY <2>2, <2>3, <2>4, ServedQuietly DEF Inv
<1> QED
  BY <1>2, <1>3, <1>4, <1>5 DEF Read

\* A reply that says neither how the agent is nor that it was unlocked.
LEMMA FailedStep ==
    ASSUME Inv, CanServe(io), NEW h, h = Head(io.waiting), h \in Requests, agent' \in Agents,
           NEW code \in {"ok", "err", "new_device", "pin_gone"},
           \/ h.kind \in Auth /\ code # "ok"
           \/ h.kind \in Others,
           Answer(h, code, Nothing)
    PROVE  Good(agent, events, io', ui)
<1> DEFINE m == Reply(h, code, Nothing)
<1>2. m \in Replies /\ m.kind = h.kind /\ m.code = code
  BY ReplyTyped
<1>3. io' = Answered(io, m)
  BY DEF Answer
<1> HIDE DEF m
<1>4. ConfigOK(agent, m) /\ ~Showing(m) /\ m.kind \notin {"GetEntries", "GetConfig"}
  BY <1>2 DEF ConfigOK, Showing, Auth, Others
<1> QED
  BY <1>2, <1>3, <1>4, ServedQuietly DEF Inv

\* A request that changes the lock state, and its broadcast.
LEMMA LockStep ==
    ASSUME Inv, CanServe(io), NEW h, h = Head(io.waiting), h \in Requests, h.kind \in Auth \cup Others,
           agent' \in Agents, agent'.subscribed = agent.subscribed, ~agent'.locked => agent'.account,
           agent'.epoch = agent.epoch + 1,
           NEW e \in {"Locked", "Unlocked"}, Broadcast(e), Answer(h, "ok", Nothing)
    PROVE  Good(agent', events', io', ui)
<1> DEFINE m == Reply(h, "ok", Nothing)
           x == [kind |-> "Event", event |-> e, epoch |-> agent'.epoch]
<1>1. m \in Replies /\ m.kind = h.kind /\ m.kind # "GetConfig"
  BY ReplyTyped DEF Auth, Others
<1>2. io' = Answered(io, m)
  BY DEF Answer
<1>3. x \in Events /\ Renews(x)
  BY EventTyped DEF Agents
<1>4. events' = IF agent.subscribed THEN Append(events, x) ELSE events
  BY DEF Broadcast
<1> HIDE DEF m, x
<1>5. Good(agent', IF agent.subscribed THEN Append(events, x) ELSE events, Answered(io, m), ui)
  BY <1>1, <1>3, ServedRenewing DEF Inv
<1> QED
  BY <1>2, <1>4, <1>5

\* Every request the agent serves keeps Inv.
LEMMA ServeStep ==
    ASSUME Inv, Serve
    PROVE  Inv'
<1> DEFINE h == Head(io.waiting)
<1>1. CanServe(io) /\ ui' = ui /\ agent \in Agents /\ io \in Links /\ (~agent.locked => agent.account)
  BY DEF Serve, Inv, Good
<1>2. h \in Requests
  <2>1. io.waiting \in Seq(Requests) /\ io.waiting # <<>>
    BY <1>1, LinkTyped DEF CanServe
  <2> HIDE DEF Requests
  <2> QED
    BY <2>1
<1> SUFFICES Good(agent', events', io', ui)
  BY <1>1 DEF Inv
<1>3. Read(h) \/ Authenticate(h) \/ LockOrLogout(h) \/ ChangePin(h)
  BY DEF Serve
<1> HIDE DEF h
<1>4. CASE Read(h)
  <2>1. agent' = agent /\ events' = events
    BY <1>4 DEF Read
  <2> QED
    BY <1>1, <1>2, <1>4, <2>1, ReadStep DEF h
<1>5. CASE Authenticate(h)
  <2> DEFINE b == [Unlock(agent) EXCEPT !.account = TRUE]
  <2>1. CASE /\ h.kind \in Auth /\ agent' = b /\ Broadcast("Unlocked") /\ Answer(h, "ok", Nothing)
    <3> DEFINE yes == TRUE
    <3>1. yes \in BOOLEAN /\ yes
      OBVIOUS
    <3>2. b = [Unlock(agent) EXCEPT !.account = yes]
      OBVIOUS
    <3>3. /\ Unlock(agent) \in Agents /\ Unlock(agent).epoch = agent.epoch + 1
          /\ Unlock(agent).subscribed = agent.subscribed
      BY <1>1, AgentSteps
    <3> HIDE DEF yes, b
    <3>4. b \in Agents /\ b.account /\ b.epoch = agent.epoch + 1 /\ b.subscribed = agent.subscribed
      BY <3>1, <3>2, <3>3 DEF Agents
    <3>5. /\ agent' \in Agents /\ agent'.account /\ agent'.epoch = agent.epoch + 1
          /\ agent'.subscribed = agent.subscribed
      BY <2>1, <3>4
    <3>6. Broadcast("Unlocked") /\ Answer(h, "ok", Nothing) /\ h.kind \in Auth \cup Others
      BY <2>1
    <3> QED
      BY <1>1, <1>2, <3>5, <3>6, LockStep DEF h
  <2>2. CASE /\ UNCHANGED <<agent, events>> /\ h.kind \in Auth
             /\ \E code \in {"err", "new_device", "pin_gone"} : Answer(h, code, Nothing)
    <3>1. Good(agent, events, io', ui)
      BY <1>1, <1>2, <2>2, FailedStep DEF h
    <3> QED
      BY <2>2, <3>1
  <2> QED
    BY <1>5, <2>1, <2>2 DEF Authenticate, Auth
<1>6. CASE LockOrLogout(h)
  <2>1. \/ h.kind = "Lock" /\ agent' = Lock(agent)
        \/ h.kind = "Logout" /\ agent' = ClearAccount(agent)
    BY <1>6 DEF LockOrLogout
  <2>2. Broadcast("Locked") /\ Answer(h, "ok", Nothing) /\ h.kind \in Auth \cup Others
    BY <1>6, <2>1 DEF LockOrLogout, Others
  <2>3. /\ agent' \in Agents /\ agent'.locked /\ agent'.epoch = agent.epoch + 1
        /\ agent'.subscribed = agent.subscribed
    BY <1>1, <2>1, AgentSteps
  <2> QED
    BY <1>1, <1>2, <2>2, <2>3, LockStep DEF h
<1>7. CASE ChangePin(h)
  <2>1. /\ agent' \in Agents /\ agent'.locked = agent.locked /\ agent'.account = agent.account
        /\ agent'.epoch = agent.epoch /\ agent'.list = agent.list
        /\ agent'.subscribed = agent.subscribed
    <3> DEFINE yes == TRUE
               no == FALSE
    <3>1. yes \in BOOLEAN /\ no \in BOOLEAN
      OBVIOUS
    <3>2. \/ agent' = [agent EXCEPT !.pin = yes] \/ agent' = [agent EXCEPT !.pin = no] \/ agent' = agent
      BY <1>7 DEF ChangePin
    <3> HIDE DEF yes, no
    <3> QED
      BY <1>1, <3>1, <3>2 DEF Agents
  <2>2. /\ h.kind \in Others /\ events' = events
        /\ \E code \in {"ok", "err", "new_device", "pin_gone"} : Answer(h, code, Nothing)
    BY <1>7 DEF ChangePin, Others
  <2>3. Good(agent, events, io', ui)
    BY <1>1, <1>2, <2>1, <2>2, FailedStep DEF h
  <2> QED
    BY <2>1, <2>2, <2>3, SameAgent
<1> QED
  BY <1>3, <1>4, <1>5, <1>6, <1>7

\* Everything read before the subscription is excused.
LEMMA SubscribeStep ==
    ASSUME Inv, Subscribe
    PROVE  Inv'
<1> DEFINE yes == TRUE
           no == FALSE
<1>1. /\ agent \in Agents /\ io \in Links /\ ui \in Uis /\ ~agent.subscribed /\ io' = io /\ ui' = ui
      /\ ui.last <= agent.epoch /\ (~agent.locked => agent.account) /\ (ui.preferred => ui.mode = "Password")
      /\ ConfigsOK(agent, io) /\ Unsubscribed(events, io, ui)
  BY DEF Inv, Good, Subscribe
<1>2. yes \in BOOLEAN /\ no \in BOOLEAN /\ yes
  OBVIOUS
<1>3. agent' = [agent EXCEPT !.subscribed = yes, !.link = no]
  BY DEF Subscribe
<1> HIDE DEF yes, no
<1>4. /\ agent' \in Agents /\ agent'.locked = agent.locked /\ agent'.account = agent.account
      /\ agent'.epoch = agent.epoch /\ agent'.list = agent.list /\ agent'.subscribed
  BY <1>1, <1>2, <1>3 DEF Agents
<1>5. events' \in Seq(Events)
  <2> DEFINE x == [kind |-> "Event", event |-> "OpenEntry", epoch |-> agent.epoch]
  <2>1. x \in Events
    BY <1>1, EventTyped DEF Agents
  <2>2. events' = <<x>> \/ events' = <<>>
    BY DEF Subscribe
  <2> HIDE DEF x, Events
  <2>3. <<x>> \in Seq(Events) /\ <<>> \in Seq(Events)
    BY <2>1
  <2> QED
    BY <2>2, <2>3
<1>6. ConfigsOK(agent', io)
  BY <1>1, <1>4 DEF ConfigsOK, ConfigOK
<1>7. /\ \A i \in DOMAIN io.inbox : EarlyConfig(io.inbox[i])
      /\ \A i \in DOMAIN io.reply : EarlyConfig(io.reply[i])
  BY <1>1 DEF ConfigsOK, ConfigOK, EarlyConfig
<1>8. ShowingOK(agent', io, ui) /\ OutdatingOK(agent', io, ui)
  <2>1. \A m, i : /\ EarlyConfig(m)
                  /\ m.kind = "GetConfig" \/ ui.early
                  => Excused(ui, io, m, i)
    BY <1>7 DEF Excused, EarlyConfig
  <2>2. \A m : Showing(m) \/ Outdating(agent', m) => m.kind = "GetConfig" \/ Opened(ui, m)
    BY DEF Showing, Outdating, Opened
  <2>3. /\ \A i \in DOMAIN io.inbox : Opened(ui, io.inbox[i]) => ui.early
        /\ \A i \in DOMAIN io.reply : Opened(ui, io.reply[i]) => ui.early
    BY <1>1 DEF Unsubscribed
  <2> QED
    BY <1>7, <2>1, <2>2, <2>3 DEF ShowingOK, OutdatingOK
<1>9. ViewOK(agent', io, ui)
  BY <1>1 DEF ViewOK, Unsubscribed
<1>10. Good(agent', events', io, ui)
  BY <1>1, <1>4, <1>5, <1>6, <1>8, <1>9 DEF Good, Settles
<1> QED
  BY <1>1, <1>10 DEF Inv

\* A reply or an event reaches the message queue.
LEMMA PostStep ==
    ASSUME Inv, Post
    PROVE  Inv'
<1>1. /\ agent \in Agents /\ events \in Seq(Events) /\ io \in Links /\ ui \in Uis
      /\ agent' = agent /\ ui' = ui
  BY DEF Inv, Good, Post
<1>2. CASE io.reply # <<>> /\ events' = events /\ io' = Delivered(io)
  <2> DEFINE r == Delivered(io)
  <2>1. /\ r \in Links /\ r.waiting = io.waiting /\ r.reply = <<>>
        /\ \A i \in DOMAIN r.inbox : \/ i \in DOMAIN io.inbox /\ r.inbox[i] = io.inbox[i]
                                     \/ 1 \in DOMAIN io.reply /\ r.inbox[i] = io.reply[1]
        /\ Renewal(events, io) => Renewal(events, r)
        /\ ConfigsOK(agent, io) => ConfigsOK(agent, r)
        /\ ShowingOK(agent, io, ui) => ShowingOK(agent, r, ui)
        /\ OutdatingOK(agent, io, ui) => OutdatingOK(agent, r, ui)
        /\ ViewOK(agent, io, ui) => ViewOK(agent, r, ui)
    BY <1>1, <1>2, DeliveredSettles
  <2> HIDE DEF r
  <2>2. DOMAIN r.reply = {}
    BY <2>1
  <2>3. 1 \in DOMAIN io.reply => io.reply[1].kind # "Event"
    <3>1. 1 \in DOMAIN io.reply => io.reply[1] \in Replies /\ io.reply[1] \in Messages
      BY <1>1, LinkTyped DEF Messages
    <3> HIDE DEF Replies, Messages
    <3> QED
      BY <3>1, MessageKinds
  <2>4. ~agent.subscribed => Unsubscribed(events, r, ui)
    BY <2>1, <2>2, <2>3 DEF Inv, Good, Unsubscribed
  <2>5. Good(agent, events, r, ui)
    BY <2>1, <2>4 DEF Inv, Good, Settles
  <2> QED
    BY <1>1, <1>2, <2>5 DEF Inv, r
<1>3. CASE events # <<>> /\ events' = Tail(events) /\ io' = PostMessage(io, Head(events))
  <2> DEFINE r == PostMessage(io, Head(events))
             m == Head(events)
             t == Tail(events)
  <2>1. /\ m \in Events /\ t \in Seq(Events) /\ m = events[1]
        /\ \A i \in DOMAIN events : i = 1 \/ (i - 1 \in DOMAIN t /\ t[i - 1] = events[i])
    <3> HIDE DEF Events
    <3> QED
      BY <1>1, <1>3
  <2>2. m \in Messages /\ m.kind = "Event"
    BY <2>1 DEF Messages, Events
  <2> HIDE DEF m, t
  <2>3. /\ r \in Links
        /\ Renewal(t, io) \/ Renews(m) => Renewal(t, r)
        /\ ConfigsOK(agent, io) => ConfigsOK(agent, r)
        /\ ShowingOK(agent, io, ui) => ShowingOK(agent, r, ui)
        /\ OutdatingOK(agent, io, ui) => OutdatingOK(agent, r, ui)
        /\ ViewOK(agent, io, ui) => ViewOK(agent, r, ui)
    BY <1>1, <2>2, PostedSettles DEF m
  <2> HIDE DEF r
  <2>4. Renewal(events, io) => Renewal(t, io) \/ Renews(m)
    BY <2>1 DEF Renewal
  <2>5. agent.subscribed
    BY <1>3 DEF Inv, Good, Unsubscribed
  <2>6. Good(agent, t, r, ui)
    BY <2>1, <2>3, <2>4, <2>5 DEF Inv, Good, Settles
  <2> QED
    BY <1>1, <1>3, <2>6 DEF Inv, r, t
<1> QED
  BY <1>2, <1>3 DEF Post

\* Other clients, the timer and other devices.
LEMMA ElsewhereStep ==
    ASSUME Inv, Elsewhere
    PROVE  Inv'
<1> DEFINE x(e) == [kind |-> "Event", event |-> e, epoch |-> agent'.epoch]
           Sent(e) == IF agent.subscribed THEN Append(events, x(e)) ELSE events
<1>1. /\ agent \in Agents /\ events \in Seq(Events) /\ io \in Links /\ ui \in Uis
      /\ io' = io /\ ui' = ui /\ (~agent.locked => agent.account) /\ ConfigsOK(agent, io)
      /\ ~agent.subscribed => Unsubscribed(events, io, ui)
  BY DEF Inv, Good, Elsewhere
<1>2. \A e : Broadcast(e) => events' = Sent(e)
  BY DEF Broadcast
<1> SUFFICES Good(agent', events', io, ui)
  BY <1>1 DEF Inv
<1>3. CASE /\ agent' = Lock(agent) /\ Broadcast("Locked")
  <2>1. /\ agent' \in Agents /\ agent'.locked /\ agent'.epoch = agent.epoch + 1
        /\ agent'.subscribed = agent.subscribed
    BY <1>1, <1>3, AgentSteps
  <2>2. agent.epoch <= agent'.epoch /\ agent'.epoch \in Nat
    BY <1>1, <2>1 DEF Agents
  <2>3. ConfigsOK(agent', io)
    BY <2>1, NewEpoch DEF Inv
  <2>4. x("Locked") \in Events /\ Renews(x("Locked"))
    BY <2>2, EventTyped
  <2>5. Good(agent', Sent("Locked"), io, ui)
    <3> HIDE DEF x
    <3> QED
      BY <1>1, <2>1, <2>2, <2>3, <2>4, Changed DEF Inv
  <2> QED
    BY <1>2, <1>3, <2>5
<1>4. CASE /\ agent.account /\ agent' = Unlock(agent) /\ Broadcast("Unlocked")
  <2>1. /\ agent' \in Agents /\ agent'.account /\ agent'.epoch = agent.epoch + 1
        /\ agent'.subscribed = agent.subscribed
    BY <1>1, <1>4, AgentSteps
  <2>2. agent.epoch <= agent'.epoch /\ agent'.epoch \in Nat
    BY <1>1, <2>1 DEF Agents
  <2>3. ConfigsOK(agent', io)
    BY <2>1, NewEpoch DEF Inv
  <2>4. x("Unlocked") \in Events /\ Renews(x("Unlocked"))
    BY <2>2, EventTyped
  <2>5. Good(agent', Sent("Unlocked"), io, ui)
    <3> HIDE DEF x
    <3> QED
      BY <1>1, <2>1, <2>2, <2>3, <2>4, Changed DEF Inv
  <2> QED
    BY <1>2, <1>4, <2>5
<1>5. CASE /\ ~agent.locked /\ agent' = Synced(agent) /\ Broadcast("VaultChanged")
  <2> DEFINE n == agent.list + 1
  <2>1. n \in Nat /\ agent' = [agent EXCEPT !.list = n]
    BY <1>1, <1>5 DEF Agents, Synced
  <2> HIDE DEF n
  <2>2. /\ agent' \in Agents /\ agent'.locked = agent.locked /\ agent'.account = agent.account
        /\ agent'.epoch = agent.epoch /\ agent'.subscribed = agent.subscribed
    BY <1>1, <2>1 DEF Agents
  <2>3. ConfigsOK(agent', io)
    BY <1>1, <2>2 DEF ConfigsOK, ConfigOK
  <2>4. agent.epoch <= agent'.epoch /\ agent'.epoch \in Nat
    BY <1>1, <2>2 DEF Agents
  <2>5. x("VaultChanged") \in Events /\ Renews(x("VaultChanged"))
    BY <2>4, EventTyped
  <2>6. Good(agent', Sent("VaultChanged"), io, ui)
    <3> HIDE DEF x
    <3> QED
      BY <1>1, <2>2, <2>3, <2>4, <2>5, Changed DEF Inv
  <2> QED
    BY <1>2, <1>5, <2>6
<1>6. ASSUME NEW e \in {"PinRequested", "UnlockRequested", "OpenEntry"}, Broadcast(e),
             \/ agent' = [agent EXCEPT !.notified = TRUE] \/ agent' = [agent EXCEPT !.link = TRUE]
      PROVE  Good(agent', events', io, ui)
  <2> DEFINE yes == TRUE
  <2>1. /\ yes \in BOOLEAN
        /\ \/ agent' = [agent EXCEPT !.notified = yes] \/ agent' = [agent EXCEPT !.link = yes]
    BY <1>6
  <2> HIDE DEF yes
  <2>2. /\ agent' \in Agents /\ agent'.locked = agent.locked /\ agent'.account = agent.account
        /\ agent'.epoch = agent.epoch /\ agent'.list = agent.list /\ agent'.subscribed = agent.subscribed
    BY <1>1, <2>1 DEF Agents
  <2>3. x(e) \in Events
    BY <2>2, EventTyped DEF Agents
  <2>4. Good(agent, Sent(e), io, ui)
    <3> HIDE DEF x
    <3>1. CASE agent.subscribed
      <4>1. Append(events, x(e)) \in Seq(Events) /\ (Renewal(events, io) => Renewal(Append(events, x(e)), io))
        BY <1>1, <2>3, Broadcasts
      <4> QED
        BY <3>1, <4>1 DEF Inv, Good, Settles
    <3>2. CASE ~agent.subscribed
      BY <3>2 DEF Inv
    <3> QED
      BY <3>1, <3>2
  <2> QED
    BY <1>2, <1>6, <2>2, <2>4, SameAgent
<1> QED
  BY <1>3, <1>4, <1>5, <1>6 DEF Elsewhere

-----------------------------------------------------------------------------
(* What the application does *)

\* A handler that asks for the config, now or in its next message.
LEMMA HandledRenewing ==
    ASSUME NEW a, NEW ev, NEW q, NEW u, Good(a, ev, q, u), q.inbox # <<>>,
           Opened(u, Head(q.inbox)) \/ Head(q.inbox).kind = "Event",
           NEW r \in Links, ConfigsOK(a, Taken(q)) => ConfigsOK(a, r), Renewal(ev, r),
           \A i \in DOMAIN r.inbox : \/ \E j \in DOMAIN Taken(q).inbox : r.inbox[i] = Taken(q).inbox[j]
                                     \/ r.inbox[i].kind = "Refresh",
           NEW v \in Uis, v.early = u.early, v.last = u.last, v.preferred => v.mode = "Password"
    PROVE  Good(a, ev, r, v)
<1> DEFINE m == Head(q.inbox)
           t == Taken(q)
<1>1. q \in Links /\ ConfigsOK(a, q)
  BY DEF Good
<1>2. /\ m = q.inbox[1] /\ 1 \in DOMAIN q.inbox
      /\ \A i \in DOMAIN t.inbox : i + 1 \in DOMAIN q.inbox /\ t.inbox[i] = q.inbox[i + 1]
  BY <1>1, TakenLinks
<1>3. ConfigsOK(a, r)
  BY <1>1, TakenCover
<1> HIDE DEF m, t
<1>4. ~a.subscribed => Unsubscribed(ev, r, v)
  <2> SUFFICES ASSUME ~a.subscribed PROVE Unsubscribed(ev, r, v)
    OBVIOUS
  <2>1. Unsubscribed(ev, q, u)
    BY DEF Good
  <2>2. m.kind # "Event" /\ (Opened(u, m) => u.early)
    BY <1>2, <2>1 DEF Unsubscribed
  <2>3. \A i \in DOMAIN r.inbox : r.inbox[i].kind # "Event"
    BY <1>2, <2>1 DEF Unsubscribed, t
  <2>4. v.early
    BY <2>2 DEF m
  <2> QED
    BY <2>1, <2>3, <2>4 DEF Unsubscribed
<1> QED
  BY <1>3, <1>4 DEF Good, Settles

\* A handler that only shows what the message says, or sends a request.
LEMMA HandledQuietly ==
    ASSUME NEW a, NEW ev, NEW q, NEW u, Good(a, ev, q, u), q.inbox # <<>>,
           NEW m, m = Head(q.inbox), ~Renews(m), m.kind # "GetConfig",
           NEW s \in Seq(Requests), NEW r, r = Taken(q) \/ r = Enqueue(Taken(q), s),
           NEW v \in Uis, v.early = u.early, v.last = u.last, v.preferred => v.mode = "Password",
           \/ Opened(u, m) \/ m.kind = "Event"
           \/ /\ r = Taken(q) /\ v.tpm = u.tpm /\ v.run = u.run
              /\ v.view = u.view \/ (v.run # "window" /\ ~IsUnlocked(v.view)),
           \/ ~IsUnlocked(v.view)
           \/ Showing(m)
           \/ /\ m.kind # "GetEntries" /\ IsUnlocked(u.view) /\ v.list = u.list
              /\ v.link = "locked" => u.link = "locked"
           \/ /\ m.kind = "GetEntries" /\ IsUnlocked(u.view) /\ v.link = u.link
              /\ v.list = IF m.code = "ok" THEN m.snap.list ELSE NoList
    PROVE  Good(a, ev, r, v)
<1> DEFINE t == Taken(q)
<1>1. q \in Links /\ ConfigsOK(a, q)
  BY DEF Good
<1>2. /\ t \in Links /\ t.waiting = q.waiting /\ t.reply = q.reply
      /\ m = q.inbox[1] /\ 1 \in DOMAIN q.inbox
      /\ \A i \in DOMAIN t.inbox : i + 1 \in DOMAIN q.inbox /\ t.inbox[i] = q.inbox[i + 1]
  BY <1>1, TakenLinks
<1>3. /\ Renewal(ev, q) => Renewal(ev, t)
      /\ ConfigsOK(a, t)
      /\ Covered(a, q, 1) => Covered(a, t, 1)
      /\ Listed(a, q, 1) => Listed(a, t, 1) \/ Fresh(a, m)
  BY <1>1, TakenCover DEF Current
<1>4. /\ ShowingOK(a, q, u) => ShowingOK(a, t, v)
      /\ OutdatingOK(a, q, u) => OutdatingOK(a, t, v)
  BY <1>1, TakenSettles
<1> HIDE DEF t
<1>5. ASSUME ShowingOK(a, q, u), OutdatingOK(a, q, u), ViewOK(a, q, u) PROVE ViewOK(a, t, v)
  <2> SUFFICES ASSUME IsUnlocked(v.view), ~v.early
               PROVE  /\ a.locked \/ v.link = "locked" => Covered(a, t, 1)
                      /\ ~a.locked /\ v.list # a.list => Covered(a, t, 1) \/ Listed(a, t, 1)
    BY DEF ViewOK
  <2>1. CASE Showing(m)
    <3>1. Covered(a, q, 1) \/ Excused(u, q, m, 1)
      BY <1>2, <1>5, <2>1 DEF ShowingOK
    <3>2. ~Excused(u, q, m, 1)
      BY DEF Excused
    <3> QED
      BY <1>3, <3>1, <3>2
  <2>2. CASE /\ m.kind # "GetEntries" /\ IsUnlocked(u.view) /\ v.list = u.list
             /\ v.link = "locked" => u.link = "locked"
    BY <1>3, <1>5, <2>2 DEF ViewOK, Fresh
  <2>3. CASE /\ m.kind = "GetEntries" /\ IsUnlocked(u.view) /\ v.link = u.link
             /\ v.list = IF m.code = "ok" THEN m.snap.list ELSE NoList
    <3>1. a.locked \/ v.link = "locked" => Covered(a, t, 1)
      BY <1>3, <1>5, <2>3 DEF ViewOK
    <3>2. ASSUME ~a.locked, v.list # a.list PROVE Covered(a, t, 1) \/ Listed(a, t, 1)
      <4>1. Outdating(a, m) /\ ~Fresh(a, m)
        BY <2>3, <3>2 DEF Outdating, Fresh
      <4>2. Covered(a, q, 1) \/ Listed(a, q, 1) \/ Excused(u, q, m, 1)
        BY <1>2, <1>5, <3>2, <4>1 DEF OutdatingOK
      <4>3. ~Excused(u, q, m, 1)
        BY DEF Excused
      <4> QED
        BY <1>3, <4>1, <4>2, <4>3
    <3> QED
      BY <3>1, <3>2
  <2> QED
    BY <2>1, <2>2, <2>3
<1>6. ~a.subscribed => Unsubscribed(ev, r, v)
  <2> SUFFICES ASSUME ~a.subscribed PROVE Unsubscribed(ev, r, v)
    OBVIOUS
  <2>1. Unsubscribed(ev, q, u)
    BY DEF Good
  <2>2. m.kind # "Event" /\ (Opened(u, m) => u.early)
    BY <1>2, <2>1 DEF Unsubscribed
  <2>3. r.inbox = t.inbox
    BY <1>2, EnqueuedSettles DEF t
  <2>4. \A i \in DOMAIN r.inbox : r.inbox[i].kind # "Event"
    BY <1>2, <2>1, <2>3 DEF Unsubscribed
  <2>5. CASE v.early
    BY <2>1, <2>4, <2>5 DEF Unsubscribed
  <2>6. CASE ~v.early
    <3>1. /\ r = t /\ v.tpm = u.tpm /\ v.run = u.run
          /\ v.view = u.view \/ (v.run # "window" /\ ~IsUnlocked(v.view))
      BY <2>2, <2>6 DEF t
    <3>2. \A x : Opened(v, x) <=> Opened(u, x)
      BY <3>1 DEF Opened
    <3> QED
      BY <1>2, <2>1, <2>4, <2>6, <3>1, <3>2 DEF Unsubscribed
  <2> QED
    BY <2>5, <2>6
<1>7. Settles(a, ev, t, v)
  BY <1>3, <1>4, <1>5 DEF Good, Settles
<1>8. r \in Links /\ ConfigsOK(a, r) /\ Settles(a, ev, r, v)
  <2>1. CASE r = t
    BY <1>2, <1>3, <1>7, <2>1
  <2>2. CASE r = Enqueue(t, s)
    <3>1. /\ r \in Links /\ (Renewal(ev, t) => Renewal(ev, r)) /\ ConfigsOK(a, r)
          /\ ShowingOK(a, t, v) => ShowingOK(a, r, v)
          /\ OutdatingOK(a, t, v) => OutdatingOK(a, r, v)
          /\ ViewOK(a, t, v) => ViewOK(a, r, v)
      BY <1>2, <1>3, <2>2, EnqueuedSettles
    <3> QED
      BY <1>7, <3>1 DEF Settles
  <2> QED
    BY <2>1, <2>2 DEF t
<1> QED
  BY <1>6, <1>8 DEF Good

\* lifecycle.rs ConfigReceived.
LEMMA ConfigStep ==
    ASSUME Inv, io.inbox # <<>>, NEW m, m = Head(io.inbox), m.kind = "GetConfig",
           NEW q, q = Taken(io), ConfigReceived(m, q)
    PROVE  Good(agent, events, io', ui')
<1> DEFINE c == m.snap
           view == ViewFor(c)
<1>1. /\ agent \in Agents /\ events \in Seq(Events) /\ io \in Links /\ ui \in Uis
      /\ ConfigsOK(agent, io) /\ ui.last <= agent.epoch
  BY DEF Inv, Good
<1>2. /\ q \in Links /\ q.waiting = io.waiting /\ q.reply = io.reply
      /\ m = io.inbox[1] /\ 1 \in DOMAIN io.inbox /\ m \in Messages
      /\ \A i \in DOMAIN q.inbox : i + 1 \in DOMAIN io.inbox /\ q.inbox[i] = io.inbox[i + 1]
  BY <1>1, TakenLinks
<1>3. /\ Renewal(events, io) => Renewal(events, q)
      /\ ConfigsOK(agent, q) /\ ConfigOK(agent, m)
      /\ Covered(agent, io, 1) => Covered(agent, q, 1) \/ Current(agent, m)
      /\ Listed(agent, io, 1) => Listed(agent, q, 1)
  BY <1>1, TakenCover DEF Renews, Fresh
<1>4. m \in Configs /\ m.epoch \in Nat /\ c \in [locked : BOOLEAN, account : BOOLEAN, early : BOOLEAN]
  BY <1>2, MessageKinds DEF Configs
<1>5. ASSUME NEW r, NEW v, r.inbox = q.inbox \/ \A i \in DOMAIN r.inbox : \E j \in DOMAIN q.inbox : r.inbox[i] = q.inbox[j],
             ~agent.subscribed, v.early
      PROVE  Unsubscribed(events, r, v)
  BY <1>2, <1>5 DEF Inv, Good, Unsubscribed
<1>6. CASE Stale(m)
  <2>1. io' = q /\ ui' = ui
    BY <1>6 DEF ConfigReceived
  <2>2. ~Current(agent, m)
    BY <1>1, <1>4, <1>6 DEF Stale, Current, Agents, Uis
  <2>3. /\ ShowingOK(agent, io, ui) => ShowingOK(agent, q, ui)
        /\ OutdatingOK(agent, io, ui) => OutdatingOK(agent, q, ui)
    BY <1>1, TakenSettles
  <2>4. ViewOK(agent, io, ui) => ViewOK(agent, q, ui)
    BY <1>3, <2>2 DEF ViewOK
  <2>5. ~agent.subscribed => Unsubscribed(events, q, ui)
    BY <1>2 DEF Inv, Good, Unsubscribed
  <2>6. Good(agent, events, q, ui)
    BY <1>2, <1>3, <2>3, <2>4, <2>5 DEF Inv, Good, Settles
  <2> QED
    BY <2>1, <2>6
<1>7. CASE ~Stale(m)
  <2> DEFINE link == LinkAfter(c, ui.link)
             v == [ui EXCEPT !.last = m.epoch, !.account = c.account, !.early = c.early,
                             !.view = view, !.link = link]
             t == IF view = "Vault" THEN NewSearch(q) ELSE q
             kinds == RequestsFor(view)
  <2>1. ui' = v /\ io' = Ask(t, kinds)
    BY <1>7 DEF ConfigReceived
  <2>2. view \in Views /\ link \in {"none", "settings", "locked"}
    BY <1>1, <1>4 DEF ViewFor, Views, LinkAfter, Uis
  <2>3. /\ view = "Vault" => c.account /\ ~c.locked /\ link = "none"
        /\ view # "Vault" => ~IsUnlocked(view)
    BY <1>4 DEF ViewFor, LinkAfter, IsUnlocked
  <2> HIDE DEF view, link
  <2>4. /\ v \in Uis /\ v.last = m.epoch /\ v.early = c.early /\ v.view = view /\ v.link = link
        /\ v.preferred = ui.preferred /\ v.mode = ui.mode
    <3>1. m.epoch \in Nat /\ c.account \in BOOLEAN /\ c.early \in BOOLEAN
      BY <1>1, <1>4
    <3>2. v \in Uis
      BY <1>1, <2>2, <3>1 DEF Uis
    <3> QED
      BY <3>2, <1>1 DEF Uis
  <2> HIDE DEF v
  <2>5. kinds \in Seq(Kinds) /\ (view = "Vault" => \E i \in DOMAIN kinds : kinds[i] = "GetEntries")
    <3> DEFINE w == <<"GetEntries", "CheckTpm">>
    <3>1. w \in Seq(Kinds) /\ 1 \in DOMAIN w /\ w[1] = "GetEntries" /\ <<"CheckTpm">> \in Seq(Kinds)
      BY DEF Kinds
    <3> QED
      BY <3>1 DEF RequestsFor
  <2> HIDE DEF kinds
  <2>6. PICK s \in Seq(Requests) :
            /\ AskFor(t, kinds, "app") = Enqueue(t, s)
            /\ DOMAIN s = DOMAIN kinds /\ \A i \in DOMAIN s : s[i].kind = kinds[i]
    BY <2>5, AskForSends DEF Surfaces
  <2>7. io' = Enqueue(t, s) /\ (view = "Vault" => \E i \in DOMAIN s : s[i].kind = "GetEntries")
    BY <2>1, <2>5, <2>6 DEF Ask
  <2>8. /\ t \in Links /\ (Renewal(events, q) => Renewal(events, t)) /\ ConfigsOK(agent, t)
        /\ \A i \in DOMAIN t.inbox : \E j \in DOMAIN q.inbox : t.inbox[i] = q.inbox[j]
        /\ ShowingOK(agent, q, v) => ShowingOK(agent, t, v)
        /\ OutdatingOK(agent, q, v) => OutdatingOK(agent, t, v)
        /\ Covered(agent, q, 1) => Covered(agent, t, 1)
    BY <1>2, <1>3, NewSearchSettles
  <2> HIDE DEF t
  <2>9. /\ io' \in Links /\ (Renewal(events, t) => Renewal(events, io')) /\ ConfigsOK(agent, io')
        /\ io'.inbox = t.inbox
        /\ ShowingOK(agent, t, v) => ShowingOK(agent, io', v)
        /\ OutdatingOK(agent, t, v) => OutdatingOK(agent, io', v)
        /\ Covered(agent, t, 1) => Covered(agent, io', 1)
        /\ view = "Vault" => Listed(agent, io', 1)
    BY <2>7, <2>8, EnqueuedSettles
  <2>10. /\ ShowingOK(agent, io, ui) => ShowingOK(agent, q, v)
         /\ OutdatingOK(agent, io, ui) => OutdatingOK(agent, q, v)
    BY <1>1, <2>4, TakenSettles
  <2>11. ASSUME ShowingOK(agent, io, ui) PROVE ViewOK(agent, io', v)
    <3> SUFFICES ASSUME IsUnlocked(view), ~c.early, agent.locked PROVE Covered(agent, io', 1)
      BY <2>3, <2>4, <2>9 DEF ViewOK
    <3>1. c.account /\ ~c.locked
      BY <2>3
    <3>2. Covered(agent, io, 1) \/ Excused(ui, io, m, 1)
      BY <1>2, <2>11, <3>1 DEF ShowingOK, Showing
    <3>3. ~Excused(ui, io, m, 1) /\ ~Current(agent, m)
      BY <1>3, <3>1 DEF Excused, Current, ConfigOK
    <3> QED
      BY <1>3, <2>8, <2>9, <3>2, <3>3
  <2>12. ~agent.subscribed => Unsubscribed(events, io', v)
    <3> SUFFICES ASSUME ~agent.subscribed PROVE Unsubscribed(events, io', v)
      OBVIOUS
    <3>1. v.early
      BY <1>3, <2>4 DEF ConfigOK
    <3>2. \A i \in DOMAIN io'.inbox : \E j \in DOMAIN q.inbox : io'.inbox[i] = q.inbox[j]
      BY <2>8, <2>9
    <3> QED
      BY <1>5, <3>1, <3>2
  <2>13. Settles(agent, events, io', v)
    BY <1>3, <2>8, <2>9, <2>10, <2>11 DEF Inv, Good, Settles
  <2>14. v.last <= agent.epoch /\ (v.preferred => v.mode = "Password")
    BY <1>3, <2>4 DEF ConfigOK, Inv, Good
  <2>15. Good(agent, events, io', v)
    BY <1>1, <2>4, <2>9, <2>12, <2>13, <2>14 DEF Inv, Good
  <2> QED
    BY <2>1, <2>15
<1> QED
  BY <1>6, <1>7

\* What the renewing handlers leave on its way.
LEMMA RefreshPosted ==
    ASSUME NEW q \in Links, NEW a, NEW ev
    PROVE  LET r == PostMessage(q, RefreshStateInternal)
           IN  /\ r \in Links /\ Renewal(ev, r) /\ (ConfigsOK(a, q) => ConfigsOK(a, r))
               /\ \A i \in DOMAIN r.inbox : \/ \E j \in DOMAIN q.inbox : r.inbox[i] = q.inbox[j]
                                            \/ r.inbox[i].kind = "Refresh"
<1> DEFINE m == RefreshStateInternal
           r == PostMessage(q, m)
<1>1. m \in Messages /\ m.kind = "Refresh" /\ Renews(m)
  BY DEF Messages, RefreshStateInternal, Renews
<1> HIDE DEF m
<1>2. /\ r \in Links /\ Renewal(ev, r) /\ (ConfigsOK(a, q) => ConfigsOK(a, r))
      /\ \A i \in DOMAIN r.inbox : (i \in DOMAIN q.inbox /\ r.inbox[i] = q.inbox[i]) \/ r.inbox[i] = m
  BY <1>1, PostedSettles
<1> HIDE DEF r
<1>3. \A i \in DOMAIN r.inbox : \/ \E j \in DOMAIN q.inbox : r.inbox[i] = q.inbox[j]
                                \/ r.inbox[i].kind = "Refresh"
  BY <1>1, <1>2
<1> QED
  BY <1>2, <1>3 DEF r, m

\* A batch of requests is added behind what is waiting; with a GetConfig in it,
\* it renews.
LEMMA Asked ==
    ASSUME NEW q \in Links, NEW kinds \in Seq(Kinds), NEW by \in Surfaces, NEW a, NEW ev
    PROVE  LET r == AskFor(q, kinds, by)
           IN  /\ r \in Links /\ (ConfigsOK(a, q) => ConfigsOK(a, r)) /\ r.inbox = q.inbox
               /\ Renewal(ev, q) \/ (\E i \in DOMAIN kinds : kinds[i] = "GetConfig") => Renewal(ev, r)
<1>1. PICK s \in Seq(Requests) :
          /\ AskFor(q, kinds, by) = Enqueue(q, s)
          /\ DOMAIN s = DOMAIN kinds /\ \A i \in DOMAIN s : s[i].kind = kinds[i]
  BY AskForSends
<1> DEFINE r == Enqueue(q, s)
<1>2. /\ r \in Links /\ (ConfigsOK(a, q) => ConfigsOK(a, r)) /\ r.inbox = q.inbox
      /\ Renewal(ev, q) \/ (\E i \in DOMAIN s : s[i].kind = "GetConfig") => Renewal(ev, r)
  BY EnqueuedSettles
<1> HIDE DEF r
<1>3. Renewal(ev, q) \/ (\E i \in DOMAIN kinds : kinds[i] = "GetConfig") => Renewal(ev, r)
  BY <1>1, <1>2
<1> QED
  BY <1>1, <1>2, <1>3 DEF r

\* Asking for the config is a renewal.
LEMMA ConfigAsked ==
    ASSUME NEW q \in Links, NEW a, NEW ev
    PROVE  LET r == Ask(q, <<"GetConfig">>)
           IN  r \in Links /\ Renewal(ev, r) /\ (ConfigsOK(a, q) => ConfigsOK(a, r)) /\ r.inbox = q.inbox
<1> DEFINE w == <<"GetConfig">>
<1>1. w \in Seq(Kinds) /\ 1 \in DOMAIN w /\ w[1] = "GetConfig"
  BY DEF Kinds
<1> HIDE DEF w
<1>2. "app" \in Surfaces
  BY DEF Surfaces
<1> QED
  BY <1>1, <1>2, Asked DEF Ask, w

\* wipe_for_lock and the other updates of the fields.
LEMMA Wiped ==
    ASSUME NEW u \in Uis
    PROVE  \A v \in {WipeForLock(u), [Wipe(u) EXCEPT !.view = "Setup"]} :
               /\ v \in Uis /\ v.early = u.early /\ v.last = u.last /\ v.tpm = u.tpm /\ v.run = u.run
               /\ v.preferred = u.preferred /\ v.mode = u.mode /\ ~IsUnlocked(v.view)
<1> DEFINE no == FALSE
           w == Wipe(u)
<1>1. no \in BOOLEAN /\ NoList \in Nat
  BY DEF NoList
<1>2. w = [u EXCEPT !.list = NoList, !.applyPin = no, !.unlockPin = no, !.loginPin = no]
  BY DEF Wipe
<1> HIDE DEF no, w
<1>3. /\ w \in Uis /\ w.early = u.early /\ w.last = u.last /\ w.tpm = u.tpm /\ w.run = u.run
      /\ w.preferred = u.preferred /\ w.mode = u.mode
  BY <1>1, <1>2 DEF Uis
<1>4. \A x \in {"Unlock", "Setup"} :
          LET v == [w EXCEPT !.view = x]
          IN  /\ v \in Uis /\ v.early = w.early /\ v.last = w.last /\ v.tpm = w.tpm /\ v.run = w.run
              /\ v.preferred = w.preferred /\ v.mode = w.mode /\ v.view = x
  BY <1>3 DEF Uis, Views
<1>5. WipeForLock(u) = [w EXCEPT !.view = "Unlock"]
  BY DEF WipeForLock, w
<1> QED
  BY <1>3, <1>4, <1>5 DEF IsUnlocked, w

\* lifecycle.rs EventReceived.
LEMMA EventStep ==
    ASSUME Inv, io.inbox # <<>>, NEW m, m = Head(io.inbox), m.kind = "Event",
           NEW q, q = Taken(io), EventReceived(m.event, q)
    PROVE  Good(agent, events, io', ui')
<1>1. /\ agent \in Agents /\ events \in Seq(Events) /\ io \in Links /\ ui \in Uis
      /\ ui.preferred => ui.mode = "Password"
  BY DEF Inv, Good
<1>2. q \in Links /\ <<>> \in Seq(Requests)
  BY <1>1, TakenLinks
<1>3. CASE m.event = "Locked" /\ LockedEvent(q)
  <2>1. /\ ui' \in Uis /\ ui'.early = ui.early /\ ui'.last = ui.last
        /\ ui'.preferred => ui'.mode = "Password"
    BY <1>1, <1>3, Wiped DEF LockedEvent
  <2>2. io' = Ask(q, <<"GetConfig">>)
    BY <1>3 DEF LockedEvent
  <2>3. /\ io' \in Links /\ Renewal(events, io') /\ io'.inbox = q.inbox
        /\ ConfigsOK(agent, q) => ConfigsOK(agent, io')
    BY <1>2, <2>2, ConfigAsked
  <2> QED
    BY <2>1, <2>3, HandledRenewing DEF Inv
<1>4. ASSUME NEW pin \in BOOLEAN, OnUnlockEvent(pin, q), m.event \in {"PinRequested", "UnlockRequested"}
      PROVE  Good(agent, events, io', ui')
  <2>1. CASE ui.account
    <3> DEFINE mode == IF pin THEN "Pin" ELSE "Password"
               p == ui.preferred /\ ~pin
    <3>1. io' = q /\ ui' = [ui EXCEPT !.view = "Unlock", !.mode = mode, !.preferred = p]
      BY <1>4, <2>1 DEF OnUnlockEvent
    <3>2. "Unlock" \in Views /\ mode \in {"Password", "Pin"} /\ p \in BOOLEAN /\ (p => mode = "Password")
      BY <1>1, <1>4 DEF Views, Uis
    <3> HIDE DEF mode, p
    <3>3. /\ ui' \in Uis /\ ui'.early = ui.early /\ ui'.last = ui.last /\ ui'.view = "Unlock"
          /\ ui'.preferred = p /\ ui'.mode = mode
      BY <1>1, <3>1, <3>2 DEF Uis
    <3>4. ~Renews(m)
      BY <1>4 DEF Renews
    <3>5. ~IsUnlocked(ui'.view) /\ (ui'.preferred => ui'.mode = "Password")
      BY <3>2, <3>3 DEF IsUnlocked
    <3> QED
      BY <1>2, <3>1, <3>3, <3>4, <3>5, HandledQuietly DEF Inv
  <2>2. CASE ~ui.account
    <3>1. ui' = ui /\ io' = Ask(q, <<"GetConfig">>)
      BY <1>4, <2>2 DEF OnUnlockEvent
    <3>2. /\ io' \in Links /\ Renewal(events, io') /\ io'.inbox = q.inbox
          /\ ConfigsOK(agent, q) => ConfigsOK(agent, io')
      BY <1>2, <3>1, ConfigAsked
    <3> QED
      BY <1>1, <3>1, <3>2, HandledRenewing DEF Inv
  <2> QED
    BY <2>1, <2>2
<1>5. CASE \/ /\ m.event = "Unlocked" /\ ui' = [ui EXCEPT !.view = "Vault"]
              /\ io' = PostMessage(q, RefreshStateInternal)
           \/ m.event = "VaultChanged" /\ UNCHANGED ui /\ io' = PostMessage(q, RefreshStateInternal)
  <2>1. /\ ui' \in Uis /\ ui'.early = ui.early /\ ui'.last = ui.last
        /\ ui'.preferred = ui.preferred /\ ui'.mode = ui.mode
    BY <1>1, <1>5 DEF Uis, Views
  <2>2. /\ io' \in Links /\ Renewal(events, io') /\ (ConfigsOK(agent, q) => ConfigsOK(agent, io'))
        /\ \A i \in DOMAIN io'.inbox : \/ \E j \in DOMAIN q.inbox : io'.inbox[i] = q.inbox[j]
                                       \/ io'.inbox[i].kind = "Refresh"
    BY <1>2, <1>5, RefreshPosted
  <2> QED
    BY <1>1, <2>1, <2>2, HandledRenewing DEF Inv
<1>6. CASE /\ m.event = "OpenEntry" /\ io' = q
           /\ ui' = [ui EXCEPT !.link = IF ui.view = "Vault" THEN @
                                        ELSE IF IsUnlocked(ui.view) THEN "settings"
                                        ELSE "locked"]
  <2> DEFINE l == IF ui.view = "Vault" THEN ui.link ELSE IF IsUnlocked(ui.view) THEN "settings" ELSE "locked"
  <2>1. l \in {"none", "settings", "locked"} /\ (l = "locked" => ui.link = "locked" \/ ~IsUnlocked(ui.view))
    BY <1>1 DEF Uis, IsUnlocked
  <2>2. ui' = [ui EXCEPT !.link = l]
    BY <1>6
  <2> HIDE DEF l
  <2>3. /\ ui' \in Uis /\ ui'.early = ui.early /\ ui'.last = ui.last /\ ui'.view = ui.view /\ ui'.link = l
        /\ ui'.preferred = ui.preferred /\ ui'.mode = ui.mode /\ ui'.list = ui.list
    BY <1>1, <2>1, <2>2 DEF Uis
  <2>4. ~Renews(m)
    BY <1>6 DEF Renews
  <2>5. \/ ~IsUnlocked(ui'.view)
        \/ /\ m.kind # "GetEntries" /\ IsUnlocked(ui.view) /\ ui'.list = ui.list
           /\ ui'.link = "locked" => ui.link = "locked"
    BY <2>1, <2>3
  <2>6. ui'.preferred => ui'.mode = "Password"
    BY <1>1, <2>3
  <2>7. m.kind # "GetConfig" /\ io' = Taken(io)
    BY <1>6
  <2> QED
    BY <1>2, <2>3, <2>4, <2>5, <2>6, <2>7, HandledQuietly DEF Inv
<1>7. TRUE \in BOOLEAN /\ FALSE \in BOOLEAN
  OBVIOUS
<1> QED
  BY <1>3, <1>4, <1>5, <1>6, <1>7 DEF EventReceived

\* RefreshStateInternal.
LEMMA RefreshStep ==
    ASSUME Inv, io.inbox # <<>>, NEW m, m = Head(io.inbox), m.kind = "Refresh",
           NEW q, q = Taken(io), Refresh(q)
    PROVE  Good(agent, events, io', ui')
<1>1. /\ agent \in Agents /\ io \in Links /\ ui \in Uis /\ ui' = ui
      /\ ui.preferred => ui.mode = "Password"
  BY DEF Inv, Good, Refresh
<1>2. q \in Links
  BY <1>1, TakenLinks
<1>3. Opened(ui, m)
  BY DEF Opened
<1>4. CASE IsUnlocked(ui.view)
  <2> DEFINE t == NewSearch(q)
             kinds == <<"GetConfig", "GetEntries">>
  <2>1. /\ t \in Links /\ (ConfigsOK(agent, q) => ConfigsOK(agent, t))
        /\ \A i \in DOMAIN t.inbox : \E j \in DOMAIN q.inbox : t.inbox[i] = q.inbox[j]
    BY <1>2, NewSearchSettles
  <2>2. kinds \in Seq(Kinds) /\ 1 \in DOMAIN kinds /\ kinds[1] = "GetConfig" /\ "app" \in Surfaces
    BY DEF Kinds, Surfaces
  <2>3. io' = AskFor(t, kinds, "app")
    BY <1>4 DEF Refresh, Ask
  <2> HIDE DEF t, kinds
  <2>4. /\ io' \in Links /\ (ConfigsOK(agent, t) => ConfigsOK(agent, io')) /\ io'.inbox = t.inbox
        /\ Renewal(events, io')
    BY <2>1, <2>2, <2>3, Asked
  <2> QED
    BY <1>1, <1>3, <2>1, <2>4, HandledRenewing DEF Inv
<1>5. CASE ~IsUnlocked(ui.view)
  <2>1. io' = Ask(q, <<"GetConfig">>)
    BY <1>5 DEF Refresh
  <2>2. /\ io' \in Links /\ Renewal(events, io') /\ io'.inbox = q.inbox
        /\ ConfigsOK(agent, q) => ConfigsOK(agent, io')
    BY <1>2, <2>1, ConfigAsked
  <2> QED
    BY <1>1, <1>3, <2>2, HandledRenewing DEF Inv
<1> QED
  BY <1>4, <1>5

\* The PIN request a form leaves behind is one the agent knows.
LEMMA PinIntentTyped ==
    ASSUME NEW u, NEW pin
    PROVE  PinIntent(u, pin) \in Seq(Kinds)
<1>1. <<"SetupTpmPin">> \in Seq(Kinds) /\ <<"DisableTpmPin">> \in Seq(Kinds) /\ <<>> \in Seq(Kinds)
  BY DEF Kinds, Others
<1> QED
  BY <1>1 DEF PinIntent

\* AuthResult, of the forms that refresh.
LEMMA AuthStep ==
    ASSUME Inv, io.inbox # <<>>, NEW m, m = Head(io.inbox), m.kind \in Auth,
           NEW q, q = Taken(io), AuthResult(m, q)
    PROVE  Good(agent, events, io', ui')
<1>1. /\ agent \in Agents /\ io \in Links /\ ui \in Uis /\ (ui.preferred => ui.mode = "Password")
  BY DEF Inv, Good
<1>2. q \in Links /\ m \in Messages /\ <<>> \in Seq(Requests)
  BY <1>1, TakenLinks
<1>3. Opened(ui, m) /\ ~Renews(m) /\ m.kind # "GetConfig"
  BY DEF Opened, Renews, Auth
<1>4. m.by \in Surfaces
  BY <1>2, MessageKinds DEF Results
<1>5. CASE m.code = "ok"
  <2> DEFINE pin == IF ui.applyPin THEN ui.unlockPin ELSE ui.loginPin
             no == FALSE
             up == ui.unlockPin /\ ~ui.applyPin
             lp == ui.loginPin /\ ui.applyPin
             t == Ask(q, <<"GetEntries">>)
             w == PostMessage(t, RefreshStateInternal)
             kinds == PinIntent(ui, pin)
  <2>1. no \in BOOLEAN /\ up \in BOOLEAN /\ lp \in BOOLEAN
    BY <1>1 DEF Uis
  <2>2. /\ ui' = [ui EXCEPT !.view = "Vault", !.applyPin = no, !.unlockPin = up, !.loginPin = lp]
        /\ io' = AskFor(w, kinds, m.by)
    BY <1>5 DEF AuthResult, AskPin
  <2> HIDE DEF no, up, lp
  <2>3. /\ ui' \in Uis /\ ui'.early = ui.early /\ ui'.last = ui.last
        /\ ui'.preferred = ui.preferred /\ ui'.mode = ui.mode
    <3>1. "Vault" \in Views
      BY DEF Views
    <3> HIDE DEF Views
    <3> DEFINE u == [ui EXCEPT !.applyPin = no, !.unlockPin = up, !.loginPin = lp]
    <3>2. /\ u \in Uis /\ u.early = ui.early /\ u.last = ui.last
          /\ u.preferred = ui.preferred /\ u.mode = ui.mode
      BY <1>1, <2>1 DEF Uis
    <3>3. ui' = [u EXCEPT !.view = "Vault"]
      BY <1>1, <2>2 DEF Uis
    <3> HIDE DEF u
    <3> QED
      BY <3>1, <3>2, <3>3 DEF Uis
  <2>4. t \in Links /\ (ConfigsOK(agent, q) => ConfigsOK(agent, t)) /\ t.inbox = q.inbox
    <3>1. <<"GetEntries">> \in Seq(Kinds) /\ "app" \in Surfaces
      BY DEF Kinds, Surfaces
    <3> QED
      BY <1>2, <3>1, Asked DEF Ask
  <2> HIDE DEF t
  <2>5. /\ w \in Links /\ Renewal(events, w) /\ (ConfigsOK(agent, t) => ConfigsOK(agent, w))
        /\ \A i \in DOMAIN w.inbox : \/ \E j \in DOMAIN t.inbox : w.inbox[i] = t.inbox[j]
                                     \/ w.inbox[i].kind = "Refresh"
    BY <2>4, RefreshPosted
  <2>6. kinds \in Seq(Kinds)
    BY PinIntentTyped
  <2> HIDE DEF w, kinds
  <2>7. /\ io' \in Links /\ (ConfigsOK(agent, w) => ConfigsOK(agent, io')) /\ io'.inbox = w.inbox
        /\ Renewal(events, io')
    BY <1>4, <2>2, <2>5, <2>6, Asked
  <2>8. /\ ConfigsOK(agent, q) => ConfigsOK(agent, io')
        /\ \A i \in DOMAIN io'.inbox : \/ \E j \in DOMAIN q.inbox : io'.inbox[i] = q.inbox[j]
                                       \/ io'.inbox[i].kind = "Refresh"
    BY <2>4, <2>5, <2>7
  <2> QED
    BY <1>1, <1>3, <2>3, <2>7, <2>8, HandledRenewing DEF Inv
<1>6. CASE m.code # "ok"
  <2> DEFINE no == FALSE
             x == IF m.code = "new_device" \/ ui.last = NoEpoch THEN "Setup" ELSE "Unlock"
  <2>1. no \in BOOLEAN /\ x \in Views /\ ~IsUnlocked(x)
    BY DEF Views, IsUnlocked
  <2>2. ui' = [ui EXCEPT !.applyPin = no, !.view = x] /\ io' = q
    BY <1>6 DEF AuthResult
  <2> HIDE DEF no, x
  <2>3. /\ ui' \in Uis /\ ui'.early = ui.early /\ ui'.last = ui.last /\ ui'.view = x
        /\ ui'.preferred = ui.preferred /\ ui'.mode = ui.mode
    BY <1>1, <2>1, <2>2 DEF Uis
  <2>4. ~IsUnlocked(ui'.view) /\ (ui'.preferred => ui'.mode = "Password") /\ io' = Taken(io)
    BY <1>1, <2>1, <2>2, <2>3
  <2> QED
    BY <1>2, <1>3, <2>3, <2>4, HandledQuietly DEF Inv
<1> QED
  BY <1>5, <1>6

\* MainWindowPinResult, AppletPinResult and AppletUnlockResult.
LEMMA PinStep ==
    ASSUME Inv, io.inbox # <<>>, NEW m, m = Head(io.inbox), m.kind \in Auth,
           NEW q, q = Taken(io), PinResult(m, q) \/ AppletUnlockResult(m, q)
    PROVE  Good(agent, events, io', ui')
<1>1. /\ agent \in Agents /\ io \in Links /\ ui \in Uis /\ (ui.preferred => ui.mode = "Password")
  BY DEF Inv, Good
<1>2. q \in Links /\ m \in Messages /\ <<>> \in Seq(Requests)
  BY <1>1, TakenLinks
<1>3. Opened(ui, m) /\ ~Renews(m) /\ m.kind # "GetConfig" /\ m.kind # "GetEntries"
  BY DEF Opened, Renews, Auth
<1>4. m.by \in Surfaces
  BY <1>2, MessageKinds DEF Results
<1>5. CASE m.code = "ok" /\ PinResult(m, q)
  <2>1. ui' = [ui EXCEPT !.view = "Vault"] /\ io' = PostMessage(q, RefreshStateInternal)
    BY <1>5 DEF PinResult
  <2>2. /\ ui' \in Uis /\ ui'.early = ui.early /\ ui'.last = ui.last
        /\ ui'.preferred = ui.preferred /\ ui'.mode = ui.mode
    BY <1>1, <2>1 DEF Uis, Views
  <2>3. /\ io' \in Links /\ Renewal(events, io') /\ (ConfigsOK(agent, q) => ConfigsOK(agent, io'))
        /\ \A i \in DOMAIN io'.inbox : \/ \E j \in DOMAIN q.inbox : io'.inbox[i] = q.inbox[j]
                                       \/ io'.inbox[i].kind = "Refresh"
    BY <1>2, <2>1, RefreshPosted
  <2> QED
    BY <1>1, <1>3, <2>2, <2>3, HandledRenewing DEF Inv
<1>6. CASE m.code # "ok" /\ PinResult(m, q)
  <2> DEFINE mode == IF m.code = "pin_gone" THEN "Password" ELSE ui.mode
             x == IF m.by = "popup" THEN "Unlock" ELSE ui.view
  <2>1. /\ mode \in {"Password", "Pin"} /\ x \in Views /\ (x = ui.view \/ ~IsUnlocked(x))
        /\ ui.preferred => mode = "Password"
    BY <1>1 DEF Views, IsUnlocked, Uis
  <2>2. ui' = [ui EXCEPT !.mode = mode, !.view = x] /\ io' = q
    BY <1>6 DEF PinResult
  <2> HIDE DEF mode, x
  <2>3. /\ ui' \in Uis /\ ui'.early = ui.early /\ ui'.last = ui.last /\ ui'.view = x
        /\ ui'.preferred = ui.preferred /\ ui'.mode = mode /\ ui'.list = ui.list /\ ui'.link = ui.link
    BY <1>1, <2>1, <2>2 DEF Uis
  <2>4. /\ ui'.preferred => ui'.mode = "Password"
        /\ io' = Taken(io)
        /\ \/ ~IsUnlocked(ui'.view)
           \/ /\ m.kind # "GetEntries" /\ IsUnlocked(ui.view) /\ ui'.list = ui.list
              /\ ui'.link = "locked" => ui.link = "locked"
    BY <1>3, <2>1, <2>2, <2>3
  <2> QED
    BY <1>2, <1>3, <2>3, <2>4, HandledQuietly DEF Inv
<1>7. CASE m.code = "ok" /\ AppletUnlockResult(m, q)
  <2> DEFINE no == FALSE
             kinds == PinIntent(ui, ui.unlockPin)
  <2>1. no \in BOOLEAN /\ kinds \in Seq(Kinds)
    BY PinIntentTyped
  <2>2. ui' = [ui EXCEPT !.view = "Vault", !.unlockPin = no] /\ io' = AskFor(q, kinds, m.by)
    BY <1>7 DEF AppletUnlockResult, AskPin
  <2> HIDE DEF no, kinds
  <2>3. /\ ui' \in Uis /\ ui'.early = ui.early /\ ui'.last = ui.last
        /\ ui'.preferred = ui.preferred /\ ui'.mode = ui.mode
    BY <1>1, <2>1, <2>2 DEF Uis, Views
  <2>4. PICK s \in Seq(Requests) : AskFor(q, kinds, m.by) = Enqueue(q, s)
    BY <1>4, <2>1, AskForSends
  <2>5. Showing(m)
    BY <1>7 DEF Showing
  <2>6. io' = Enqueue(Taken(io), s) /\ (ui'.preferred => ui'.mode = "Password")
    BY <1>1, <2>2, <2>3, <2>4
  <2> QED
    BY <1>3, <2>3, <2>5, <2>6, HandledQuietly DEF Inv
<1>8. CASE m.code # "ok" /\ AppletUnlockResult(m, q)
  <2>1. io' = Taken(io) /\ ui' = ui
    BY <1>8 DEF AppletUnlockResult
  <2>2. \/ ~IsUnlocked(ui.view)
        \/ /\ m.kind # "GetEntries" /\ IsUnlocked(ui.view) /\ ui.list = ui.list
           /\ ui.link = "locked" => ui.link = "locked"
    BY <1>3
  <2>3. Good(agent, events, Taken(io), ui)
    BY <1>1, <1>2, <1>3, <2>2, HandledQuietly DEF Inv
  <2> QED
    BY <2>1, <2>3
<1> QED
  BY <1>5, <1>6, <1>7, <1>8

\* The replies that change no view, and the ones that lock it.
LEMMA ReplyStep ==
    ASSUME Inv, io.inbox # <<>>, NEW m, m = Head(io.inbox), NEW q, q = Taken(io),
           \/ m.kind = "CheckTpm" /\ TpmStatusReceived(m, q)
           \/ m.kind = "GetEntries" /\ EntriesReceived(m, q)
           \/ m.kind = "Lock" /\ LockResult(q)
           \/ m.kind = "Logout" /\ LogoutResult(q)
           \/ m.kind = "SetupTpmPin" /\ TpmSetupResult(m, q)
           \/ m.kind = "DisableTpmPin" /\ TpmDisableResult(m, q)
    PROVE  Good(agent, events, io', ui')
<1>1. /\ agent \in Agents /\ io \in Links /\ ui \in Uis /\ (ui.preferred => ui.mode = "Password")
  BY DEF Inv, Good
<1>2. q \in Links /\ m \in Messages /\ <<>> \in Seq(Requests)
  BY <1>1, TakenLinks
<1>3. ~Renews(m) /\ m.kind # "GetConfig"
  BY DEF Renews
<1>4. CASE m.kind = "CheckTpm" /\ TpmStatusReceived(m, q)
  <2> DEFINE yes == TRUE
             p == m.snap.pin
             mode == IF PromotePin(p) THEN "Pin" ELSE ui.mode
  <2>1. yes \in BOOLEAN /\ p \in BOOLEAN
    BY <1>2, <1>4, MessageKinds DEF Tpms
  <2>2. mode \in {"Password", "Pin"} /\ (ui.preferred => mode = "Password")
    BY <1>1, <2>1 DEF Uis, PromotePin
  <2>3. ui' = [ui EXCEPT !.tpm = yes, !.pin = p, !.mode = mode] /\ io' = Taken(io)
    BY <1>4 DEF TpmStatusReceived
  <2> HIDE DEF yes, p, mode
  <2>4. /\ ui' \in Uis /\ ui'.early = ui.early /\ ui'.last = ui.last /\ ui'.view = ui.view
        /\ ui'.preferred = ui.preferred /\ ui'.mode = mode /\ ui'.list = ui.list /\ ui'.link = ui.link
    BY <1>1, <2>1, <2>2, <2>3 DEF Uis
  <2>5. Opened(ui, m)
    BY <1>4 DEF Opened
  <2>6. /\ ui'.preferred => ui'.mode = "Password"
        /\ \/ ~IsUnlocked(ui'.view)
           \/ /\ m.kind # "GetEntries" /\ IsUnlocked(ui.view) /\ ui'.list = ui.list
              /\ ui'.link = "locked" => ui.link = "locked"
    BY <1>4, <2>2, <2>4
  <2> QED
    BY <1>2, <1>3, <2>3, <2>4, <2>5, <2>6, HandledQuietly DEF Inv
<1>5. CASE m.kind = "GetEntries" /\ EntriesReceived(m, q)
  <2> DEFINE l == IF m.code = "ok" THEN m.snap.list ELSE NoList
  <2>1. l \in Nat
    <3>1. m \in Lists
      BY <1>2, <1>5, MessageKinds
    <3> QED
      BY <3>1 DEF Lists, NoList
  <2>2. ui' = [ui EXCEPT !.list = l] /\ io' = Taken(io)
    BY <1>5 DEF EntriesReceived
  <2>3. l = IF m.code = "ok" THEN m.snap.list ELSE NoList
    OBVIOUS
  <2> HIDE DEF l
  <2>4. /\ ui' \in Uis /\ ui'.early = ui.early /\ ui'.last = ui.last /\ ui'.view = ui.view
        /\ ui'.preferred = ui.preferred /\ ui'.mode = ui.mode /\ ui'.list = l /\ ui'.link = ui.link
    BY <1>1, <2>1, <2>2 DEF Uis
  <2>5. Opened(ui, m)
    BY <1>5 DEF Opened
  <2>6. /\ ui'.preferred => ui'.mode = "Password"
        /\ \/ ~IsUnlocked(ui'.view)
           \/ /\ m.kind = "GetEntries" /\ IsUnlocked(ui.view) /\ ui'.link = ui.link
              /\ ui'.list = IF m.code = "ok" THEN m.snap.list ELSE NoList
    BY <1>1, <1>5, <2>3, <2>4
  <2> QED
    BY <1>2, <1>3, <2>2, <2>4, <2>5, <2>6, HandledQuietly DEF Inv
<1>6. CASE m.kind \in {"Lock", "Logout"} /\ (LockResult(q) \/ LogoutResult(q))
  <2>1. ui' \in {WipeForLock(ui), [Wipe(ui) EXCEPT !.view = "Setup"]} /\ io' = Taken(io)
    BY <1>6 DEF LockResult, LogoutResult
  <2>2. /\ ui' \in Uis /\ ui'.early = ui.early /\ ui'.last = ui.last /\ ui'.tpm = ui.tpm /\ ui'.run = ui.run
        /\ ui'.preferred = ui.preferred /\ ui'.mode = ui.mode /\ ~IsUnlocked(ui'.view)
    BY <1>1, <2>1, Wiped
  <2>3. Opened(ui, m) \/ (ui'.run # "window" /\ ~IsUnlocked(ui'.view))
    BY <1>6, <2>2 DEF Opened
  <2>4. ui'.preferred => ui'.mode = "Password"
    BY <1>1, <2>2
  <2> QED
    BY <1>2, <1>3, <2>1, <2>2, <2>3, <2>4, HandledQuietly DEF Inv
<1>7. CASE \/ m.kind = "SetupTpmPin" /\ TpmSetupResult(m, q)
           \/ m.kind = "DisableTpmPin" /\ TpmDisableResult(m, q)
  <2> DEFINE yes == TRUE
             no == FALSE
             p == ui.pin \/ m.code = "ok"
  <2>1. yes \in BOOLEAN /\ no \in BOOLEAN /\ p \in BOOLEAN
    BY <1>1 DEF Uis
  <2>2. /\ io' = Taken(io)
        /\ \/ ui' = [ui EXCEPT !.pin = p]
           \/ ui' = [ui EXCEPT !.pin = no, !.mode = "Password", !.preferred = yes]
    BY <1>7 DEF TpmSetupResult, TpmDisableResult
  <2> HIDE DEF yes, no, p
  <2>3. /\ ui' \in Uis /\ ui'.early = ui.early /\ ui'.last = ui.last /\ ui'.view = ui.view
        /\ ui'.tpm = ui.tpm /\ ui'.run = ui.run /\ ui'.list = ui.list /\ ui'.link = ui.link
        /\ ui'.preferred => ui'.mode = "Password"
    BY <1>1, <2>1, <2>2 DEF Uis
  <2>4. \/ ~IsUnlocked(ui'.view)
        \/ /\ m.kind # "GetEntries" /\ IsUnlocked(ui.view) /\ ui'.list = ui.list
           /\ ui'.link = "locked" => ui.link = "locked"
    BY <1>7, <2>3
  <2> QED
    BY <1>2, <1>3, <2>2, <2>3, <2>4, HandledQuietly DEF Inv
<1> QED
  BY <1>4, <1>5, <1>6, <1>7

\* Every message the window handles keeps Inv.
LEMMA HandleStep ==
    ASSUME Inv, Handle
    PROVE  Inv'
<1> DEFINE m == Head(io.inbox)
           q == Taken(io)
<1>1. io.inbox # <<>> /\ agent' = agent /\ events' = events
  BY DEF Handle
<1> SUFFICES Good(agent, events, io', ui')
  BY <1>1 DEF Inv
<1>2. \/ m.kind = "Event" /\ EventReceived(m.event, q)
      \/ m.kind = "Refresh" /\ Refresh(q)
      \/ m.kind = "GetConfig" /\ ConfigReceived(m, q)
      \/ m.kind = "CheckTpm" /\ TpmStatusReceived(m, q)
      \/ m.kind = "GetEntries" /\ EntriesReceived(m, q)
      \/ m.kind \in {"Login", "Unlock"} /\ AuthResult(m, q)
      \/ m.kind = "Unlock" /\ AppletUnlockResult(m, q)
      \/ m.kind = "UnlockWithPin" /\ PinResult(m, q)
      \/ m.kind = "Lock" /\ LockResult(q)
      \/ m.kind = "Logout" /\ LogoutResult(q)
      \/ m.kind = "SetupTpmPin" /\ TpmSetupResult(m, q)
      \/ m.kind = "DisableTpmPin" /\ TpmDisableResult(m, q)
  BY DEF Handle
<1>4. CASE m.kind = "Event" /\ EventReceived(m.event, q)
  BY <1>1, <1>4, EventStep
<1>5. CASE m.kind = "Refresh" /\ Refresh(q)
  BY <1>1, <1>5, RefreshStep
<1>6. CASE m.kind = "GetConfig" /\ ConfigReceived(m, q)
  BY <1>1, <1>6, ConfigStep
<1>7. CASE m.kind \in {"Login", "Unlock"} /\ AuthResult(m, q)
  BY <1>1, <1>7, AuthStep DEF Auth
<1>8. CASE \/ m.kind = "Unlock" /\ AppletUnlockResult(m, q)
           \/ m.kind = "UnlockWithPin" /\ PinResult(m, q)
  BY <1>1, <1>8, PinStep DEF Auth
<1>9. CASE \/ m.kind = "CheckTpm" /\ TpmStatusReceived(m, q)
           \/ m.kind = "GetEntries" /\ EntriesReceived(m, q)
           \/ m.kind = "Lock" /\ LockResult(q)
           \/ m.kind = "Logout" /\ LogoutResult(q)
           \/ m.kind = "SetupTpmPin" /\ TpmSetupResult(m, q)
           \/ m.kind = "DisableTpmPin" /\ TpmDisableResult(m, q)
  BY <1>1, <1>9, ReplyStep
<1> QED
  BY <1>2, <1>4, <1>5, <1>6, <1>7, <1>8, <1>9

-----------------------------------------------------------------------------
(* What the user does *)

\* What the views offer before the subscription, and what only an open vault does.
LEMMA OfferedEarly ==
    ASSUME Inv, ~agent.subscribed, ~ui.early
    PROVE  /\ Offered(ui) \subseteq {"AppletIconClicked", "LogoutClicked"}
           /\ ui.run = "window" => Offered(ui) = {}
<1>1. ~ui.tpm /\ ~IsUnlocked(ui.view) /\ (ui.run = "window" => ui.view = "Loading")
  BY DEF Inv, Good, Unsubscribed
<1> QED
  BY <1>1 DEF Offered, ViewContent, PopupContent, HeaderRow, PopupUnlock

\* An entry, the settings and the generator are offered in an unlocked view
\* only.
LEMMA OfferedUnlocked ==
    ASSUME NEW u \in Uis,
           \/ "SelectEntry" \in Offered(u)
           \/ "SettingsViewClicked" \in Offered(u)
           \/ "GeneratorViewClicked" \in Offered(u)
    PROVE  IsUnlocked(u.view)
<1>1. u.run = "window"
  BY DEF Offered, PopupContent, HeaderRow, PopupUnlock
<1>2. u.view \in Views
  BY DEF Uis
<1>3. Offered(u) = ViewContent(u)
  BY <1>1 DEF Offered
<1> QED
  BY <1>2, <1>3 DEF ViewContent, AuthForm, SetupForm, PinForm, PasswordForm, IsUnlocked, Views

\* A click or a submit: it opens no view that was locked.
LEMMA Clicked ==
    ASSUME Inv, agent' = agent, events' = events, ui' \in Uis,
           ui'.early = ui.early, ui'.last = ui.last, ui'.list = ui.list, ui'.link = ui.link,
           ui'.run = ui.run, ui'.tpm = ui.tpm, ui'.preferred => ui'.mode = "Password",
           ui'.view = ui.view \/ IsUnlocked(ui.view),
           NEW s \in Seq(Requests), io' = io \/ io' = Enqueue(io, s),
           ~agent.subscribed /\ ~ui.early => io' = io \/ \A i \in DOMAIN s : ~Opened(ui, s[i])
    PROVE  Inv'
<1>1. agent \in Agents /\ io \in Links /\ ui \in Uis /\ ConfigsOK(agent, io)
  BY DEF Inv, Good
<1>2. /\ io' \in Links /\ io'.inbox = io.inbox /\ io'.reply = io.reply
      /\ \A i \in DOMAIN io'.waiting :
             \/ i \in DOMAIN io.waiting /\ io'.waiting[i] = io.waiting[i]
             \/ io' # io /\ \E j \in DOMAIN s : io'.waiting[i] = s[j]
      /\ Renewal(events, io) => Renewal(events, io')
      /\ ConfigsOK(agent, io')
      /\ ShowingOK(agent, io, ui') => ShowingOK(agent, io', ui')
      /\ OutdatingOK(agent, io, ui') => OutdatingOK(agent, io', ui')
      /\ ViewOK(agent, io, ui') => ViewOK(agent, io', ui')
  <2>1. CASE io' = io
    BY <1>1, <2>1
  <2>2. CASE io' # io
    <3>1. io' = Enqueue(io, s)
      BY <2>2
    <3> DEFINE r == Enqueue(io, s)
               v == ui'
    <3>2. /\ r \in Links /\ r.inbox = io.inbox /\ r.reply = io.reply
          /\ \A i \in DOMAIN r.waiting :
                 \/ i \in DOMAIN io.waiting /\ r.waiting[i] = io.waiting[i]
                 \/ \E j \in DOMAIN s : r.waiting[i] = s[j]
          /\ Renewal(events, io) => Renewal(events, r)
          /\ ConfigsOK(agent, r)
          /\ ShowingOK(agent, io, v) => ShowingOK(agent, r, v)
          /\ OutdatingOK(agent, io, v) => OutdatingOK(agent, r, v)
          /\ ViewOK(agent, io, v) => ViewOK(agent, r, v)
      BY <1>1, EnqueuedSettles
    <3> HIDE DEF r, v
    <3> QED
      BY <2>2, <3>1, <3>2 DEF r, v
  <2> QED
    BY <2>1, <2>2
<1>3. \A q, x, i : Excused(ui, q, x, i) <=> Excused(ui', q, x, i)
  BY DEF Excused
<1>4. /\ ShowingOK(agent, io, ui) => ShowingOK(agent, io, ui')
      /\ OutdatingOK(agent, io, ui) => OutdatingOK(agent, io, ui')
  BY <1>3 DEF ShowingOK, OutdatingOK
<1>5. ViewOK(agent, io, ui) => ViewOK(agent, io, ui')
  BY DEF ViewOK
<1>6. Settles(agent, events, io', ui')
  BY <1>2, <1>4, <1>5 DEF Inv, Good, Settles
<1>7. ~agent.subscribed => Unsubscribed(events, io', ui')
  <2> SUFFICES ASSUME ~agent.subscribed PROVE Unsubscribed(events, io', ui')
    OBVIOUS
  <2>1. Unsubscribed(events, io, ui)
    BY DEF Inv, Good
  <2>2. CASE ui.early
    BY <1>2, <2>1, <2>2 DEF Unsubscribed
  <2>3. CASE ~ui.early
    <3>1. ui'.view = ui.view
      BY <2>1, <2>3 DEF Unsubscribed
    <3>2. \A x : Opened(ui', x) <=> Opened(ui, x)
      BY DEF Opened
    <3>3. \A i \in DOMAIN io'.waiting : ~Opened(ui, io'.waiting[i])
      BY <1>2, <2>1, <2>3 DEF Unsubscribed
    <3> QED
      BY <1>2, <2>1, <2>3, <3>1, <3>2, <3>3 DEF Unsubscribed
  <2> QED
    BY <2>2, <2>3
<1>8. Good(agent, events, io', ui')
  BY <1>2, <1>6, <1>7 DEF Inv, Good
<1> QED
  BY <1>8 DEF Inv

\* A click that sends puts requests of one kind behind what is waiting.
LEMMA Sending ==
    ASSUME NEW kind \in Kinds, NEW by \in Surfaces, Send(kind, by)
    PROVE  \E s \in Seq(Requests) : io' = Enqueue(io, s) /\ \A i \in DOMAIN s : s[i].kind = kind
<1> DEFINE kinds == <<kind>>
<1> HIDE DEF Kinds
<1>1. kinds \in Seq(Kinds) /\ \A i \in DOMAIN kinds : kinds[i] = kind
  OBVIOUS
<1>2. io' = AskFor(io, kinds, by)
  BY DEF Send
<1> HIDE DEF kinds
<1> QED
  BY <1>1, <1>2, AskForSends

\* Such a click keeps Inv: it neither shows the vault nor forgets a list.
LEMMA ClickSends ==
    ASSUME Inv, agent' = agent, events' = events, ui' \in Uis,
           ui'.early = ui.early, ui'.last = ui.last, ui'.list = ui.list, ui'.link = ui.link,
           ui'.run = ui.run, ui'.tpm = ui.tpm, ui'.preferred => ui'.mode = "Password",
           ui'.view = ui.view \/ IsUnlocked(ui.view),
           NEW kind \in Kinds, NEW by \in Surfaces, Send(kind, by),
           NEW offer, offer \in Offered(ui),
           kind \notin {"GetConfig", "Logout"} => offer \notin {"AppletIconClicked", "LogoutClicked"}
    PROVE  Inv'
<1>1. PICK s \in Seq(Requests) : io' = Enqueue(io, s) /\ \A i \in DOMAIN s : s[i].kind = kind
  BY Sending
<1>2. ~agent.subscribed /\ ~ui.early => \A i \in DOMAIN s : ~Opened(ui, s[i])
  <2> SUFFICES ASSUME ~agent.subscribed, ~ui.early, NEW i \in DOMAIN s PROVE ~Opened(ui, s[i])
    OBVIOUS
  <2>1. offer \in {"AppletIconClicked", "LogoutClicked"} /\ ui.run # "window"
    BY OfferedEarly
  <2>2. s[i].kind \in {"GetConfig", "Logout"}
    BY <1>1, <2>1
  <2> QED
    BY <2>1, <2>2 DEF Opened, Auth
<1> QED
  BY <1>1, <1>2, Clicked

\* Every operation of the user keeps Inv.
LEMMA UserStep ==
    ASSUME Inv, User
    PROVE  Inv'
<1>1. /\ agent' = agent /\ events' = events /\ ui \in Uis /\ ui.run \in RunModes
      /\ ui.preferred => ui.mode = "Password"
  BY DEF Inv, Good, User, Uis
<1>2. /\ {"Login", "Unlock", "UnlockWithPin", "Lock", "Logout", "CheckTpm", "SetupTpmPin",
          "DisableTpmPin", "GetConfig"} \subseteq Kinds
      /\ {"app", "login", "restore", SurfaceOf(ui)} \subseteq Surfaces
  BY DEF Kinds, Auth, Others, Surfaces, SurfaceOf
<1> HIDE DEF Kinds, Surfaces
<1>3. ASSUME NEW pin \in BOOLEAN, LoginSubmitted(pin) PROVE Inv'
  <2>1. ui' = [ui EXCEPT !.loginPin = pin] /\ Send("Login", "login") /\ "LoginSubmitted" \in Offered(ui)
    BY <1>3 DEF LoginSubmitted
  <2>2. /\ ui' \in Uis /\ ui'.early = ui.early /\ ui'.last = ui.last /\ ui'.list = ui.list
        /\ ui'.link = ui.link /\ ui'.run = ui.run /\ ui'.tpm = ui.tpm /\ ui'.view = ui.view
        /\ ui'.preferred => ui'.mode = "Password"
    BY <1>1, <2>1 DEF Uis
  <2> QED
    BY <1>1, <1>2, <2>1, <2>2, ClickSends
<1>4. ASSUME NEW pin \in BOOLEAN, UnlockSubmitted(pin) PROVE Inv'
  <2> DEFINE p == ui.applyPin \/ ui.run = "window"
  <2>1. p \in BOOLEAN
    BY <1>1 DEF Uis
  <2>2. /\ ui' = [ui EXCEPT !.unlockPin = pin, !.applyPin = p]
        /\ Send("Unlock", SurfaceOf(ui)) /\ "UnlockSubmitted" \in Offered(ui)
    BY <1>4 DEF UnlockSubmitted
  <2> HIDE DEF p
  <2>3. /\ ui' \in Uis /\ ui'.early = ui.early /\ ui'.last = ui.last /\ ui'.list = ui.list
        /\ ui'.link = ui.link /\ ui'.run = ui.run /\ ui'.tpm = ui.tpm /\ ui'.view = ui.view
        /\ ui'.preferred => ui'.mode = "Password"
    BY <1>1, <2>1, <2>2 DEF Uis
  <2> QED
    BY <1>1, <1>2, <2>2, <2>3, ClickSends
<1>5. ASSUME NEW offer \in Offered(ui), ui' = ui, NEW kind \in Kinds, NEW by \in Surfaces, Send(kind, by),
             kind \notin {"GetConfig", "Logout"} => offer \notin {"AppletIconClicked", "LogoutClicked"}
      PROVE  Inv'
  BY <1>1, <1>5, ClickSends
<1>6. CASE \/ PinSubmitted \/ SessionRestoreSubmitted \/ LockClicked \/ LogoutClicked
           \/ TpmSetupSubmitted \/ TpmDisableSubmitted
  BY <1>2, <1>5, <1>6 DEF PinSubmitted, SessionRestoreSubmitted, LockClicked, LogoutClicked,
                          TpmSetupSubmitted, TpmDisableSubmitted
<1>7. CASE AppletUseMasterPasswordInstead
  <2> DEFINE yes == TRUE
  <2>1. yes \in BOOLEAN /\ io' = io /\ ui' = [ui EXCEPT !.mode = "Password", !.preferred = yes]
    BY <1>7 DEF AppletUseMasterPasswordInstead
  <2> HIDE DEF yes
  <2>2. /\ ui' \in Uis /\ ui'.early = ui.early /\ ui'.last = ui.last /\ ui'.list = ui.list
        /\ ui'.link = ui.link /\ ui'.run = ui.run /\ ui'.tpm = ui.tpm /\ ui'.view = ui.view
        /\ ui'.mode = "Password"
    BY <1>1, <2>1 DEF Uis
  <2>3. <<>> \in Seq(Requests)
    OBVIOUS
  <2> QED
    BY <1>1, <2>1, <2>2, <2>3, Clicked
<1>8. CASE SettingsViewClicked \/ GeneratorViewClicked \/ SelectEntry
  <2>1. IsUnlocked(ui.view)
    BY <1>1, <1>8, OfferedUnlocked DEF SettingsViewClicked, GeneratorViewClicked, SelectEntry
  <2>2. PICK x \in {"Settings", "PasswordGenerator", "Vault"} : ui' = [ui EXCEPT !.view = x]
    BY <1>8 DEF SettingsViewClicked, GeneratorViewClicked, SelectEntry
  <2>3. /\ ui' \in Uis /\ ui'.early = ui.early /\ ui'.last = ui.last /\ ui'.list = ui.list
        /\ ui'.link = ui.link /\ ui'.run = ui.run /\ ui'.tpm = ui.tpm
        /\ ui'.preferred => ui'.mode = "Password"
    BY <1>1, <2>2 DEF Uis, Views
  <2>4. CASE SettingsViewClicked
    <3>1. Send("CheckTpm", "app") /\ "SettingsViewClicked" \in Offered(ui)
      BY <2>4 DEF SettingsViewClicked
    <3> QED
      BY <1>1, <1>2, <2>1, <2>3, <3>1, ClickSends
  <2>5. CASE io' = io
    <3>1. <<>> \in Seq(Requests)
      OBVIOUS
    <3> QED
      BY <1>1, <2>1, <2>3, <2>5, <3>1, Clicked
  <2> QED
    BY <1>8, <2>4, <2>5 DEF GeneratorViewClicked, SelectEntry
<1>9. CASE AppletIconClicked
  <2> DEFINE p == ~ui.popup
  <2>1. p \in BOOLEAN /\ ui' = [ui EXCEPT !.popup = p] /\ "AppletIconClicked" \in Offered(ui)
    BY <1>9 DEF AppletIconClicked
  <2> HIDE DEF p
  <2>2. /\ ui' \in Uis /\ ui'.early = ui.early /\ ui'.last = ui.last /\ ui'.list = ui.list
        /\ ui'.link = ui.link /\ ui'.run = ui.run /\ ui'.tpm = ui.tpm /\ ui'.view = ui.view
        /\ ui'.preferred => ui'.mode = "Password"
    BY <1>1, <2>1 DEF Uis
  <2>3. CASE io' = io
    <3>1. <<>> \in Seq(Requests)
      OBVIOUS
    <3> QED
      BY <1>1, <2>2, <2>3, <3>1, Clicked
  <2>4. CASE Send("GetConfig", "app")
    BY <1>1, <1>2, <2>1, <2>2, <2>4, ClickSends
  <2> QED
    BY <1>9, <2>3, <2>4 DEF AppletIconClicked
<1> QED
  BY <1>3, <1>4, <1>6, <1>7, <1>8, <1>9 DEF User

-----------------------------------------------------------------------------
(* The theorems *)

\* The window starts loading, with a GetConfig on its way.
LEMMA InitInv == Init => Inv
<1> SUFFICES ASSUME Init PROVE Good(agent, events, io, ui)
  BY DEF Inv
<1> DEFINE w == <<Request("GetConfig", "app")>>
           F == {FALSE}
<1>1. agent \in Agents /\ ~agent.subscribed /\ agent.epoch = 1 /\ (~agent.locked => agent.account)
  <2>1. F \subseteq BOOLEAN /\ \A x \in F : ~x
    OBVIOUS
  <2>2. /\ agent \in [locked : BOOLEAN, account : BOOLEAN, pin : BOOLEAN, epoch : {1}, list : {1},
                      notified : F, link : F, subscribed : F]
        /\ ~agent.account => agent.locked
    BY DEF Init
  <2> HIDE DEF F
  <2>3. agent \in Agents
    BY <2>1, <2>2 DEF Agents
  <2>4. agent.subscribed \in F /\ agent.epoch = 1
    BY <2>2
  <2> QED
    BY <2>1, <2>2, <2>3, <2>4
<1>2. /\ ui \in Uis /\ ui.last = 0 /\ ~ui.early /\ ~ui.tpm /\ ui.view = "Loading" /\ ~ui.preferred
  <2>1. F \subseteq BOOLEAN /\ \A x \in F : ~x
    OBVIOUS
  <2>2. ui \in [run : RunModes, view : {"Loading"}, last : {0}, account : F, tpm : F, pin : F,
                mode : {"Password"}, preferred : F, applyPin : F, unlockPin : F, loginPin : F,
                popup : F, list : {0}, link : {"none"}, early : F]
    BY DEF Init, NoEpoch, NoList
  <2> HIDE DEF F
  <2>3. ui \in Uis
    BY <2>1, <2>2 DEF Uis, Views
  <2>4. /\ ui.early \in F /\ ui.tpm \in F /\ ui.preferred \in F
        /\ ui.last = 0 /\ ui.view = "Loading"
    BY <2>2
  <2> QED
    BY <2>1, <2>3, <2>4
<1> HIDE DEF F
<1>3. events = <<>> /\ events \in Seq(Events)
  BY DEF Init
<1>4. Request("GetConfig", "app") \in Requests /\ Request("GetConfig", "app").kind = "GetConfig"
  BY DEF Request, Requests, Kinds, Surfaces
<1>5. io = [waiting |-> w, reply |-> <<>>, inbox |-> <<>>]
  BY DEF Init, NewLink
<1>6. w \in Seq(Requests) /\ DOMAIN w = {1} /\ w[1].kind = "GetConfig"
  <2> HIDE DEF Requests
  <2> QED
    BY <1>4
<1> HIDE DEF w
<1>7. io \in Links /\ io.waiting = w /\ DOMAIN io.reply = {} /\ DOMAIN io.inbox = {}
  <2> DEFINE e == <<>>
  <2>1. e \in Seq(Replies) /\ e \in Seq(Messages) /\ Len(e) <= 1 /\ DOMAIN e = {}
    <3> HIDE DEF Replies, Messages
    <3> QED
      OBVIOUS
  <2>2. io = [waiting |-> w, reply |-> e, inbox |-> e]
    BY <1>5
  <2> HIDE DEF e
  <2> QED
    BY <1>6, <2>1, <2>2 DEF Links
<1>8. ConfigsOK(agent, io)
  BY <1>7 DEF ConfigsOK
<1>9. Unsubscribed(events, io, ui)
  BY <1>2, <1>3, <1>6, <1>7 DEF Unsubscribed, Opened, IsUnlocked, Auth
<1> QED
  BY <1>1, <1>2, <1>3, <1>7, <1>8, <1>9 DEF Good, Settles

\* The inductive invariant.
THEOREM InvHolds == Spec => []Inv
<1>1. Inv /\ [Next]_vars => Inv'
  <2>1. CASE UNCHANGED vars
    BY <2>1 DEF vars, Inv
  <2> QED
    BY <2>1, ServeStep, SubscribeStep, PostStep, HandleStep, ElsewhereStep, UserStep DEF Next
<1> QED
  BY InitInv, <1>1, PTL DEF Spec

\* With nothing on its way, what the window shows is what the agent has.
LEMMA SettledShows ==
    ASSUME Inv, Settled, ~ui.early, IsUnlocked(ui.view)
    PROVE  ~agent.locked /\ ui.link # "locked" /\ ui.list = agent.list
<1>1. io \in Links /\ agent.subscribed /\ events = <<>>
  BY DEF Inv, Good, Unsubscribed, Settled
<1>2. DOMAIN io.waiting = {} /\ DOMAIN io.reply = {} /\ DOMAIN io.inbox = {} /\ DOMAIN events = {}
  <2> DEFINE w == Len(io.waiting)
             r == Len(io.reply)
             i == Len(io.inbox)
  <2>1. io.waiting \in Seq(Requests) /\ io.reply \in Seq(Replies) /\ io.inbox \in Seq(Messages)
    BY <1>1, LinkTyped
  <2> HIDE DEF Requests, Replies, Messages
  <2>2. w \in Nat /\ r \in Nat /\ i \in Nat
    BY <2>1
  <2>3. Pending(io) = w + r + i /\ Pending(io) = 0
    BY DEF Settled, Idle, Pending
  <2> HIDE DEF w, r, i
  <2>4. w = 0 /\ r = 0 /\ i = 0
    BY <2>2, <2>3
  <2> QED
    BY <1>1, <2>1, <2>4 DEF w, r, i
<1>3. ~Renewal(events, io) /\ ~Covered(agent, io, 1) /\ ~Listed(agent, io, 1)
  BY <1>2 DEF Renewal, Covered, Listed
<1>4. ViewOK(agent, io, ui)
  BY <1>1, <1>3 DEF Inv, Good, Settles
<1> QED
  BY <1>3, <1>4 DEF ViewOK

\* Once every reply and event is in, a window that shows the vault shows an unlocked
\* agent's: VaultShownOnlyUnlocked, for any number of operations and requests in flight.
THEOREM VaultShownOnlyUnlockedHolds == Spec => []VaultShownOnlyUnlocked
<1>1. Inv => VaultShownOnlyUnlocked
  BY SettledShows DEF VaultShownOnlyUnlocked
<1> QED
  BY <1>1, InvHolds, PTL

\* ... with the agent's list.
THEOREM ListSettlesHolds == Spec => []ListSettles
<1>1. Inv => ListSettles
  BY SettledShows DEF ListSettles, IsUnlocked
<1> QED
  BY <1>1, InvHolds, PTL

\* ... and a deep link that reached the lock screen was opened with it.
THEOREM DeepLinkNotLostHolds == Spec => []DeepLinkNotLost
<1>1. Inv => DeepLinkNotLost
  BY SettledShows DEF DeepLinkNotLost, IsUnlocked
<1> QED
  BY <1>1, InvHolds, PTL

\* "use master password instead" stays the form until the agent asks for a PIN.
THEOREM PreferenceKeptHolds == Spec => []PreferenceKept
<1>1. Inv => PreferenceKept
  BY DEF Inv, Good, PreferenceKept
<1> QED
  BY <1>1, InvHolds, PTL
=============================================================================
