------------------------ MODULE SurfaceLightsProofs -------------------------
(***************************************************************************)
(* What the lights of the surface promise although two threads write them  *)
(* without a lock, for any number of keys, outages, losses and edits.      *)
(*                                                                         *)
(* What a program has in store is kept by every rest of it and by what it  *)
(* is put together with, so it is shown for the blocks programs are made   *)
(* of and carried from there to every state.                               *)
(*                                                                         *)
(* The rounds of one strip (ColumnUpdate) follow at the end: what the list *)
(* of executors of a column holds, whatever is missing from it, and from   *)
(* there what a round leaves in the lights and in the text.                *)
(***************************************************************************)
EXTENDS SurfaceLights, ColumnUpdate, SequenceTheorems, TLAPS

(***************************************************************************)
(* The inductive invariant behind the safety properties.  It says what     *)
(* the rest s of a program has in store.                                   *)
(***************************************************************************)
\* A write into the cache, whether the buffer or the program has the state.
IsWrite(op) == op.do \in {"store", "restore"}
IsStore(op, l) == op.do = "store" /\ op.light = l

\* After position n the light is read and then sent, in any case.
Pays(s, n, l) ==
    \E j, m \in DOMAIN s :
        /\ n < j /\ j < m
        /\ s[j].do = "read" /\ s[j].light = l /\ s[m].do = "send"
        /\ \A k \in (n + 1)..m : s[k].do # "compare"
        /\ \A k \in (j + 1)..m : s[k].do \notin {"push", "pop"}

\* What is in the buffer is sent.
Sends(s) ==
    \E m \in DOMAIN s :
        s[m].do = "send" /\ \A k \in 1..m : s[k].do \notin {"compare", "push", "pop"}

\* Between the positions j and k the buffer is not emptied.
Keeps(s, j, k) == \A i \in (j + 1)..(k - 1) : s[i].do \notin {"send", "push"}

\* When position k is reached the buffer, that has the lights b, has the light.
Loads(s, b, k, l) ==
    \/ l \in b /\ Keeps(s, 0, k)
    \/ \E j \in 1..(k - 1) :
          /\ (s[j].do = "read" /\ s[j].light = l) \/ s[j].do = "pop"
          /\ Keeps(s, j, k)

\* The light is set before anything is compared.
Clears(s, l) ==
    \E k \in DOMAIN s : IsStore(s[k], l) /\ \A i \in 1..k : s[i].do # "compare"

BlocksFirst(s) ==
    \E k \in DOMAIN s :
        s[k].do = "block" /\ \A i \in 1..k : s[i].do \notin {"compare", "store"}

HasStore(s, l) == \E k \in DOMAIN s : IsStore(s[k], l)

\* The last state the light is set to, if it is set, is v.
SetsLast(s, l, v) ==
    \A k \in DOMAIN s :
        IsStore(s[k], l) /\ (\A j \in DOMAIN s : IsStore(s[j], l) => j <= k) => s[k].state = v

\* Whatever is written is read and sent after that, and a comparison is the
\* first of the four steps of SetSingleButton.
Regular(s) ==
    /\ \A k \in DOMAIN s : IsWrite(s[k]) => Pays(s, k, s[k].light)
    /\ \A k \in DOMAIN s : s[k].do = "compare" =>
          /\ k + 3 \in DOMAIN s
          /\ s[k + 1] = Op("store", s[k].light, s[k].state)
          /\ s[k + 2].do = "read" /\ s[k + 3].do = "send"

\* What is saved or restored is in the buffer then.
Buffered(s, b) ==
    \A k \in DOMAIN s :
        /\ s[k].do = "push" => \A l \in Lights : Loads(s, b, k, l)
        /\ s[k].do = "restore" => Loads(s, b, k, s[k].light)

Has(s, do) == \E k \in DOMAIN s : s[k].do = do
Once(s, do) == \A j, k \in DOMAIN s : s[j].do = do /\ s[k].do = do => j = k

Values == States \cup {"TRUE", "FALSE", "none"}
RefreshOps == [do : {"compare", "store", "read", "send"}, light : Lights \cup {"none"}, state : Values]
InputOps == [do : {"compare", "store", "read", "send", "push", "pop", "restore", "block"},
             light : Lights \cup {"none"}, state : Values]

WellTyped(s) ==
    \A k \in DOMAIN s :
        /\ s[k].do \in {"compare", "store", "read", "restore"} => s[k].light \in Lights
        /\ s[k].do \in {"compare", "store"} => s[k].state \in States

OpsOK ==
    /\ DOMAIN ops = Threads /\ DOMAIN buf = Threads
    /\ ops["input"] \in Seq(InputOps) /\ ops["refresh"] \in Seq(RefreshOps)
    /\ \A t \in Threads :
          /\ WellTyped(ops[t]) /\ Regular(ops[t]) /\ Buffered(ops[t], DOMAIN buf[t])
          /\ \E D \in SUBSET Lights : buf[t] \in [D -> States]

\* The lights are saved and restored in turn.
StackOK ==
    LET s == ops["input"]
    IN  /\ Once(s, "push") /\ Once(s, "pop")
        /\ Has(s, "push") => pinMode /\ Len(stack) = 0 /\ ~Has(s, "pop")
        /\ Has(s, "pop") => ~pinMode /\ Len(stack) = 1
        /\ ~Has(s, "push") /\ ~Has(s, "pop") => Len(stack) = (IF pinMode THEN 1 ELSE 0)

Owes(t, l) ==
    \/ Pays(ops[t], 0, l)
    \/ l \in DOMAIN buf[t] /\ buf[t][l] = led[l] /\ Sends(ops[t])

\* A light that is wrong on the surface is still to be sent by one of the threads.
WrongIsOwed ==
    on /\ ~rebooted /\ ~refreshNeeded =>
        \A l \in Lights \ excused : surface[l] = led[l] \/ \E t \in Threads : Owes(t, l)

Wanted(l) == IF (l = "MUTE") = pinned THEN "ON" ELSE "OFF"

\* In pin mode updates are blocked before the lights are cleared, and a light
\* that no update has raced with will end up as wanted.
PinLightsOK ==
    LET s == ops["input"]
    IN  pinMode =>
          /\ ~Has(s, "restore")
          /\ \A k \in DOMAIN s : s[k].do = "block" => s[k].state = "TRUE"
          /\ ~blockUpdates => BlocksFirst(s) /\ \A l \in Lights : Clears(s, l)
          /\ \A l \in Lights :
                /\ SetsLast(s, l, Wanted(l))
                /\ l \notin raced => HasStore(s, l) \/ led[l] = Wanted(l)
                /\ l \notin raced /\ ~Clears(s, l) => Idle("refresh")

IInv ==
    /\ TypeOK
    /\ OpsOK
    /\ StackOK
    /\ WrongIsOwed
    /\ PinLightsOK

\* t is what is left of s after n steps.
Rest(s, n, t) ==
    /\ Len(s) \in Nat /\ n \in 0..Len(s)
    /\ DOMAIN s = 1..Len(s) /\ DOMAIN t = 1..(Len(s) - n)
    /\ \A i \in 1..(Len(s) - n) : t[i] = s[n + i]

\* u is s, then t.
Joined(s, t, u) ==
    /\ Len(s) \in Nat /\ Len(t) \in Nat
    /\ DOMAIN s = 1..Len(s) /\ DOMAIN t = 1..Len(t) /\ DOMAIN u = 1..(Len(s) + Len(t))
    /\ \A i \in 1..Len(s) : u[i] = s[i]
    /\ \A i \in 1..Len(t) : u[Len(s) + i] = t[i]

LEMMA RestOfSeq ==
    ASSUME NEW S, NEW s \in Seq(S), NEW n \in 0..Len(s)
    PROVE  /\ SubSeq(s, n + 1, Len(s)) \in Seq(S)
           /\ Rest(s, n, SubSeq(s, n + 1, Len(s)))
<1> DEFINE t == SubSeq(s, n + 1, Len(s))
<1>1. Len(s) \in Nat /\ DOMAIN s = 1..Len(s) /\ n + 1 \in Int /\ Len(s) \in Int
  BY LenProperties
<1>2. \A i \in (n + 1)..Len(s) : s[i] \in S
  <2>1. \A i \in (n + 1)..Len(s) : i \in 1..Len(s)
    BY <1>1
  <2>2. QED
    BY <2>1, ElementOfSeq
<1>3. /\ t \in Seq(S)
      /\ Len(t) = IF n + 1 <= Len(s) THEN Len(s) - (n + 1) + 1 ELSE 0
      /\ \A i \in 1..(Len(s) - (n + 1) + 1) : t[i] = s[n + 1 + i - 1]
  <2> DEFINE a == n + 1
             b == Len(s)
  <2>1. a \in Int /\ b \in Int /\ \A i \in a..b : s[i] \in S
    BY <1>1, <1>2
  <2> HIDE DEF a, b, t
  <2>2. /\ SubSeq(s, a, b) \in Seq(S)
        /\ Len(SubSeq(s, a, b)) = IF a <= b THEN b - a + 1 ELSE 0
        /\ \A i \in 1..(b - a + 1) : SubSeq(s, a, b)[i] = s[a + i - 1]
    BY <2>1, SubSeqProperties
  <2>3. QED
    BY <2>2 DEF a, b, t
<1>4. DOMAIN t = 1..Len(t)
  BY <1>3, LenProperties
<1> HIDE DEF t
<1> DEFINE N == Len(s)
<1>0. N \in Nat /\ n \in Int /\ 0 <= n /\ n <= N
  BY <1>1
<1>5. Len(t) = N - n
  <2>1. Len(t) = IF n + 1 <= N THEN N - (n + 1) + 1 ELSE 0
    BY <1>3
  <2> HIDE DEF N
  <2>2. QED
    BY <1>0, <2>1
<1>6. \A i \in 1..(N - n) : t[i] = s[n + i]
  <2>1. \A i \in 1..(N - (n + 1) + 1) : t[i] = s[n + 1 + i - 1]
    BY <1>3
  <2> HIDE DEF N
  <2>2. N - (n + 1) + 1 = N - n /\ \A i \in 1..(N - n) : n + 1 + i - 1 = n + i
    BY <1>0
  <2>3. QED
    BY <2>1, <2>2
<1>7. t \in Seq(S) /\ Rest(s, n, t)
  BY <1>1, <1>3, <1>4, <1>5, <1>6 DEF Rest
<1>8. QED
  BY <1>7 DEF t

LEMMA JoinedSeq ==
    ASSUME NEW S, NEW s \in Seq(S), NEW t \in Seq(S)
    PROVE  s \o t \in Seq(S) /\ Joined(s, t, s \o t)
<1> DEFINE u == s \o t
<1>1. /\ Len(s) \in Nat /\ DOMAIN s = 1..Len(s)
      /\ Len(t) \in Nat /\ DOMAIN t = 1..Len(t)
  BY LenProperties
<1>2. /\ u \in Seq(S)
      /\ Len(u) = Len(s) + Len(t)
      /\ \A i \in 1..(Len(s) + Len(t)) :
            u[i] = IF i <= Len(s) THEN s[i] ELSE t[i - Len(s)]
  BY ConcatProperties
<1>3. DOMAIN u = 1..(Len(s) + Len(t))
  BY <1>2, LenProperties
<1> HIDE DEF u
<1>4. \A i \in 1..Len(s) : u[i] = s[i]
  BY <1>1, <1>2
<1>5. \A i \in 1..Len(t) : u[Len(s) + i] = t[i]
  BY <1>1, <1>2
<1>6. u \in Seq(S) /\ Joined(s, t, u)
  BY <1>1, <1>2, <1>3, <1>4, <1>5 DEF Joined
<1>7. QED
  BY <1>6 DEF u

-----------------------------------------------------------------------------
(***************************************************************************)
(* What a rest keeps.                                                      *)
(***************************************************************************)
LEMMA PaysRest ==
    ASSUME NEW s, NEW t, NEW n, Rest(s, n, t), NEW k \in Nat, NEW l, Pays(s, n + k, l)
    PROVE  Pays(t, k, l)
<1>1. PICK j, m \in DOMAIN s :
        /\ n + k < j /\ j < m
        /\ s[j].do = "read" /\ s[j].light = l /\ s[m].do = "send"
        /\ \A i \in (n + k + 1)..m : s[i].do # "compare"
        /\ \A i \in (j + 1)..m : s[i].do \notin {"push", "pop"}
  BY DEF Pays
<1>2. /\ j - n \in DOMAIN t /\ m - n \in DOMAIN t
      /\ k < j - n /\ j - n < m - n
      /\ t[j - n] = s[j] /\ t[m - n] = s[m]
  BY <1>1 DEF Rest
<1>3. ASSUME NEW i \in 1..(m - n)
      PROVE  t[i] = s[n + i] /\ n + i \in Int /\ n + i <= m
  BY <1>1, <1>2, <1>3 DEF Rest
<1>4. \A i \in (k + 1)..(m - n) : t[i].do # "compare"
  <2>1. ASSUME NEW i \in (k + 1)..(m - n)
        PROVE  t[i].do # "compare"
    <3>1. i \in 1..(m - n) /\ n + i \in (n + k + 1)..m
      BY <1>1, <1>2 DEF Rest
    <3>2. QED
      BY <1>1, <1>3, <3>1
  <2>2. QED
    BY <2>1
<1>5. \A i \in (j - n + 1)..(m - n) : t[i].do \notin {"push", "pop"}
  <2>1. ASSUME NEW i \in (j - n + 1)..(m - n)
        PROVE  t[i].do \notin {"push", "pop"}
    <3>1. i \in 1..(m - n) /\ n + i \in (j + 1)..m
      BY <1>1, <1>2 DEF Rest
    <3>2. QED
      BY <1>1, <1>3, <3>1
  <2>2. QED
    BY <2>1
<1>6. QED
  BY <1>1, <1>2, <1>4, <1>5 DEF Pays

LEMMA RegularRest ==
    ASSUME NEW s, NEW t, NEW n, Rest(s, n, t), Regular(s), WellTyped(s)
    PROVE  Regular(t) /\ WellTyped(t)
<1>1. \A k \in DOMAIN t : k \in Nat /\ n + k \in DOMAIN s /\ t[k] = s[n + k]
  BY DEF Rest
<1>2. ASSUME NEW k \in DOMAIN t, IsWrite(t[k])
      PROVE  Pays(t, k, t[k].light)
  <2>1. Pays(s, n + k, s[n + k].light)
    BY <1>1, <1>2 DEF Regular
  <2>2. QED
    BY <1>1, <2>1, PaysRest
<1>3. ASSUME NEW k \in DOMAIN t, t[k].do = "compare"
      PROVE  /\ k + 3 \in DOMAIN t
             /\ t[k + 1] = Op("store", t[k].light, t[k].state)
             /\ t[k + 2].do = "read" /\ t[k + 3].do = "send"
  <2>1. /\ n + k + 3 \in DOMAIN s
        /\ s[n + k + 1] = Op("store", s[n + k].light, s[n + k].state)
        /\ s[n + k + 2].do = "read" /\ s[n + k + 3].do = "send"
    BY <1>1, <1>3 DEF Regular
  <2>2. k + 1 \in DOMAIN t /\ k + 2 \in DOMAIN t /\ k + 3 \in DOMAIN t
    <3>1. k \in 1..(Len(s) - n) /\ n + k + 3 \in 1..Len(s) /\ n \in Nat /\ Len(s) \in Nat
      BY <2>1 DEF Rest
    <3>2. k + 1 \in 1..(Len(s) - n) /\ k + 2 \in 1..(Len(s) - n) /\ k + 3 \in 1..(Len(s) - n)
      BY <3>1
    <3>3. QED
      BY <3>2 DEF Rest
  <2>3. n + (k + 1) = n + k + 1 /\ n + (k + 2) = n + k + 2 /\ n + (k + 3) = n + k + 3
    BY <1>1 DEF Rest
  <2>4. QED
    BY <1>1, <2>1, <2>2, <2>3
<1>4. Regular(t)
  BY <1>2, <1>3 DEF Regular
<1>5. WellTyped(t)
  BY <1>1 DEF WellTyped
<1>6. QED
  BY <1>4, <1>5

-----------------------------------------------------------------------------
(***************************************************************************)
(* What one program after another keeps.                                   *)
(***************************************************************************)
LEMMA PaysJoined ==
    ASSUME NEW s, NEW t, NEW u, Joined(s, t, u), NEW k \in Nat, NEW l
    PROVE  /\ Pays(s, k, l) => Pays(u, k, l)
           /\ Pays(t, k, l) => Pays(u, Len(s) + k, l)
<1>1. ASSUME Pays(s, k, l)
      PROVE  Pays(u, k, l)
  <2>1. PICK j, m \in DOMAIN s :
        /\ k < j /\ j < m
        /\ s[j].do = "read" /\ s[j].light = l /\ s[m].do = "send"
        /\ \A i \in (k + 1)..m : s[i].do # "compare"
        /\ \A i \in (j + 1)..m : s[i].do \notin {"push", "pop"}
    BY <1>1 DEF Pays
  <2>2. /\ j \in DOMAIN u /\ m \in DOMAIN u
        /\ \A i \in 1..m : u[i] = s[i]
        /\ j \in 1..m /\ m \in 1..m
        /\ \A i \in (k + 1)..m : i \in 1..m
        /\ \A i \in (j + 1)..m : i \in 1..m
    BY <2>1 DEF Joined
  <2>3. QED
    BY <2>1, <2>2 DEF Pays
<1>2. ASSUME Pays(t, k, l)
      PROVE  Pays(u, Len(s) + k, l)
  <2>1. PICK j, m \in DOMAIN t :
        /\ k < j /\ j < m
        /\ t[j].do = "read" /\ t[j].light = l /\ t[m].do = "send"
        /\ \A i \in (k + 1)..m : t[i].do # "compare"
        /\ \A i \in (j + 1)..m : t[i].do \notin {"push", "pop"}
    BY <1>2 DEF Pays
  <2> DEFINE a == Len(s)
  <2>2. a \in Nat /\ j \in Nat /\ m \in Nat
    BY <2>1 DEF Joined
  <2>3. /\ a + j \in DOMAIN u /\ a + m \in DOMAIN u
        /\ u[a + j] = t[j] /\ u[a + m] = t[m]
        /\ a + k < a + j /\ a + j < a + m
    BY <2>1, <2>2 DEF Joined
  <2>4. ASSUME NEW i \in Int, a + k < i, i <= a + m
        PROVE  u[i] = t[i - a] /\ i - a \in (k + 1)..m /\ (a + j < i => i - a \in (j + 1)..m)
    <3>1. i - a \in (k + 1)..m /\ (a + j < i => i - a \in (j + 1)..m) /\ i - a \in 1..Len(t)
      BY <2>1, <2>2, <2>4 DEF Joined
    <3>2. a + (i - a) = i
      BY <2>2
    <3>3. u[a + (i - a)] = t[i - a]
      BY <3>1 DEF Joined
    <3>4. QED
      BY <3>1, <3>2, <3>3
  <2> HIDE DEF a
  <2>5. \A i \in (a + k + 1)..(a + m) : u[i].do # "compare"
    <3>1. ASSUME NEW i \in (a + k + 1)..(a + m)
          PROVE  u[i].do # "compare"
      <4>1. i \in Int /\ a + k < i /\ i <= a + m
        BY <2>2
      <4>2. QED
        BY <2>1, <2>4, <4>1
    <3>2. QED
      BY <3>1
  <2>6. \A i \in (a + j + 1)..(a + m) : u[i].do \notin {"push", "pop"}
    <3>1. ASSUME NEW i \in (a + j + 1)..(a + m)
          PROVE  u[i].do \notin {"push", "pop"}
      <4>1. i \in Int /\ a + k < i /\ a + j < i /\ i <= a + m
        BY <2>1, <2>2
      <4>2. QED
        BY <2>1, <2>4, <4>1
    <3>2. QED
      BY <3>1
  <2>7. Pays(u, a + k, l)
    BY <2>1, <2>3, <2>5, <2>6 DEF Pays
  <2>8. QED
    BY <2>7 DEF a
<1>3. QED
  BY <1>1, <1>2

LEMMA JoinedCases ==
    ASSUME NEW s, NEW t, NEW u, Joined(s, t, u)
    PROVE  /\ Len(s) \in Nat
           /\ \A k \in DOMAIN s : k \in DOMAIN u /\ k \in 1..Len(s) /\ u[k] = s[k]
           /\ \A i \in DOMAIN t :
                 i \in Nat /\ i > 0 /\ Len(s) + i \in DOMAIN u /\ u[Len(s) + i] = t[i]
           /\ \A k \in DOMAIN u :
                 k \in Nat /\ (k \in DOMAIN s \/ (k > Len(s) /\ k - Len(s) \in DOMAIN t))
           /\ \A k \in Int : k - Len(s) \in DOMAIN t => u[k] = t[k - Len(s)] /\ k > Len(s)
<1>1. \A k \in Int : Len(s) + (k - Len(s)) = k
  BY DEF Joined
<1>2. \A k \in Int : k - Len(s) \in DOMAIN t => u[k] = t[k - Len(s)] /\ k > Len(s)
  <2>1. ASSUME NEW k \in Int, k - Len(s) \in DOMAIN t
        PROVE  u[k] = t[k - Len(s)] /\ k > Len(s)
    <3>1. u[Len(s) + (k - Len(s))] = t[k - Len(s)]
      BY <2>1 DEF Joined
    <3>2. k > Len(s)
      BY <2>1 DEF Joined
    <3>3. QED
      BY <1>1, <3>1, <3>2
  <2>2. QED
    BY <2>1
<1>3. QED
  BY <1>2 DEF Joined

LEMMA RegularJoined ==
    ASSUME NEW s, NEW t, NEW u, Joined(s, t, u),
           Regular(s), WellTyped(s), Regular(t), WellTyped(t)
    PROVE  Regular(u) /\ WellTyped(u)
<1> DEFINE a == Len(s)
<1>1. /\ a \in Nat
      /\ \A k \in DOMAIN s : k \in DOMAIN u /\ k \in 1..a /\ u[k] = s[k]
      /\ \A i \in DOMAIN t : i \in Nat /\ a + i \in DOMAIN u /\ u[a + i] = t[i]
      /\ \A k \in DOMAIN u : k \in Nat /\ (k \in DOMAIN s \/ (k > a /\ k - a \in DOMAIN t))
      /\ \A k \in Int : k - a \in DOMAIN t => u[k] = t[k - a]
  BY JoinedCases
<1>2. ASSUME NEW k \in Nat, NEW l
      PROVE  /\ Pays(s, k, l) => Pays(u, k, l)
             /\ Pays(t, k, l) => Pays(u, a + k, l)
  BY PaysJoined
<1> HIDE DEF a
<1>3. ASSUME NEW k \in DOMAIN u
      PROVE  /\ IsWrite(u[k]) => Pays(u, k, u[k].light)
             /\ u[k].do = "compare" =>
                   /\ k + 3 \in DOMAIN u
                   /\ u[k + 1] = Op("store", u[k].light, u[k].state)
                   /\ u[k + 2].do = "read" /\ u[k + 3].do = "send"
  <2>1. CASE k \in DOMAIN s
    <3>1. IsWrite(u[k]) => Pays(u, k, u[k].light)
      BY <1>1, <1>2, <2>1 DEF Regular
    <3>2. ASSUME u[k].do = "compare"
          PROVE  /\ k + 3 \in DOMAIN u
                 /\ u[k + 1] = Op("store", u[k].light, u[k].state)
                 /\ u[k + 2].do = "read" /\ u[k + 3].do = "send"
      <4>1. /\ k + 3 \in DOMAIN s
            /\ s[k + 1] = Op("store", s[k].light, s[k].state)
            /\ s[k + 2].do = "read" /\ s[k + 3].do = "send"
        BY <1>1, <2>1, <3>2 DEF Regular
      <4>2. k + 1 \in DOMAIN s /\ k + 2 \in DOMAIN s
        BY <2>1, <4>1 DEF Joined
      <4>3. QED
        BY <1>1, <2>1, <4>1, <4>2
    <3>3. QED
      BY <3>1, <3>2
  <2>2. CASE k \notin DOMAIN s
    <3> DEFINE i == k - a
    <3>1. i \in DOMAIN t /\ i \in Nat /\ a + i = k /\ u[k] = t[i]
      BY <1>1, <2>2
    <3> HIDE DEF i
    <3>2. IsWrite(u[k]) => Pays(u, k, u[k].light)
      BY <1>2, <3>1 DEF Regular
    <3>3. ASSUME u[k].do = "compare"
          PROVE  /\ k + 3 \in DOMAIN u
                 /\ u[k + 1] = Op("store", u[k].light, u[k].state)
                 /\ u[k + 2].do = "read" /\ u[k + 3].do = "send"
      <4>1. /\ i + 3 \in DOMAIN t
            /\ t[i + 1] = Op("store", t[i].light, t[i].state)
            /\ t[i + 2].do = "read" /\ t[i + 3].do = "send"
        BY <3>1, <3>3 DEF Regular
      <4>2. i + 1 \in DOMAIN t /\ i + 2 \in DOMAIN t
        BY <3>1, <4>1 DEF Joined
      <4>3. /\ a + (i + 1) = k + 1 /\ a + (i + 2) = k + 2 /\ a + (i + 3) = k + 3
        BY <1>1, <3>1
      <4>4. QED
        BY <1>1, <3>1, <4>1, <4>2, <4>3
    <3>4. QED
      BY <3>2, <3>3
  <2>3. QED
    BY <2>1, <2>2
<1>4. Regular(u)
  BY <1>3 DEF Regular
<1>5. WellTyped(u)
  <2>1. \A k \in DOMAIN u : (k \in DOMAIN s /\ u[k] = s[k])
                               \/ (k - a \in DOMAIN t /\ u[k] = t[k - a])
    BY <1>1
  <2>2. QED
    BY <2>1 DEF WellTyped
<1>6. QED
  BY <1>4, <1>5

-----------------------------------------------------------------------------
(***************************************************************************)
(* What is in the buffer when it is needed.                                *)
(***************************************************************************)
LEMMA LoadsJoined ==
    ASSUME NEW s, NEW t, NEW u, Joined(s, t, u), NEW l
    PROVE  /\ \A k \in DOMAIN s : Loads(s, {}, k, l) => Loads(u, {}, k, l)
           /\ \A k \in DOMAIN t : Loads(t, {}, k, l) => Loads(u, {}, Len(s) + k, l)
<1> DEFINE a == Len(s)
<1>1. /\ a \in Nat
      /\ DOMAIN s = 1..a
      /\ \A k \in 1..a : u[k] = s[k]
      /\ \A i \in DOMAIN t : i \in Nat /\ u[a + i] = t[i]
      /\ Len(t) \in Nat /\ DOMAIN t = 1..Len(t)
  BY DEF Joined
<1> HIDE DEF a
<1>2. ASSUME NEW k \in DOMAIN s, Loads(s, {}, k, l)
      PROVE  Loads(u, {}, k, l)
  <2>1. PICK j \in 1..(k - 1) :
          /\ (s[j].do = "read" /\ s[j].light = l) \/ s[j].do = "pop"
          /\ \A i \in (j + 1)..(k - 1) : s[i].do \notin {"send", "push"}
    BY <1>2 DEF Loads, Keeps
  <2>2. j \in 1..a /\ \A i \in (j + 1)..(k - 1) : i \in 1..a
    BY <1>1
  <2>3. u[j] = s[j] /\ \A i \in (j + 1)..(k - 1) : u[i].do \notin {"send", "push"}
    BY <1>1, <2>1, <2>2
  <2>4. QED
    BY <2>1, <2>3 DEF Loads, Keeps
<1>3. ASSUME NEW k \in DOMAIN t, Loads(t, {}, k, l)
      PROVE  Loads(u, {}, a + k, l)
  <2>1. PICK j \in 1..(k - 1) :
          /\ (t[j].do = "read" /\ t[j].light = l) \/ t[j].do = "pop"
          /\ \A i \in (j + 1)..(k - 1) : t[i].do \notin {"send", "push"}
    BY <1>3 DEF Loads, Keeps
  <2>2. j \in DOMAIN t /\ k \in Nat /\ j \in Nat
    BY <1>1
  <2>3. a + j \in 1..(a + k - 1) /\ u[a + j] = t[j]
    BY <1>1, <2>1, <2>2
  <2>4. ASSUME NEW i \in (a + j + 1)..(a + k - 1)
        PROVE  u[i].do \notin {"send", "push"}
    <3>1. i - a \in (j + 1)..(k - 1) /\ i - a \in DOMAIN t /\ a + (i - a) = i
      BY <1>1, <2>1, <2>2
    <3>2. u[i] = t[i - a]
      BY <1>1, <3>1
    <3>3. QED
      BY <2>1, <3>1, <3>2
  <2>5. Keeps(u, a + j, a + k)
    BY <1>1, <2>2, <2>4 DEF Keeps
  <2>6. QED
    BY <1>1, <2>1, <2>2, <2>3, <2>5 DEF Loads
<1>4. QED
  BY <1>2, <1>3 DEF a

LEMMA BufferedJoined ==
    ASSUME NEW s, NEW t, NEW u, Joined(s, t, u), Buffered(s, {}), Buffered(t, {})
    PROVE  Buffered(u, {})
<1> DEFINE a == Len(s)
<1>1. /\ \A k \in DOMAIN s : u[k] = s[k]
      /\ \A k \in DOMAIN u : k \in Nat /\ (k \in DOMAIN s \/ (k > a /\ k - a \in DOMAIN t))
      /\ \A k \in Int : k - a \in DOMAIN t => u[k] = t[k - a]
      /\ a \in Nat
  BY JoinedCases
<1>2. ASSUME NEW l
      PROVE  /\ \A k \in DOMAIN s : Loads(s, {}, k, l) => Loads(u, {}, k, l)
             /\ \A k \in DOMAIN t : Loads(t, {}, k, l) => Loads(u, {}, a + k, l)
  BY LoadsJoined
<1> HIDE DEF a
<1>3. ASSUME NEW k \in DOMAIN u
      PROVE  /\ u[k].do = "push" => \A l \in Lights : Loads(u, {}, k, l)
             /\ u[k].do = "restore" => Loads(u, {}, k, u[k].light)
  <2>1. CASE k \in DOMAIN s
    BY <1>1, <1>2, <2>1 DEF Buffered
  <2>2. CASE k \notin DOMAIN s
    <3>1. k - a \in DOMAIN t /\ u[k] = t[k - a] /\ a + (k - a) = k
      BY <1>1, <2>2
    <3>2. QED
      BY <1>2, <3>1 DEF Buffered
  <2>3. QED
    BY <2>1, <2>2
<1>4. QED
  BY <1>3 DEF Buffered

\* After one step, if the buffer b2 then has what it had and what was read.
LEMMA BufferedStep ==
    ASSUME NEW s, NEW t, Rest(s, 1, t), NEW b, NEW b2, Buffered(s, b), WellTyped(s),
           s[1].do \notin {"send", "push"} => b \subseteq b2,
           s[1].do = "read" => s[1].light \in b2,
           s[1].do = "pop" => Lights \subseteq b2
    PROVE  Buffered(t, b2)
<1>1. \A k \in DOMAIN t : k \in Nat /\ k > 0 /\ k + 1 \in DOMAIN s /\ t[k] = s[k + 1]
  BY DEF Rest
<1>2. ASSUME NEW k \in DOMAIN t, NEW l \in Lights, Loads(s, b, k + 1, l)
      PROVE  Loads(t, b2, k, l)
  <2>1. \A i \in 1..(k - 1) : t[i] = s[i + 1]
    BY <1>1 DEF Rest
  <2>2. CASE l \in b /\ Keeps(s, 0, k + 1)
    <3>1. \A i \in 1..k : s[i].do \notin {"send", "push"}
      BY <1>1, <2>2 DEF Keeps
    <3>2. l \in b2
      BY <1>1, <2>2, <3>1
    <3>3. \A i \in 1..(k - 1) : t[i].do \notin {"send", "push"}
      <4>1. \A i \in 1..(k - 1) : i + 1 \in 1..k
        BY <1>1
      <4>2. QED
        BY <2>1, <3>1, <4>1
    <3>4. QED
      BY <3>2, <3>3 DEF Loads, Keeps
  <2>3. ASSUME NEW j \in 1..k,
               (s[j].do = "read" /\ s[j].light = l) \/ s[j].do = "pop",
               Keeps(s, j, k + 1)
        PROVE  Loads(t, b2, k, l)
    <3>1. \A i \in (j + 1)..k : s[i].do \notin {"send", "push"}
      BY <1>1, <2>3 DEF Keeps
    <3>2. \A i \in 1..(k - 1) : j <= i => t[i].do \notin {"send", "push"}
      <4>1. \A i \in 1..(k - 1) : j <= i => i + 1 \in (j + 1)..k
        BY <1>1
      <4>2. QED
        BY <2>1, <3>1, <4>1
    <3>3. CASE j = 1
      <4>1. l \in b2
        BY <2>3, <3>3
      <4>2. Keeps(t, 0, k)
        BY <1>1, <3>2, <3>3 DEF Keeps
      <4>3. QED
        BY <4>1, <4>2 DEF Loads
    <3>4. CASE j # 1
      <4>1. j - 1 \in 1..(k - 1) /\ j - 1 + 1 = j
        BY <1>1, <3>4
      <4>2. t[j - 1] = s[j]
        BY <2>1, <4>1
      <4>3. Keeps(t, j - 1, k)
        BY <1>1, <3>2, <4>1 DEF Keeps
      <4>4. QED
        BY <2>3, <4>1, <4>2, <4>3 DEF Loads
    <3>5. QED
      BY <3>3, <3>4
  <2>4. k + 1 - 1 = k
    BY <1>1
  <2>5. \/ l \in b /\ Keeps(s, 0, k + 1)
        \/ \E j \in 1..k : /\ (s[j].do = "read" /\ s[j].light = l) \/ s[j].do = "pop"
                           /\ Keeps(s, j, k + 1)
    BY <1>1, <1>2 DEF Loads
  <2>6. QED
    BY <2>2, <2>3, <2>5
<1>3. ASSUME NEW k \in DOMAIN t
      PROVE  /\ t[k].do = "push" => \A l \in Lights : Loads(t, b2, k, l)
             /\ t[k].do = "restore" => Loads(t, b2, k, t[k].light)
  BY <1>1, <1>2 DEF Buffered, WellTyped
<1>4. QED
  BY <1>3 DEF Buffered

\* After a comparison that finds nothing to do.
LEMMA BufferedSkip ==
    ASSUME NEW s, NEW t, Rest(s, 4, t), NEW b, NEW b2, Buffered(s, b), s[4].do = "send"
    PROVE  Buffered(t, b2)
<1>1. \A k \in DOMAIN t : k \in Nat /\ k > 0 /\ k + 4 \in DOMAIN s /\ t[k] = s[k + 4]
  BY DEF Rest
<1>2. ASSUME NEW k \in DOMAIN t, NEW l, Loads(s, b, k + 4, l)
      PROVE  Loads(t, b2, k, l)
  <2>1. k + 4 - 1 = k + 3 /\ k \in Nat /\ k > 0
    BY <1>1
  <2>2. ~Keeps(s, 0, k + 4)
    <3>1. 4 \in (0 + 1)..(k + 3)
      BY <2>1
    <3>2. QED
      BY <2>1, <3>1 DEF Keeps
  <2>3. PICK j \in 1..(k + 3) :
          /\ (s[j].do = "read" /\ s[j].light = l) \/ s[j].do = "pop"
          /\ Keeps(s, j, k + 4)
    BY <1>2, <2>1, <2>2 DEF Loads
  <2>4. \A i \in (j + 1)..(k + 3) : s[i].do \notin {"send", "push"}
    BY <2>1, <2>3 DEF Keeps
  <2>5. j > 4
    <3>1. j # 4
      BY <2>3
    <3>2. ~(j < 4)
      <4>1. j < 4 => 4 \in (j + 1)..(k + 3)
        BY <2>1
      <4>2. QED
        BY <2>4, <4>1
    <3>3. QED
      BY <3>1, <3>2
  <2>6. j - 4 \in 1..(k - 1) /\ j - 4 + 4 = j
    BY <2>1, <2>5
  <2>7. \A i \in 1..k : t[i] = s[i + 4]
    BY <1>1 DEF Rest
  <2>8. t[j - 4] = s[j]
    <3>1. j - 4 \in 1..k
      BY <2>1, <2>6
    <3>2. QED
      BY <2>6, <2>7, <3>1
  <2>9. Keeps(t, j - 4, k)
    <3>1. \A i \in (j - 4 + 1)..(k - 1) : i \in 1..k /\ i + 4 \in (j + 1)..(k + 3)
      BY <2>1, <2>6
    <3>2. QED
      BY <2>4, <2>7, <3>1 DEF Keeps
  <2>10. QED
    BY <2>3, <2>6, <2>8, <2>9 DEF Loads
<1>3. QED
  BY <1>1, <1>2 DEF Buffered

-----------------------------------------------------------------------------
(***************************************************************************)
(* What a program can be put together from.                                *)
(***************************************************************************)
Sound(s) == s \in Seq(InputOps) /\ WellTyped(s) /\ Regular(s) /\ Buffered(s, {})

Only(s, D) == \A k \in DOMAIN s : s[k].do \in D

LEMMA SoundJoined ==
    ASSUME NEW s, NEW t, Sound(s), Sound(t)
    PROVE  Sound(s \o t) /\ Joined(s, t, s \o t)
<1>1. s \o t \in Seq(InputOps) /\ Joined(s, t, s \o t)
  BY JoinedSeq DEF Sound
<1>2. QED
  BY <1>1, RegularJoined, BufferedJoined DEF Sound

LEMMA OnlyJoined ==
    ASSUME NEW s, NEW t, NEW u, Joined(s, t, u), NEW D, Only(s, D), Only(t, D)
    PROVE  Only(u, D)
BY JoinedCases DEF Only

LEMMA HasJoined ==
    ASSUME NEW s, NEW t, NEW u, Joined(s, t, u), NEW do
    PROVE  /\ Has(u, do) <=> Has(s, do) \/ Has(t, do)
           /\ Once(s, do) /\ ~Has(t, do) => Once(u, do)
           /\ Once(t, do) /\ ~Has(s, do) => Once(u, do)
<1> DEFINE a == Len(s)
<1>1. /\ a \in Nat
      /\ \A k \in DOMAIN s : k \in DOMAIN u /\ u[k] = s[k]
      /\ \A i \in DOMAIN t : i \in Nat /\ a + i \in DOMAIN u /\ u[a + i] = t[i]
      /\ \A k \in DOMAIN u : k \in Nat /\ (k \in DOMAIN s \/ (k > a /\ k - a \in DOMAIN t))
      /\ \A k \in Int : k - a \in DOMAIN t => u[k] = t[k - a]
  BY JoinedCases
<1> HIDE DEF a
<1>2. \A k \in DOMAIN u : \/ k \in DOMAIN s /\ u[k] = s[k]
                          \/ k - a \in DOMAIN t /\ u[k] = t[k - a]
  BY <1>1
<1>3. Has(u, do) <=> Has(s, do) \/ Has(t, do)
  <2>1. Has(s, do) => Has(u, do)
    BY <1>1 DEF Has
  <2>2. Has(t, do) => Has(u, do)
    BY <1>1 DEF Has
  <2>3. Has(u, do) => Has(s, do) \/ Has(t, do)
    BY <1>2 DEF Has
  <2>4. QED
    BY <2>1, <2>2, <2>3
<1>4. ASSUME Once(s, do), ~Has(t, do)
      PROVE  Once(u, do)
  <2>1. \A k \in DOMAIN u : u[k].do = do => k \in DOMAIN s /\ s[k].do = do
    BY <1>2, <1>4 DEF Has
  <2>2. QED
    BY <1>4, <2>1 DEF Once
<1>5. ASSUME Once(t, do), ~Has(s, do)
      PROVE  Once(u, do)
  <2>1. \A k \in DOMAIN u : u[k].do = do => k - a \in DOMAIN t /\ t[k - a].do = do /\ k \in Nat
    BY <1>1, <1>2, <1>5 DEF Has
  <2>2. ASSUME NEW j \in DOMAIN u, NEW k \in DOMAIN u, u[j].do = do, u[k].do = do
        PROVE  j = k
    <3>1. j - a = k - a /\ j \in Nat /\ k \in Nat
      BY <1>5, <2>1, <2>2 DEF Once
    <3>2. QED
      BY <1>1, <3>1
  <2>3. QED
    BY <2>2 DEF Once
<1>6. QED
  BY <1>3, <1>4, <1>5

\* What the later of two programs does to a light counts, if it sets it.
LEMMA StoresJoined ==
    ASSUME NEW s, NEW t, NEW u, Joined(s, t, u), NEW l
    PROVE  /\ HasStore(t, l) => HasStore(u, l)
           /\ \A v : HasStore(t, l) /\ SetsLast(t, l, v) => SetsLast(u, l, v)
           /\ Clears(s, l) => Clears(u, l)
           /\ Clears(t, l) /\ ~Has(s, "compare") => Clears(u, l)
<1> DEFINE a == Len(s)
<1>1. /\ a \in Nat /\ DOMAIN s = 1..a /\ DOMAIN t = 1..Len(t) /\ Len(t) \in Nat
      /\ \A k \in 1..a : k \in DOMAIN u /\ u[k] = s[k]
      /\ \A i \in DOMAIN t : i \in Nat /\ i > 0 /\ a + i \in DOMAIN u /\ u[a + i] = t[i]
      /\ \A k \in DOMAIN u : k \in Nat /\ (k \in DOMAIN s \/ (k > a /\ k - a \in DOMAIN t))
      /\ \A k \in Int : k - a \in DOMAIN t => u[k] = t[k - a]
  <2>1. /\ a \in Nat /\ DOMAIN s = 1..a /\ DOMAIN t = 1..Len(t) /\ Len(t) \in Nat
    BY DEF Joined
  <2>2. QED
    BY <2>1, JoinedCases
<1> HIDE DEF a
<1>2. HasStore(t, l) => HasStore(u, l)
  BY <1>1 DEF HasStore
<1>3. ASSUME NEW v, HasStore(t, l), SetsLast(t, l, v)
      PROVE  SetsLast(u, l, v)
  <2>1. PICK i \in DOMAIN t : IsStore(t[i], l)
    BY <1>3 DEF HasStore
  <2>2. ASSUME NEW k \in DOMAIN u, IsStore(u[k], l),
               \A j \in DOMAIN u : IsStore(u[j], l) => j <= k
        PROVE  u[k].state = v
    <3>1. a + i <= k
      BY <1>1, <2>1, <2>2
    <3>2. k - a \in DOMAIN t /\ u[k] = t[k - a]
      BY <1>1, <2>1, <3>1
    <3>3. ASSUME NEW j \in DOMAIN t, IsStore(t[j], l)
          PROVE  j <= k - a
      <4>1. a + j <= k /\ k \in Nat /\ j \in Nat
        BY <1>1, <2>2, <3>3
      <4>2. QED
        BY <1>1, <4>1
    <3>4. QED
      BY <1>3, <2>2, <3>2, <3>3 DEF SetsLast
  <2>3. QED
    BY <2>2 DEF SetsLast
<1>4. ASSUME Clears(s, l)
      PROVE  Clears(u, l)
  <2>1. PICK k \in DOMAIN s : IsStore(s[k], l) /\ \A i \in 1..k : s[i].do # "compare"
    BY <1>4 DEF Clears
  <2>2. k \in DOMAIN u /\ u[k] = s[k] /\ \A i \in 1..k : u[i] = s[i]
    BY <1>1
  <2>3. QED
    BY <2>1, <2>2 DEF Clears
<1>5. ASSUME Clears(t, l), ~Has(s, "compare")
      PROVE  Clears(u, l)
  <2>1. PICK k \in DOMAIN t : IsStore(t[k], l) /\ \A i \in 1..k : t[i].do # "compare"
    BY <1>5 DEF Clears
  <2>2. a + k \in DOMAIN u /\ u[a + k] = t[k] /\ k \in Nat /\ k <= Len(t)
    BY <1>1
  <2>3. ASSUME NEW i \in 1..(a + k)
        PROVE  u[i].do # "compare"
    <3>1. CASE i <= a
      <4>1. i \in DOMAIN s /\ u[i] = s[i]
        BY <1>1, <3>1
      <4>2. QED
        BY <1>5, <4>1 DEF Has
    <3>2. CASE ~(i <= a)
      <4>1. i - a \in 1..k /\ i - a \in DOMAIN t
        BY <1>1, <2>2, <3>2
      <4>2. u[i] = t[i - a]
        BY <1>1, <4>1
      <4>3. QED
        BY <2>1, <4>1, <4>2
    <3>3. QED
      BY <3>1, <3>2
  <2>4. QED
    BY <2>1, <2>2, <2>3 DEF Clears
<1>6. QED
  BY <1>2, <1>3, <1>4, <1>5

LEMMA BlocksFirstJoined ==
    ASSUME NEW s, NEW t, NEW u, Joined(s, t, u)
    PROVE  /\ BlocksFirst(s) => BlocksFirst(u)
           /\ BlocksFirst(t) /\ Only(s, {"read", "send"}) => BlocksFirst(u)
<1> DEFINE a == Len(s)
<1>1. /\ a \in Nat /\ DOMAIN s = 1..a /\ DOMAIN t = 1..Len(t) /\ Len(t) \in Nat
      /\ \A k \in 1..a : k \in DOMAIN u /\ u[k] = s[k]
      /\ \A i \in DOMAIN t : i \in Nat /\ i > 0 /\ a + i \in DOMAIN u /\ u[a + i] = t[i]
      /\ \A k \in Int : k - a \in DOMAIN t => u[k] = t[k - a]
  <2>1. /\ a \in Nat /\ DOMAIN s = 1..a /\ DOMAIN t = 1..Len(t) /\ Len(t) \in Nat
    BY DEF Joined
  <2>2. QED
    BY <2>1, JoinedCases
<1> HIDE DEF a
<1>2. ASSUME BlocksFirst(s)
      PROVE  BlocksFirst(u)
  <2>1. PICK k \in DOMAIN s :
           s[k].do = "block" /\ \A i \in 1..k : s[i].do \notin {"compare", "store"}
    BY <1>2 DEF BlocksFirst
  <2>2. k \in DOMAIN u /\ u[k] = s[k] /\ \A i \in 1..k : u[i] = s[i]
    BY <1>1
  <2>3. QED
    BY <2>1, <2>2 DEF BlocksFirst
<1>3. ASSUME BlocksFirst(t), Only(s, {"read", "send"})
      PROVE  BlocksFirst(u)
  <2>1. PICK k \in DOMAIN t :
           t[k].do = "block" /\ \A i \in 1..k : t[i].do \notin {"compare", "store"}
    BY <1>3 DEF BlocksFirst
  <2>2. a + k \in DOMAIN u /\ u[a + k] = t[k] /\ k \in Nat /\ k <= Len(t)
    BY <1>1
  <2>3. ASSUME NEW i \in 1..(a + k)
        PROVE  u[i].do \notin {"compare", "store"}
    <3>1. CASE i <= a
      <4>1. i \in DOMAIN s /\ u[i] = s[i]
        BY <1>1, <3>1
      <4>2. QED
        BY <1>3, <4>1 DEF Only
    <3>2. CASE ~(i <= a)
      <4>1. i - a \in 1..k /\ i - a \in DOMAIN t
        BY <1>1, <2>2, <3>2
      <4>2. u[i] = t[i - a]
        BY <1>1, <4>1
      <4>3. QED
        BY <2>1, <4>1, <4>2
    <3>3. QED
      BY <3>1, <3>2
  <2>4. QED
    BY <2>1, <2>2, <2>3 DEF BlocksFirst
<1>4. QED
  BY <1>2, <1>3

-----------------------------------------------------------------------------
(***************************************************************************)
(* The blocks programs are made of.                                        *)
(***************************************************************************)
LEMMA LightsAre ==
    /\ DOMAIN LightOrder = 1..2 /\ LightOrder[1] = "MUTE" /\ LightOrder[2] = "SELECT"
    /\ Lights = {"MUTE", "SELECT"}
<1>1. DOMAIN LightOrder = 1..2 /\ LightOrder[1] = "MUTE" /\ LightOrder[2] = "SELECT"
  BY DEF LightOrder
<1>2. \A i \in 1..2 : i = 1 \/ i = 2
  OBVIOUS
<1>3. Lights = {LightOrder[i] : i \in 1..2}
  BY <1>1 DEF Lights, ToSet
<1>4. Lights = {"MUTE", "SELECT"}
  BY <1>1, <1>2, <1>3
<1>5. QED
  BY <1>1, <1>4

LEMMA OpType ==
    ASSUME NEW do, NEW l \in Lights \cup {"none"}, NEW v \in Values
    PROVE  /\ Op(do, l, v).do = do /\ Op(do, l, v).light = l /\ Op(do, l, v).state = v
           /\ do \in {"compare", "store", "read", "send", "push", "pop", "restore", "block"} =>
                 Op(do, l, v) \in InputOps
           /\ do \in {"compare", "store", "read", "send"} => Op(do, l, v) \in RefreshOps
BY DEF Op, InputOps, RefreshOps

LEMMA SingleOp ==
    ASSUME NEW op \in InputOps
    PROVE  /\ <<op>> \in Seq(InputOps) /\ DOMAIN <<op>> = 1..1 /\ <<op>>[1] = op
           /\ \A k \in 1..1 : k = 1
OBVIOUS

LEMMA EachLight ==
    ASSUME NEW do \in {"store", "read", "restore"}, NEW v \in Values,
           do = "store" => v \in States
    PROVE  LET f == ForEachLight(do, v)
           IN  /\ f \in Seq(InputOps) /\ DOMAIN f = 1..2 /\ Len(f) = 2
               /\ f[1] = Op(do, "MUTE", v) /\ f[2] = Op(do, "SELECT", v)
               /\ WellTyped(f) /\ Only(f, {do})
<1> DEFINE f == ForEachLight(do, v)
           g == <<Op(do, "MUTE", v), Op(do, "SELECT", v)>>
<1>1. \A l \in Lights : /\ Op(do, l, v) \in InputOps
                        /\ Op(do, l, v).do = do /\ Op(do, l, v).light = l
                        /\ Op(do, l, v).state = v
  BY OpType
<1>2. \A i \in 1..2 : i = 1 \/ i = 2
  OBVIOUS
<1>3. g \in Seq(InputOps) /\ DOMAIN g = 1..2 /\ Len(g) = 2
      /\ g[1] = Op(do, "MUTE", v) /\ g[2] = Op(do, "SELECT", v)
  BY <1>1, LightsAre
<1>4. f = g
  <2>1. f = [i \in 1..2 |-> Op(do, LightOrder[i], v)]
    BY LightsAre DEF ForEachLight
  <2>2. \A i \in 1..2 : g[i] = Op(do, LightOrder[i], v)
    BY <1>2, <1>3, LightsAre
  <2>3. g = [i \in 1..2 |-> g[i]]
    OBVIOUS
  <2> HIDE DEF f, g
  <2>4. QED
    BY <2>1, <2>2, <2>3
<1> HIDE DEF f, g
<1>5. \A k \in DOMAIN g : \E l \in Lights : g[k] = Op(do, l, v)
  BY <1>2, <1>3, LightsAre
<1>6. WellTyped(g) /\ Only(g, {do})
  <2>1. \A k \in DOMAIN g : g[k].do = do /\ g[k].light \in Lights /\ g[k].state = v
    BY <1>1, <1>5
  <2>2. QED
    BY <2>1 DEF WellTyped, Only
<1>7. QED
  BY <1>3, <1>4, <1>6 DEF f

LEMMA SendAllShape ==
    LET s == SendAllButtons
    IN  /\ Sound(s) /\ Only(s, {"read", "send"})
        /\ \A l \in Lights : Pays(s, 0, l)
<1> DEFINE f == ForEachLight("read", "none")
           e == Op("send", "none", "none")
           s == SendAllButtons
<1>1. /\ f \in Seq(InputOps) /\ DOMAIN f = 1..2 /\ Len(f) = 2
      /\ f[1] = Op("read", "MUTE", "none") /\ f[2] = Op("read", "SELECT", "none")
      /\ WellTyped(f) /\ Only(f, {"read"})
  <2>1. "read" \in {"store", "read", "restore"} /\ "none" \in Values /\ "read" # "store"
    BY DEF Values
  <2>2. QED
    BY <2>1, EachLight
<1>2. /\ e \in InputOps /\ e.do = "send"
      /\ Op("read", "MUTE", "none").do = "read" /\ Op("read", "MUTE", "none").light = "MUTE"
      /\ Op("read", "SELECT", "none").do = "read" /\ Op("read", "SELECT", "none").light = "SELECT"
  <2>1. /\ "none" \in Values /\ "none" \in Lights \cup {"none"}
        /\ "MUTE" \in Lights \cup {"none"} /\ "SELECT" \in Lights \cup {"none"}
    BY LightsAre DEF Values
  <2>2. e \in InputOps /\ e.do = "send"
    BY <2>1, OpType
  <2>3. QED
    BY <2>1, <2>2, OpType
<1> HIDE DEF e
<1>3. /\ <<e>> \in Seq(InputOps) /\ DOMAIN <<e>> = 1..1 /\ <<e>>[1] = e /\ Len(<<e>>) = 1
      /\ \A k \in 1..1 : k = 1
  BY <1>2, SingleOp
<1>4. s = f \o <<e>>
  BY DEF SendAllButtons, e
<1> HIDE DEF f, s
<1>5. s \in Seq(InputOps) /\ Joined(f, <<e>>, s)
  BY <1>1, <1>3, <1>4, JoinedSeq
<1>6. /\ DOMAIN s = 1..3 /\ s[3] = e
      /\ s[1] = Op("read", "MUTE", "none") /\ s[2] = Op("read", "SELECT", "none")
  <2>1. DOMAIN s = 1..(2 + 1) /\ s[2 + 1] = <<e>>[1] /\ \A i \in 1..2 : s[i] = f[i]
    BY <1>1, <1>3, <1>5 DEF Joined
  <2>2. QED
    BY <1>1, <1>3, <2>1
<1>7. \A k \in DOMAIN s : k = 1 \/ k = 2 \/ k = 3
  BY <1>6
<1>8. /\ s[1].do = "read" /\ s[1].light = "MUTE"
      /\ s[2].do = "read" /\ s[2].light = "SELECT"
      /\ s[3].do = "send"
  BY <1>2, <1>6
<1>9. Only(s, {"read", "send"}) /\ WellTyped(s) /\ Regular(s) /\ Buffered(s, {})
  <2>1. \A k \in DOMAIN s : s[k].do \in {"read", "send"} /\ (s[k].do = "read" => s[k].light \in Lights)
    BY <1>7, <1>8, LightsAre
  <2>2. QED
    BY <2>1 DEF Only, WellTyped, Regular, Buffered, IsWrite
<1>10. ASSUME NEW l \in Lights
       PROVE  Pays(s, 0, l)
  <2>1. /\ \A k \in 1..3 : s[k].do # "compare" /\ s[k].do \notin {"push", "pop"}
        /\ \A i \in {2, 3} : \A k \in i..3 : k \in 1..3
    BY <1>7, <1>8, <1>6
  <2>2. CASE l = "MUTE"
    <3>1. 0 < 1 /\ 1 < 3 /\ 1 \in DOMAIN s /\ 3 \in DOMAIN s /\ 1 + 1 = 2 /\ 0 + 1 = 1
      BY <1>6
    <3>2. QED
      BY <1>8, <2>1, <2>2, <3>1 DEF Pays
  <2>3. CASE l = "SELECT"
    <3>1. 0 < 2 /\ 2 < 3 /\ 2 \in DOMAIN s /\ 3 \in DOMAIN s /\ 2 + 1 = 3 /\ 0 + 1 = 1
      BY <1>6
    <3>2. QED
      BY <1>8, <2>1, <2>3, <3>1 DEF Pays
  <2>4. QED
    BY <2>2, <2>3, LightsAre
<1>11. QED
  BY <1>5, <1>9, <1>10 DEF Sound, s

\* Whatever is written before all lights are sent is sent.
LEMMA ThenSendAll ==
    ASSUME NEW a \in Seq(InputOps), WellTyped(a), ~Has(a, "compare"), Buffered(a, {})
    PROVE  Sound(a \o SendAllButtons) /\ Joined(a, SendAllButtons, a \o SendAllButtons)
<1> DEFINE b == SendAllButtons
           u == a \o b
           n == Len(a)
<1>1. Sound(b) /\ Only(b, {"read", "send"}) /\ \A l \in Lights : Pays(b, 0, l)
  BY SendAllShape
<1> HIDE DEF b
<1>2. u \in Seq(InputOps) /\ Joined(a, b, u)
  BY <1>1, JoinedSeq DEF Sound
<1> HIDE DEF u
<1>3. Buffered(u, {})
  BY <1>1, <1>2, BufferedJoined DEF Sound
<1>4. /\ n \in Nat /\ DOMAIN a = 1..n
      /\ \A k \in DOMAIN a : k \in DOMAIN u /\ u[k] = a[k]
      /\ \A k \in DOMAIN u : k \in Nat /\ (k \in DOMAIN a \/ (k > n /\ k - n \in DOMAIN b))
      /\ \A k \in Int : k - n \in DOMAIN b => u[k] = b[k - n]
  <2>1. n \in Nat /\ DOMAIN a = 1..n
    BY <1>2 DEF Joined
  <2>2. QED
    BY <1>2, <2>1, JoinedCases
<1>5. \A k \in DOMAIN u : \/ k \in DOMAIN a /\ u[k] = a[k] /\ u[k].do # "compare"
                          \/ k - n \in DOMAIN b /\ u[k] = b[k - n] /\ u[k].do \in {"read", "send"}
  BY <1>1, <1>4 DEF Only, Has
<1>6. WellTyped(u)
  BY <1>1, <1>5 DEF WellTyped, Sound
<1>7. \A l \in Lights : Pays(u, n, l)
  <2>1. ASSUME NEW l \in Lights
        PROVE  Pays(u, n, l)
    <3>1. Pays(u, n + 0, l)
      BY <1>1, <1>2, PaysJoined
    <3>2. QED
      BY <1>4, <3>1
  <2>2. QED
    BY <2>1
<1>8. ASSUME NEW k \in DOMAIN u, IsWrite(u[k])
      PROVE  Pays(u, k, u[k].light)
  <2> DEFINE l == u[k].light
  <2>1. k \in DOMAIN a /\ l \in Lights /\ k \in Nat /\ k <= n
    BY <1>4, <1>5, <1>6, <1>8 DEF IsWrite, WellTyped
  <2> HIDE DEF l
  <2>2. PICK j, m \in DOMAIN u :
          /\ n < j /\ j < m
          /\ u[j].do = "read" /\ u[j].light = l /\ u[m].do = "send"
          /\ \A i \in (j + 1)..m : u[i].do \notin {"push", "pop"}
    BY <1>7, <2>1 DEF Pays
  <2>3. k < j
    BY <1>4, <2>1, <2>2
  <2>4. \A i \in (k + 1)..m : u[i].do # "compare"
    <3>1. DOMAIN u = 1..Len(u) /\ Len(u) \in Nat
      BY <1>2, LenProperties
    <3>2. \A i \in (k + 1)..m : i \in DOMAIN u
      BY <2>1, <2>2, <3>1
    <3>3. QED
      BY <1>5, <3>2
  <2>5. Pays(u, k, l)
    BY <2>2, <2>3, <2>4 DEF Pays
  <2>6. QED
    BY <2>5 DEF l
<1>9. Regular(u)
  BY <1>5, <1>8 DEF Regular
<1>10. QED
  BY <1>2, <1>3, <1>6, <1>9 DEF Sound, u, b

-----------------------------------------------------------------------------
(***************************************************************************)
(* What a rest has, and what it still does to a light.                     *)
(***************************************************************************)
LEMMA RestCases ==
    ASSUME NEW s, NEW t, NEW n, Rest(s, n, t)
    PROVE  /\ n \in Nat
           /\ \A k \in DOMAIN t : k \in Nat /\ k > 0 /\ n + k \in DOMAIN s /\ t[k] = s[n + k]
           /\ \A k \in DOMAIN s :
                 /\ k \in Nat /\ k > 0
                 /\ k \in 1..n \/ (k > n /\ k - n \in DOMAIN t /\ t[k - n] = s[k])
           /\ \A k \in 1..n : k \in DOMAIN s
<1>1. \A k \in DOMAIN s :
         /\ k \in Nat /\ k > 0
         /\ k \in 1..n \/ (k > n /\ k - n \in DOMAIN t /\ n + (k - n) = k)
  BY DEF Rest
<1>2. \A k \in DOMAIN t : k \in Nat /\ k > 0 /\ n + k \in DOMAIN s /\ t[k] = s[n + k]
  BY DEF Rest
<1>3. n \in Nat /\ \A k \in 1..n : k \in DOMAIN s
  BY DEF Rest
<1>4. \A k \in DOMAIN s : k - n \in DOMAIN t /\ n + (k - n) = k => t[k - n] = s[k]
  BY <1>2
<1>5. QED
  BY <1>1, <1>2, <1>3, <1>4

LEMMA HasRest ==
    ASSUME NEW s, NEW t, NEW n, Rest(s, n, t), NEW do
    PROVE  /\ Has(t, do) => Has(s, do)
           /\ Has(s, do) /\ (\A i \in 1..n : s[i].do # do) => Has(t, do)
           /\ Once(s, do) => Once(t, do)
           /\ Once(s, do) /\ (\E i \in 1..n : s[i].do = do) => ~Has(t, do)
<1>1. /\ n \in Nat
      /\ \A k \in DOMAIN t : k \in Nat /\ k > 0 /\ n + k \in DOMAIN s /\ t[k] = s[n + k]
      /\ \A k \in DOMAIN s :
            /\ k \in Nat /\ k > 0
            /\ k \in 1..n \/ (k > n /\ k - n \in DOMAIN t /\ t[k - n] = s[k])
      /\ \A k \in 1..n : k \in DOMAIN s
  BY RestCases
<1>2. Has(t, do) => Has(s, do)
  BY <1>1 DEF Has
<1>3. Has(s, do) /\ (\A i \in 1..n : s[i].do # do) => Has(t, do)
  BY <1>1 DEF Has
<1>4. Once(s, do) => Once(t, do)
  <2>1. ASSUME Once(s, do), NEW j \in DOMAIN t, NEW k \in DOMAIN t, t[j].do = do, t[k].do = do
        PROVE  j = k
    <3>1. n + j = n + k /\ j \in Nat /\ k \in Nat
      BY <1>1, <2>1 DEF Once
    <3>2. QED
      BY <1>1, <3>1
  <2>2. QED
    BY <2>1 DEF Once
<1>5. ASSUME Once(s, do), NEW i \in 1..n, s[i].do = do, Has(t, do)
      PROVE  FALSE
  <2>1. PICK k \in DOMAIN t : t[k].do = do
    BY <1>5 DEF Has
  <2>2. n + k = i
    BY <1>1, <1>5, <2>1 DEF Once
  <2>3. k \in Nat /\ k > 0 /\ i \in Int /\ i <= n
    BY <1>1
  <2>4. QED
    BY <1>1, <2>2, <2>3
<1>6. QED
  BY <1>2, <1>3, <1>4, <1>5

LEMMA StoresRest ==
    ASSUME NEW s, NEW t, NEW n, Rest(s, n, t), NEW l, NEW v
    PROVE  /\ HasStore(t, l) => HasStore(s, l)
           /\ HasStore(s, l) /\ (\A i \in 1..n : ~IsStore(s[i], l)) => HasStore(t, l)
           /\ SetsLast(s, l, v) => SetsLast(t, l, v)
           /\ SetsLast(s, l, v) /\ ~HasStore(t, l) =>
                 \A i \in 1..n : IsStore(s[i], l) /\ (\A j \in 1..n : IsStore(s[j], l) => j <= i)
                                   => s[i].state = v
<1>1. /\ n \in Nat
      /\ \A k \in DOMAIN t : k \in Nat /\ k > 0 /\ n + k \in DOMAIN s /\ t[k] = s[n + k]
      /\ \A k \in DOMAIN s :
            /\ k \in Nat /\ k > 0
            /\ k \in 1..n \/ (k > n /\ k - n \in DOMAIN t /\ t[k - n] = s[k])
      /\ \A k \in 1..n : k \in DOMAIN s
  BY RestCases
<1>2. HasStore(t, l) => HasStore(s, l)
  BY <1>1 DEF HasStore
<1>3. HasStore(s, l) /\ (\A i \in 1..n : ~IsStore(s[i], l)) => HasStore(t, l)
  BY <1>1 DEF HasStore
<1>4. ASSUME SetsLast(s, l, v), NEW k \in DOMAIN t, IsStore(t[k], l),
             \A j \in DOMAIN t : IsStore(t[j], l) => j <= k
      PROVE  t[k].state = v
  <2>1. ASSUME NEW j \in DOMAIN s, IsStore(s[j], l)
        PROVE  j <= n + k
    <3>1. j \in Nat /\ k \in Nat /\ k > 0
      BY <1>1
    <3>2. CASE j \in 1..n
      BY <1>1, <3>1, <3>2
    <3>3. CASE j - n \in DOMAIN t /\ t[j - n] = s[j]
      <4>1. j - n <= k
        BY <1>4, <2>1, <3>3
      <4>2. QED
        BY <1>1, <3>1, <4>1
    <3>4. QED
      BY <1>1, <3>2, <3>3
  <2>2. n + k \in DOMAIN s /\ s[n + k] = t[k]
    BY <1>1
  <2>3. QED
    BY <1>4, <2>1, <2>2 DEF SetsLast
<1>5. ASSUME SetsLast(s, l, v), ~HasStore(t, l), NEW i \in 1..n, IsStore(s[i], l),
             \A j \in 1..n : IsStore(s[j], l) => j <= i
      PROVE  s[i].state = v
  <2>1. \A j \in DOMAIN s : IsStore(s[j], l) => j <= i
    BY <1>1, <1>5 DEF HasStore
  <2>2. i \in DOMAIN s
    BY <1>1
  <2>3. QED
    BY <1>5, <2>1, <2>2 DEF SetsLast
<1>6. SetsLast(s, l, v) => SetsLast(t, l, v)
  BY <1>4 DEF SetsLast
<1>7. QED
  BY <1>2, <1>3, <1>5, <1>6

LEMMA ClearsRest ==
    ASSUME NEW s, NEW t, Rest(s, 1, t), NEW l
    PROVE  /\ Clears(s, l) /\ ~IsStore(s[1], l) => Clears(t, l)
           /\ Clears(s, l) => s[1].do # "compare"
           /\ BlocksFirst(s) => s[1].do \notin {"compare", "store"}
           /\ BlocksFirst(s) /\ s[1].do # "block" => BlocksFirst(t)
<1>1. /\ \A k \in DOMAIN t : k \in Nat /\ k > 0 /\ 1 + k \in DOMAIN s /\ t[k] = s[1 + k]
      /\ \A k \in DOMAIN s :
            /\ k \in Nat /\ k > 0
            /\ k = 1 \/ (k > 1 /\ k - 1 \in DOMAIN t /\ t[k - 1] = s[k])
  <2>1. \A k \in 1..1 : k = 1
    OBVIOUS
  <2>2. QED
    BY <2>1, RestCases
<1>2. DOMAIN t = 1..(Len(s) - 1) /\ Len(s) - 1 \in Int
  BY DEF Rest
<1>3. \A k \in DOMAIN t : \A i \in 1..k : i \in DOMAIN t
  BY <1>2
<1>4. \A k \in DOMAIN s : 1 \in 1..k
  BY <1>1
<1>5. ASSUME Clears(s, l), ~IsStore(s[1], l)
      PROVE  Clears(t, l)
  <2>1. PICK k \in DOMAIN s : IsStore(s[k], l) /\ \A i \in 1..k : s[i].do # "compare"
    BY <1>5 DEF Clears
  <2>2. k \in Nat /\ k - 1 \in DOMAIN t /\ t[k - 1] = s[k]
    BY <1>1, <1>5, <2>1
  <2>3. \A i \in 1..(k - 1) : i \in DOMAIN t /\ 1 + i \in 1..k
    BY <1>3, <2>2
  <2>4. \A i \in 1..(k - 1) : t[i].do # "compare"
    BY <1>1, <2>1, <2>3
  <2>5. QED
    BY <2>1, <2>2, <2>4 DEF Clears
<1>6. Clears(s, l) => s[1].do # "compare"
  BY <1>4 DEF Clears
<1>7. BlocksFirst(s) => s[1].do \notin {"compare", "store"}
  BY <1>4 DEF BlocksFirst
<1>8. ASSUME BlocksFirst(s), s[1].do # "block"
      PROVE  BlocksFirst(t)
  <2>1. PICK k \in DOMAIN s :
           s[k].do = "block" /\ \A i \in 1..k : s[i].do \notin {"compare", "store"}
    BY <1>8 DEF BlocksFirst
  <2>2. k \in Nat /\ k - 1 \in DOMAIN t /\ t[k - 1] = s[k]
    BY <1>1, <1>8, <2>1
  <2>3. \A i \in 1..(k - 1) : i \in DOMAIN t /\ 1 + i \in 1..k
    BY <1>3, <2>2
  <2>4. \A i \in 1..(k - 1) : t[i].do \notin {"compare", "store"}
    BY <1>1, <2>1, <2>3
  <2>5. QED
    BY <2>1, <2>2, <2>4 DEF BlocksFirst
<1>9. QED
  BY <1>5, <1>6, <1>7, <1>8

\* A light that is owed is owed until it is read, and is in the buffer then.
LEMMA OwedRest ==
    ASSUME NEW s, NEW t, Rest(s, 1, t), NEW l
    PROVE  /\ Pays(s, 0, l) => s[1].do # "compare"
           /\ Pays(s, 0, l) /\ ~(s[1].do = "read" /\ s[1].light = l) => Pays(t, 0, l)
           /\ Pays(s, 0, l) => Pays(t, 0, l) \/ Sends(t)
           /\ Sends(s) => s[1].do \notin {"compare", "push", "pop"}
           /\ Sends(s) /\ s[1].do # "send" => Sends(t)
<1>1. /\ \A k \in DOMAIN t : k \in Nat /\ k > 0 /\ 1 + k \in DOMAIN s /\ t[k] = s[1 + k]
      /\ \A k \in DOMAIN s :
            /\ k \in Nat /\ k > 0
            /\ k = 1 \/ (k > 1 /\ k - 1 \in DOMAIN t /\ t[k - 1] = s[k])
  <2>1. \A k \in 1..1 : k = 1
    OBVIOUS
  <2>2. QED
    BY <2>1, RestCases
<1>2. DOMAIN t = 1..(Len(s) - 1) /\ Len(s) - 1 \in Int
  BY DEF Rest
<1>3. \A k \in DOMAIN t : \A i \in 1..k : i \in DOMAIN t
  BY <1>2
<1>4. \A k \in DOMAIN s : 1 \in 1..k
  BY <1>1
<1>5. ASSUME Pays(s, 0, l)
      PROVE  /\ s[1].do # "compare"
             /\ Pays(t, 0, l) \/ (Sends(t) /\ s[1].do = "read" /\ s[1].light = l)
  <2>1. PICK j, m \in DOMAIN s :
        /\ 0 < j /\ j < m
        /\ s[j].do = "read" /\ s[j].light = l /\ s[m].do = "send"
        /\ \A i \in (0 + 1)..m : s[i].do # "compare"
        /\ \A i \in (j + 1)..m : s[i].do \notin {"push", "pop"}
    BY <1>5 DEF Pays
  <2>2. s[1].do # "compare"
    BY <1>4, <2>1
  <2>3. CASE j > 1
    <3>1. Pays(s, 1 + 0, l)
      <4>1. \A i \in (1 + 0 + 1)..m : i \in (0 + 1)..m
        OBVIOUS
      <4>2. 1 + 0 < j
        BY <2>3
      <4>3. QED
        BY <2>1, <4>1, <4>2 DEF Pays
    <3>2. Pays(t, 0, l)
      BY <3>1, PaysRest
    <3>3. QED
      BY <2>2, <3>2
  <2>4. CASE ~(j > 1)
    <3>1. j = 1 /\ m \in Nat /\ m > 1
      BY <1>1, <2>1, <2>4
    <3>2. m - 1 \in DOMAIN t /\ t[m - 1] = s[m]
      BY <1>1, <3>1
    <3>3. \A i \in 1..(m - 1) : i \in DOMAIN t /\ 1 + i \in (0 + 1)..m /\ 1 + i \in (j + 1)..m
      BY <1>3, <3>1, <3>2
    <3>4. \A i \in 1..(m - 1) : t[i].do \notin {"compare", "push", "pop"}
      BY <1>1, <2>1, <3>3
    <3>5. Sends(t)
      BY <2>1, <3>2, <3>4 DEF Sends
    <3>6. QED
      BY <2>1, <2>2, <3>1, <3>5
  <2>5. QED
    BY <2>3, <2>4
<1>6. Sends(s) => s[1].do \notin {"compare", "push", "pop"}
  BY <1>4 DEF Sends
<1>7. ASSUME Sends(s), s[1].do # "send"
      PROVE  Sends(t)
  <2>1. PICK m \in DOMAIN s :
           s[m].do = "send" /\ \A i \in 1..m : s[i].do \notin {"compare", "push", "pop"}
    BY <1>7 DEF Sends
  <2>2. m \in Nat /\ m - 1 \in DOMAIN t /\ t[m - 1] = s[m]
    BY <1>1, <1>7, <2>1
  <2>3. \A i \in 1..(m - 1) : i \in DOMAIN t /\ 1 + i \in 1..m
    BY <1>3, <2>2
  <2>4. \A i \in 1..(m - 1) : t[i].do \notin {"compare", "push", "pop"}
    BY <1>1, <2>1, <2>3
  <2>5. QED
    BY <2>1, <2>2, <2>4 DEF Sends
<1>8. QED
  BY <1>5, <1>6, <1>7

-----------------------------------------------------------------------------
(***************************************************************************)
(* The programs.                                                           *)
(***************************************************************************)
\* The light is set before anything is compared, and v is what it ends up as.
Settles(s, l, v) == HasStore(s, l) /\ SetsLast(s, l, v) /\ Clears(s, l)

\* Programs that change no light are put before or after.
LEMMA SettlesJoined ==
    ASSUME NEW s, NEW t, NEW u, Joined(s, t, u), NEW l, NEW v
    PROVE  /\ ~HasStore(t, l) /\ HasStore(s, l) => HasStore(u, l)
           /\ ~HasStore(t, l) /\ SetsLast(s, l, v) => SetsLast(u, l, v)
           /\ ~HasStore(t, l) /\ Settles(s, l, v) => Settles(u, l, v)
           /\ Settles(t, l, v) /\ ~Has(s, "compare") => Settles(u, l, v)
<1> DEFINE a == Len(s)
<1>1. /\ a \in Nat
      /\ \A k \in DOMAIN s : k \in DOMAIN u /\ u[k] = s[k]
      /\ \A k \in DOMAIN u : k \in Nat /\ (k \in DOMAIN s \/ (k > a /\ k - a \in DOMAIN t))
      /\ \A k \in Int : k - a \in DOMAIN t => u[k] = t[k - a]
  BY JoinedCases
<1> HIDE DEF a
<1>2. ~HasStore(t, l) => \A k \in DOMAIN u : IsStore(u[k], l) => k \in DOMAIN s /\ u[k] = s[k]
  BY <1>1 DEF HasStore
<1>3. ~HasStore(t, l) /\ HasStore(s, l) => HasStore(u, l)
  BY <1>1 DEF HasStore
<1>4. ~HasStore(t, l) /\ SetsLast(s, l, v) => SetsLast(u, l, v)
  BY <1>1, <1>2 DEF SetsLast
<1>5. Clears(s, l) => Clears(u, l)
  BY StoresJoined
<1>6. Settles(t, l, v) /\ ~Has(s, "compare") => Settles(u, l, v)
  BY StoresJoined DEF Settles
<1>7. QED
  BY <1>3, <1>4, <1>5, <1>6 DEF Settles

LEMMA OnlyHas ==
    ASSUME NEW s, NEW D, Only(s, D)
    PROVE  /\ \A do : do \notin D => ~Has(s, do) /\ Once(s, do)
           /\ "store" \notin D => \A l, v : ~HasStore(s, l) /\ SetsLast(s, l, v)
           /\ \A E : D \subseteq E => Only(s, E)
<1>1. \A do : do \notin D => ~Has(s, do) /\ Once(s, do)
  BY DEF Only, Has, Once
<1>2. "store" \notin D => \A l, v : ~HasStore(s, l) /\ SetsLast(s, l, v)
  BY DEF Only, HasStore, SetsLast, IsStore
<1>3. \A E : D \subseteq E => Only(s, E)
  BY DEF Only
<1>4. QED
  BY <1>1, <1>2, <1>3

LEMMA SetSingleShape ==
    ASSUME NEW l \in Lights, NEW v \in States
    PROVE  LET s == SetSingleButton(l, v)
           IN  /\ Sound(s) /\ s \in Seq(RefreshOps)
               /\ Only(s, {"compare", "store", "read", "send"})
               /\ HasStore(s, l) /\ SetsLast(s, l, v)
               /\ \A k : k # l => ~HasStore(s, k)
<1> DEFINE o1 == Op("compare", l, v)
           o2 == Op("store", l, v)
           o3 == Op("read", l, "none")
           o4 == Op("send", "none", "none")
           s == SetSingleButton(l, v)
<1>1. /\ l \in Lights \cup {"none"} /\ "none" \in Lights \cup {"none"}
      /\ v \in Values /\ "none" \in Values
  BY DEF Values
<1>2. /\ o1 \in InputOps /\ o2 \in InputOps /\ o3 \in InputOps /\ o4 \in InputOps
      /\ o1 \in RefreshOps /\ o2 \in RefreshOps /\ o3 \in RefreshOps /\ o4 \in RefreshOps
      /\ o1.do = "compare" /\ o2.do = "store" /\ o3.do = "read" /\ o4.do = "send"
      /\ o1.light = l /\ o1.state = v /\ o2.light = l /\ o2.state = v /\ o3.light = l
  BY <1>1, OpType
<1>3. o2 = Op("store", o1.light, o1.state)
  BY <1>2
<1>4. s = <<o1, o2, o3, o4>>
  BY DEF SetSingleButton
<1> HIDE DEF o1, o2, o3, o4, s
<1>5. /\ s \in Seq(InputOps) /\ s \in Seq(RefreshOps)
      /\ DOMAIN s = 1..4 /\ s[1] = o1 /\ s[2] = o2 /\ s[3] = o3 /\ s[4] = o4
  BY <1>2, <1>4
<1>6. \A k \in DOMAIN s : k = 1 \/ k = 2 \/ k = 3 \/ k = 4
  BY <1>5
<1>7. Only(s, {"compare", "store", "read", "send"}) /\ WellTyped(s)
  BY <1>2, <1>5, <1>6 DEF Only, WellTyped
<1>8. Pays(s, 2, l)
  <2>1. /\ 2 < 3 /\ 3 < 4 /\ 3 \in DOMAIN s /\ 4 \in DOMAIN s
        /\ \A k \in (2 + 1)..4 : k = 3 \/ k = 4
        /\ \A k \in (3 + 1)..4 : k = 4
    BY <1>5
  <2>2. /\ s[3].do = "read" /\ s[3].light = l /\ s[4].do = "send"
        /\ \A k \in (2 + 1)..4 : s[k].do # "compare"
        /\ \A k \in (3 + 1)..4 : s[k].do \notin {"push", "pop"}
    BY <1>2, <1>5, <2>1
  <2>3. QED
    BY <2>1, <2>2 DEF Pays
<1>9. Regular(s)
  <2>1. \A k \in DOMAIN s : IsWrite(s[k]) => k = 2 /\ s[k].light = l
    BY <1>2, <1>5, <1>6 DEF IsWrite
  <2>2. \A k \in DOMAIN s : s[k].do = "compare" => k = 1
    BY <1>2, <1>5, <1>6
  <2>3. 1 + 3 = 4 /\ 1 + 1 = 2 /\ 1 + 2 = 3 /\ 4 \in DOMAIN s
    BY <1>5
  <2>4. QED
    BY <1>2, <1>3, <1>5, <1>8, <2>1, <2>2, <2>3 DEF Regular
<1>10. Buffered(s, {})
  BY <1>7 DEF Buffered, Only
<1>11. HasStore(s, l)
  BY <1>2, <1>5 DEF HasStore, IsStore
<1>12. \A k \in DOMAIN s : \A x : IsStore(s[k], x) => s[k] = o2 /\ x = l
  BY <1>2, <1>5, <1>6 DEF IsStore
<1>13. SetsLast(s, l, v) /\ \A k : k # l => ~HasStore(s, k)
  BY <1>2, <1>12 DEF SetsLast, HasStore
<1>14. QED
  BY <1>5, <1>7, <1>9, <1>10, <1>11, <1>13 DEF Sound, s

LEMMA ClearShape ==
    LET s == ClearButtonLights
    IN  /\ Sound(s) /\ Only(s, {"store", "read", "send"})
        /\ \A l \in Lights : Settles(s, l, "OFF")
<1> DEFINE f == ForEachLight("store", "OFF")
           b == SendAllButtons
           s == ClearButtonLights
<1>1. /\ f \in Seq(InputOps) /\ DOMAIN f = 1..2
      /\ f[1] = Op("store", "MUTE", "OFF") /\ f[2] = Op("store", "SELECT", "OFF")
      /\ WellTyped(f) /\ Only(f, {"store"})
  <2>1. "store" \in {"store", "read", "restore"} /\ "OFF" \in Values /\ "OFF" \in States
    BY DEF Values, States
  <2>2. QED
    BY <2>1, EachLight
<1>2. /\ \A k \in DOMAIN f : k = 1 \/ k = 2
      /\ f[1].do = "store" /\ f[1].light = "MUTE" /\ f[1].state = "OFF"
      /\ f[2].do = "store" /\ f[2].light = "SELECT" /\ f[2].state = "OFF"
  <2>1. \A l \in Lights : /\ Op("store", l, "OFF").do = "store" /\ Op("store", l, "OFF").light = l
                          /\ Op("store", l, "OFF").state = "OFF"
    <3>1. "OFF" \in Values
      BY DEF Values, States
    <3>2. QED
      BY <3>1, OpType
  <2>2. "MUTE" \in Lights /\ "SELECT" \in Lights
    BY LightsAre
  <2>3. QED
    BY <1>1, <2>1, <2>2
<1>3. Buffered(f, {}) /\ ~Has(f, "compare")
  BY <1>1 DEF Only, Buffered, Has
<1>4. s = f \o b
  BY DEF ClearButtonLights
<1>5. Only(b, {"read", "send"})
  BY SendAllShape
<1> HIDE DEF f, b, s
<1>6. Sound(s) /\ Joined(f, b, s)
  BY <1>1, <1>3, <1>4, ThenSendAll DEF b
<1>7. Only(s, {"store", "read", "send"})
  <2>1. Only(f, {"store", "read", "send"}) /\ Only(b, {"store", "read", "send"})
    BY <1>1, <1>5 DEF Only
  <2>2. QED
    BY <1>6, <2>1, OnlyJoined
<1>8. ASSUME NEW l \in Lights
      PROVE  Settles(s, l, "OFF")
  <2>1. \A k \in DOMAIN f : f[k].do = "store" /\ f[k].state = "OFF"
    BY <1>2
  <2>2. \E k \in DOMAIN f : IsStore(f[k], l)
    <3>1. 1 \in DOMAIN f /\ 2 \in DOMAIN f
      BY <1>1
    <3>2. QED
      BY <1>2, <3>1, LightsAre DEF IsStore
  <2>3. HasStore(f, l) /\ SetsLast(f, l, "OFF")
    BY <2>1, <2>2 DEF HasStore, SetsLast
  <2>4. Clears(f, l)
    <3>1. \A k \in DOMAIN f : \A i \in 1..k : i \in DOMAIN f
      BY <1>1
    <3>2. QED
      BY <2>1, <2>2, <3>1 DEF Clears
  <2>5. ~HasStore(b, l)
    BY <1>5 DEF Only, HasStore, IsStore
  <2>6. QED
    BY <1>6, <2>3, <2>4, <2>5, SettlesJoined DEF Settles
<1>9. QED
  BY <1>6, <1>7, <1>8 DEF s

\* What the pin layer wants a light to be.
Mark(pin, l) == IF (l = "MUTE") = pin THEN "ON" ELSE "OFF"

LEMMA UpdateLightsShape ==
    ASSUME NEW pin \in BOOLEAN
    PROVE  LET s == UpdateLights(pin)
           IN  /\ Sound(s) /\ Only(s, {"compare", "store", "read", "send"})
               /\ \A l \in Lights : Settles(s, l, Mark(pin, l))
<1> DEFINE x == IF pin THEN "MUTE" ELSE "SELECT"
           c == ClearButtonLights
           b == SetSingleButton(x, "ON")
           s == UpdateLights(pin)
<1>1. /\ Sound(c) /\ Only(c, {"store", "read", "send"})
      /\ \A l \in Lights : Settles(c, l, "OFF")
  BY ClearShape
<1>2. /\ x \in Lights /\ "ON" \in States
      /\ \A l \in Lights : Mark(pin, l) = IF l = x THEN "ON" ELSE "OFF"
  <2>1. CASE pin = TRUE
    BY <2>1, LightsAre DEF Mark, States
  <2>2. CASE pin = FALSE
    BY <2>2, LightsAre DEF Mark, States
  <2>3. QED
    BY <2>1, <2>2
<1>3. s = c \o b
  BY DEF UpdateLights
<1> HIDE DEF x
<1>4. /\ Sound(b) /\ Only(b, {"compare", "store", "read", "send"})
      /\ HasStore(b, x) /\ SetsLast(b, x, "ON")
      /\ \A k : k # x => ~HasStore(b, k)
  BY <1>2, SetSingleShape
<1> HIDE DEF b, c, s
<1>5. Sound(s) /\ Joined(c, b, s)
  BY <1>1, <1>3, <1>4, SoundJoined
<1>6. Only(s, {"compare", "store", "read", "send"})
  <2>1. Only(c, {"compare", "store", "read", "send"})
    BY <1>1 DEF Only
  <2>2. QED
    BY <1>4, <1>5, <2>1, OnlyJoined
<1>7. ASSUME NEW l \in Lights
      PROVE  Settles(s, l, Mark(pin, l))
  <2>1. Settles(c, l, "OFF")
    BY <1>1
  <2>2. CASE l = x
    <3>1. HasStore(s, l) /\ SetsLast(s, l, "ON") /\ Clears(s, l)
      BY <1>4, <1>5, <2>1, <2>2, StoresJoined DEF Settles
    <3>2. QED
      BY <1>2, <2>2, <3>1 DEF Settles
  <2>3. CASE l # x
    <3>1. Settles(s, l, "OFF")
      BY <1>4, <1>5, <2>1, <2>3, SettlesJoined
    <3>2. QED
      BY <1>2, <2>3, <3>1
  <2>4. QED
    BY <2>2, <2>3
<1>8. QED
  BY <1>5, <1>6, <1>7 DEF s

\* Reads of all lights, then the step that saves them.
LEMMA SaveShape ==
    LET s == ForEachLight("read", "none") \o <<Op("push", "none", "none")>>
    IN  /\ Sound(s) /\ Only(s, {"read", "push"}) /\ Has(s, "push") /\ Once(s, "push")
<1> DEFINE f == ForEachLight("read", "none")
           e == Op("push", "none", "none")
           s == f \o <<e>>
<1>1. /\ f \in Seq(InputOps) /\ DOMAIN f = 1..2 /\ Len(f) = 2
      /\ f[1] = Op("read", "MUTE", "none") /\ f[2] = Op("read", "SELECT", "none")
      /\ WellTyped(f) /\ Only(f, {"read"})
  <2>1. "read" \in {"store", "read", "restore"} /\ "none" \in Values /\ "read" # "store"
    BY DEF Values
  <2>2. QED
    BY <2>1, EachLight
<1>2. /\ e \in InputOps /\ e.do = "push"
      /\ Op("read", "MUTE", "none").do = "read" /\ Op("read", "MUTE", "none").light = "MUTE"
      /\ Op("read", "SELECT", "none").do = "read" /\ Op("read", "SELECT", "none").light = "SELECT"
  <2>1. /\ "none" \in Values /\ "none" \in Lights \cup {"none"}
        /\ "MUTE" \in Lights \cup {"none"} /\ "SELECT" \in Lights \cup {"none"}
    BY LightsAre DEF Values
  <2>2. e \in InputOps /\ e.do = "push"
    BY <2>1, OpType
  <2>3. QED
    BY <2>1, <2>2, OpType
<1> HIDE DEF e
<1>3. /\ <<e>> \in Seq(InputOps) /\ DOMAIN <<e>> = 1..1 /\ <<e>>[1] = e /\ Len(<<e>>) = 1
  BY <1>2, SingleOp
<1> HIDE DEF f, s
<1>4. s \in Seq(InputOps) /\ Joined(f, <<e>>, s)
  <2>1. f \o <<e>> \in Seq(InputOps) /\ Joined(f, <<e>>, f \o <<e>>)
    BY <1>1, <1>3, JoinedSeq
  <2>2. QED
    BY <2>1 DEF s
<1>5. /\ DOMAIN s = 1..3 /\ s[3] = e
      /\ s[1] = Op("read", "MUTE", "none") /\ s[2] = Op("read", "SELECT", "none")
  <2>1. DOMAIN s = 1..(2 + 1) /\ s[2 + 1] = <<e>>[1] /\ \A i \in 1..2 : s[i] = f[i]
    BY <1>1, <1>3, <1>4 DEF Joined
  <2>2. QED
    BY <1>1, <1>3, <2>1
<1>6. \A k \in DOMAIN s : k = 1 \/ k = 2 \/ k = 3
  BY <1>5
<1>7. /\ s[1].do = "read" /\ s[1].light = "MUTE"
      /\ s[2].do = "read" /\ s[2].light = "SELECT"
      /\ s[3].do = "push"
  BY <1>2, <1>5
<1>8. Only(s, {"read", "push"}) /\ WellTyped(s) /\ Regular(s) /\ Has(s, "push") /\ Once(s, "push")
  <2>1. \A k \in DOMAIN s : /\ s[k].do \in {"read", "push"}
                            /\ s[k].do = "read" => s[k].light \in Lights
                            /\ s[k].do = "push" => k = 3
    BY <1>6, <1>7, LightsAre
  <2>2. 3 \in DOMAIN s
    BY <1>5
  <2>3. QED
    BY <1>7, <2>1, <2>2 DEF Only, WellTyped, Regular, IsWrite, Has, Once
<1>9. Buffered(s, {})
  <2>1. \A k \in DOMAIN s : s[k].do = "push" => k = 3
    BY <1>6, <1>7
  <2>2. \A k \in DOMAIN s : s[k].do # "restore"
    BY <1>6, <1>7
  <2>3. ASSUME NEW l \in Lights
        PROVE  Loads(s, {}, 3, l)
    <3>1. /\ 1 \in 1..(3 - 1) /\ 2 \in 1..(3 - 1)
          /\ \A i \in (1 + 1)..(3 - 1) : i = 2
          /\ \A i \in (2 + 1)..(3 - 1) : FALSE
      OBVIOUS
    <3>2. Keeps(s, 1, 3) /\ Keeps(s, 2, 3)
      BY <1>7, <3>1 DEF Keeps
    <3>3. QED
      BY <1>7, <3>1, <3>2, LightsAre DEF Loads
  <2>4. QED
    BY <2>1, <2>2, <2>3 DEF Buffered
<1>10. QED
  BY <1>4, <1>8, <1>9 DEF Sound, s, f, e

LEMMA PauseShape ==
    LET s == Pause
    IN  /\ Sound(s) /\ ~Has(s, "compare") /\ BlocksFirst(s)
        /\ Has(s, "push") /\ Once(s, "push") /\ ~Has(s, "pop") /\ ~Has(s, "restore")
        /\ \A k \in DOMAIN s : s[k].do = "block" => s[k].state = "TRUE"
<1> DEFINE e == Op("block", "none", "TRUE")
           p == ForEachLight("read", "none") \o <<Op("push", "none", "none")>>
           c == ClearButtonLights
           q == p \o c
           s == <<e>> \o q
<1>1. e \in InputOps /\ e.do = "block" /\ e.state = "TRUE"
  <2>1. "TRUE" \in Values /\ "none" \in Lights \cup {"none"}
    BY DEF Values
  <2>2. QED
    BY <2>1, OpType
<1>2. Sound(p) /\ Only(p, {"read", "push"}) /\ Has(p, "push") /\ Once(p, "push")
  BY SaveShape
<1>3. Sound(c) /\ Only(c, {"store", "read", "send"})
  BY ClearShape
<1> HIDE DEF e, p, c
<1>4. /\ <<e>> \in Seq(InputOps) /\ DOMAIN <<e>> = 1..1 /\ <<e>>[1] = e
      /\ \A k \in 1..1 : k = 1
  BY <1>1, SingleOp
<1> HIDE DEF q, s
<1>5. Sound(q) /\ Joined(p, c, q)
  BY <1>2, <1>3, SoundJoined DEF q
<1>6. /\ Only(<<e>>, {"block"}) /\ BlocksFirst(<<e>>)
      /\ \A k \in DOMAIN <<e>> : <<e>>[k].state = "TRUE"
  <2>1. \A k \in DOMAIN <<e>> : <<e>>[k].do = "block" /\ <<e>>[k].state = "TRUE"
    BY <1>1, <1>4
  <2>2. 1 \in DOMAIN <<e>> /\ \A k \in 1..1 : k \in DOMAIN <<e>>
    BY <1>4
  <2>3. QED
    BY <2>1, <2>2 DEF Only, BlocksFirst
<1>7. Sound(<<e>>)
  BY <1>4, <1>6 DEF Sound, Only, WellTyped, Regular, IsWrite, Buffered
<1>8. Sound(s) /\ Joined(<<e>>, q, s)
  BY <1>5, <1>7, SoundJoined DEF s
<1>9. /\ ~Has(q, "compare") /\ ~Has(q, "pop") /\ ~Has(q, "restore") /\ ~Has(q, "block")
      /\ Has(q, "push") /\ Once(q, "push")
  <2>1. /\ ~Has(c, "compare") /\ ~Has(c, "pop") /\ ~Has(c, "restore")
        /\ ~Has(c, "block") /\ ~Has(c, "push")
        /\ ~Has(p, "compare") /\ ~Has(p, "pop") /\ ~Has(p, "restore") /\ ~Has(p, "block")
    BY <1>2, <1>3 DEF Only, Has
  <2>2. QED
    BY <1>2, <1>5, <2>1, HasJoined
<1>10. /\ ~Has(s, "compare") /\ Has(s, "push") /\ Once(s, "push")
       /\ ~Has(s, "pop") /\ ~Has(s, "restore")
  <2>1. /\ ~Has(<<e>>, "compare") /\ ~Has(<<e>>, "push")
        /\ ~Has(<<e>>, "pop") /\ ~Has(<<e>>, "restore")
    BY <1>6 DEF Only, Has
  <2>2. QED
    BY <1>8, <1>9, <2>1, HasJoined
<1>11. BlocksFirst(s)
  BY <1>6, <1>8, BlocksFirstJoined
<1>12. \A k \in DOMAIN s : s[k].do = "block" => s[k].state = "TRUE"
  <2>1. \A k \in DOMAIN s : \/ k \in DOMAIN <<e>> /\ s[k] = <<e>>[k]
                            \/ k - Len(<<e>>) \in DOMAIN q /\ s[k] = q[k - Len(<<e>>)]
    <3> DEFINE d == <<e>>
               n == Len(d)
    <3>0. Joined(d, q, s)
      BY <1>8
    <3> HIDE DEF d
    <3>1. /\ \A k \in DOMAIN d : s[k] = d[k]
          /\ \A k \in DOMAIN s : k \in Nat /\ (k \in DOMAIN d \/ (k > n /\ k - n \in DOMAIN q))
          /\ \A k \in Int : k - n \in DOMAIN q => s[k] = q[k - n]
      BY <3>0, JoinedCases
    <3> HIDE DEF n
    <3>2. \A k \in DOMAIN s : \/ k \in DOMAIN d /\ s[k] = d[k]
                              \/ k - n \in DOMAIN q /\ s[k] = q[k - n]
      BY <3>1
    <3>3. QED
      BY <3>2 DEF n, d
  <2>2. QED
    BY <1>6, <1>9, <2>1 DEF Has
<1>13. s = Pause
  BY DEF s, q, p, c, e, Pause, PushLightState
<1>14. QED
  BY <1>8, <1>10, <1>11, <1>12, <1>13

LEMMA ResumeShape ==
    LET s == Resume
    IN  Sound(s) /\ Has(s, "pop") /\ Once(s, "pop") /\ ~Has(s, "push")
<1> DEFINE e == Op("pop", "none", "none")
           f == ForEachLight("restore", "none")
           a == <<e>> \o f
           b == SendAllButtons
           p == a \o b
           x == Op("block", "none", "FALSE")
           s == p \o <<x>>
<1>1. /\ e \in InputOps /\ e.do = "pop" /\ x \in InputOps /\ x.do = "block"
      /\ Op("restore", "MUTE", "none").do = "restore" /\ Op("restore", "SELECT", "none").do = "restore"
  <2>1. /\ "FALSE" \in Values /\ "none" \in Values /\ "none" \in Lights \cup {"none"}
        /\ "MUTE" \in Lights \cup {"none"} /\ "SELECT" \in Lights \cup {"none"}
    BY LightsAre DEF Values
  <2>2. QED
    BY <2>1, OpType
<1>2. /\ f \in Seq(InputOps) /\ DOMAIN f = 1..2 /\ Len(f) = 2
      /\ WellTyped(f) /\ Only(f, {"restore"})
  <2>1. "restore" \in {"store", "read", "restore"} /\ "none" \in Values /\ "restore" # "store"
    BY DEF Values
  <2>2. QED
    BY <2>1, EachLight
<1>3. Sound(b) /\ Only(b, {"read", "send"})
  BY SendAllShape
<1> HIDE DEF e, f, x
<1>4. /\ <<e>> \in Seq(InputOps) /\ DOMAIN <<e>> = 1..1 /\ <<e>>[1] = e /\ Len(<<e>>) = 1
      /\ <<x>> \in Seq(InputOps) /\ DOMAIN <<x>> = 1..1 /\ <<x>>[1] = x
      /\ \A k \in 1..1 : k = 1
  BY <1>1, SingleOp
<1> HIDE DEF a, b, p, s
<1>5. a \in Seq(InputOps) /\ Joined(<<e>>, f, a)
  <2>1. <<e>> \o f \in Seq(InputOps) /\ Joined(<<e>>, f, <<e>> \o f)
    BY <1>2, <1>4, JoinedSeq
  <2>2. QED
    BY <2>1 DEF a
<1>6. /\ DOMAIN a = 1..3 /\ a[1] = e /\ a[2] = f[1] /\ a[3] = f[2]
  <2>1. DOMAIN a = 1..(1 + 2) /\ a[1] = <<e>>[1] /\ \A i \in 1..2 : a[1 + i] = f[i]
    BY <1>2, <1>4, <1>5 DEF Joined
  <2>2. a[1 + 1] = f[1] /\ a[1 + 2] = f[2]
    BY <2>1
  <2>3. QED
    BY <1>4, <2>1, <2>2
<1>7. /\ \A k \in DOMAIN a : k = 1 \/ k = 2 \/ k = 3
      /\ a[1].do = "pop" /\ a[2].do = "restore" /\ a[3].do = "restore"
      /\ a[2].light \in Lights /\ a[3].light \in Lights
  <2>1. 1 \in DOMAIN f /\ 2 \in DOMAIN f
    BY <1>2
  <2>2. QED
    BY <1>1, <1>2, <1>6, <2>1 DEF Only, WellTyped
<1>8. WellTyped(a) /\ ~Has(a, "compare") /\ Has(a, "pop") /\ Once(a, "pop") /\ ~Has(a, "push")
  <2>1. 1 \in DOMAIN a
    BY <1>6
  <2>2. QED
    BY <1>7, <2>1 DEF WellTyped, Has, Once
<1>9. Buffered(a, {})
  <2>1. \A k \in DOMAIN a : a[k].do # "push" /\ (a[k].do = "restore" => k = 2 \/ k = 3)
    BY <1>7
  <2>2. ASSUME NEW l
        PROVE  Loads(a, {}, 2, l) /\ Loads(a, {}, 3, l)
    <3>1. /\ 1 \in 1..(2 - 1) /\ 1 \in 1..(3 - 1)
          /\ \A i \in (1 + 1)..(3 - 1) : i = 2
          /\ \A i \in (1 + 1)..(2 - 1) : FALSE
      OBVIOUS
    <3>2. Keeps(a, 1, 2) /\ Keeps(a, 1, 3)
      BY <1>7, <3>1 DEF Keeps
    <3>3. QED
      BY <1>7, <3>1, <3>2 DEF Loads
  <2>3. QED
    BY <2>1, <2>2 DEF Buffered
<1>10. Sound(p) /\ Joined(a, b, p)
  BY <1>5, <1>8, <1>9, ThenSendAll DEF p, b
<1>11. Has(p, "pop") /\ Once(p, "pop") /\ ~Has(p, "push")
  <2>1. ~Has(b, "pop") /\ ~Has(b, "push")
    BY <1>3 DEF Only, Has
  <2>2. QED
    BY <1>8, <1>10, <2>1, HasJoined
<1>12. Only(<<x>>, {"block"})
  BY <1>1, <1>4 DEF Only
<1>13. Sound(<<x>>) /\ ~Has(<<x>>, "pop") /\ ~Has(<<x>>, "push")
  BY <1>4, <1>12 DEF Sound, Only, WellTyped, Regular, IsWrite, Buffered, Has
<1>14. Sound(s) /\ Joined(p, <<x>>, s)
  BY <1>10, <1>13, SoundJoined DEF s
<1>15. Has(s, "pop") /\ Once(s, "pop") /\ ~Has(s, "push")
  BY <1>11, <1>13, <1>14, HasJoined
<1>16. s = Resume
  BY DEF s, p, a, b, e, f, x, Resume, PopLightState
<1>17. QED
  BY <1>14, <1>15, <1>16

LEMMA BufferedMore ==
    ASSUME NEW s, NEW b, Buffered(s, {})
    PROVE  Buffered(s, b)
BY DEF Buffered, Loads

LEMMA EmptyShape ==
    LET s == <<>>
    IN  /\ Sound(s) /\ s \in Seq(RefreshOps) /\ \A D : Only(s, D)
        /\ \A n, l : ~Pays(s, n, l) /\ ~Sends(s)
        /\ \A l : ~HasStore(s, l) /\ ~Clears(s, l)
        /\ ~BlocksFirst(s)
<1> DEFINE s == <<>>
<1>1. s \in Seq(InputOps) /\ s \in Seq(RefreshOps) /\ \A k \in DOMAIN s : FALSE
  OBVIOUS
<1> HIDE DEF s
<1>2. Sound(s)
  BY <1>1 DEF Sound, WellTyped, Regular, Buffered
<1>3. (\A D : Only(s, D)) /\ (\A n, l : ~Pays(s, n, l) /\ ~Sends(s))
  BY <1>1 DEF Only, Pays, Sends
<1>4. (\A l : ~HasStore(s, l) /\ ~Clears(s, l)) /\ ~BlocksFirst(s)
  BY <1>1 DEF HasStore, Clears, BlocksFirst
<1>5. QED
  BY <1>1, <1>2, <1>3, <1>4 DEF s

LEMMA EmptyHas ==
    ASSUME NEW s, s = <<>>, NEW do
    PROVE  ~Has(s, do)
BY DEF Has

BlocksOnly(s) == \A k \in DOMAIN s : s[k].do = "block" => s[k].state = "TRUE"

LEMMA BlocksOnlyJoined ==
    ASSUME NEW s, NEW t, NEW u, Joined(s, t, u), BlocksOnly(s), BlocksOnly(t)
    PROVE  BlocksOnly(u)
<1> DEFINE n == Len(s)
<1>1. /\ \A k \in DOMAIN s : u[k] = s[k]
      /\ \A k \in DOMAIN u : k \in Nat /\ (k \in DOMAIN s \/ (k > n /\ k - n \in DOMAIN t))
      /\ \A k \in Int : k - n \in DOMAIN t => u[k] = t[k - n]
  BY JoinedCases
<1> HIDE DEF n
<1>2. \A k \in DOMAIN u : \/ k \in DOMAIN s /\ u[k] = s[k]
                          \/ k - n \in DOMAIN t /\ u[k] = t[k - n]
  BY <1>1
<1>3. QED
  BY <1>2 DEF BlocksOnly

\* What is sent first, if anything, takes nothing from the program.
LEMMA PrefixedShape ==
    ASSUME NEW pre, Sound(pre), Only(pre, {"read", "send"}), NEW p, Sound(p)
    PROVE  LET u == pre \o p
           IN  /\ Sound(u)
               /\ \A l : Pays(pre, 0, l) => Pays(u, 0, l)
               /\ \A do \in {"push", "pop", "restore"} :
                     (Has(u, do) <=> Has(p, do)) /\ (Once(p, do) => Once(u, do))
               /\ BlocksFirst(p) => BlocksFirst(u)
               /\ BlocksOnly(p) => BlocksOnly(u)
               /\ \A l, v : Settles(p, l, v) => Settles(u, l, v)
               /\ Only(p, {"read", "send"}) => Only(u, {"read", "send"})
<1> DEFINE u == pre \o p
<1>1. Sound(u) /\ Joined(pre, p, u)
  BY SoundJoined
<1> HIDE DEF u
<1>2. \A l : Pays(pre, 0, l) => Pays(u, 0, l)
  BY <1>1, PaysJoined
<1>3. ASSUME NEW do \in {"push", "pop", "restore"}
      PROVE  (Has(u, do) <=> Has(p, do)) /\ (Once(p, do) => Once(u, do))
  <2>1. ~Has(pre, do)
    BY OnlyHas
  <2>2. QED
    BY <1>1, <2>1, HasJoined
<1>4. BlocksFirst(p) => BlocksFirst(u)
  BY <1>1, BlocksFirstJoined
<1>5. BlocksOnly(p) => BlocksOnly(u)
  <2>1. BlocksOnly(pre)
    BY DEF BlocksOnly, Only
  <2>2. QED
    BY <1>1, <2>1, BlocksOnlyJoined
<1>6. \A l, v : Settles(p, l, v) => Settles(u, l, v)
  <2>1. ~Has(pre, "compare")
    BY DEF Only, Has
  <2>2. QED
    BY <1>1, <2>1, SettlesJoined
<1>7. Only(p, {"read", "send"}) => Only(u, {"read", "send"})
  BY <1>1, OnlyJoined
<1>8. QED
  BY <1>1, <1>2, <1>3, <1>4, <1>5, <1>6, <1>7 DEF u

LEMMA EnterShape ==
    ASSUME NEW pin \in BOOLEAN
    PROVE  LET s == Pause \o UpdateLights(pin)
           IN  /\ Sound(s)
               /\ Has(s, "push") /\ Once(s, "push") /\ ~Has(s, "pop") /\ ~Has(s, "restore")
               /\ BlocksFirst(s) /\ BlocksOnly(s)
               /\ \A l \in Lights : Settles(s, l, Mark(pin, l))
<1> DEFINE p == Pause
           c == UpdateLights(pin)
           s == p \o c
<1>1. /\ Sound(p) /\ ~Has(p, "compare") /\ BlocksFirst(p)
      /\ Has(p, "push") /\ Once(p, "push") /\ ~Has(p, "pop") /\ ~Has(p, "restore")
      /\ BlocksOnly(p)
  BY PauseShape DEF BlocksOnly
<1>2. /\ Sound(c) /\ Only(c, {"compare", "store", "read", "send"})
      /\ \A l \in Lights : Settles(c, l, Mark(pin, l))
  BY UpdateLightsShape
<1> HIDE DEF p, c, s
<1>3. Sound(s) /\ Joined(p, c, s)
  BY <1>1, <1>2, SoundJoined DEF s
<1>4. ~Has(c, "push") /\ ~Has(c, "pop") /\ ~Has(c, "restore") /\ BlocksOnly(c)
  BY <1>2 DEF Only, Has, BlocksOnly
<1>5. Has(s, "push") /\ Once(s, "push") /\ ~Has(s, "pop") /\ ~Has(s, "restore")
  BY <1>1, <1>3, <1>4, HasJoined
<1>6. BlocksFirst(s) /\ BlocksOnly(s)
  BY <1>1, <1>3, <1>4, BlocksFirstJoined, BlocksOnlyJoined
<1>7. \A l \in Lights : Settles(s, l, Mark(pin, l))
  BY <1>1, <1>2, <1>3, SettlesJoined
<1>8. QED
  BY <1>3, <1>5, <1>6, <1>7 DEF s, p, c

LEMMA RefreshShape ==
    ASSUME NEW v \in States, NEW w \in States
    PROVE  LET s == SetSingleButton("MUTE", v) \o SetSingleButton("SELECT", w)
           IN  s \in Seq(RefreshOps) /\ WellTyped(s) /\ Regular(s) /\ Buffered(s, {})
<1> DEFINE a == SetSingleButton("MUTE", v)
           b == SetSingleButton("SELECT", w)
<1>1. "MUTE" \in Lights /\ "SELECT" \in Lights
  BY LightsAre
<1>2. Sound(a) /\ a \in Seq(RefreshOps) /\ Sound(b) /\ b \in Seq(RefreshOps)
  BY <1>1, SetSingleShape
<1> HIDE DEF a, b
<1>3. Sound(a \o b)
  BY <1>2, SoundJoined
<1>4. a \o b \in Seq(RefreshOps)
  BY <1>2, JoinedSeq
<1>5. QED
  BY <1>3, <1>4 DEF Sound, a, b

-----------------------------------------------------------------------------
(***************************************************************************)
(* A step of a thread: what is left of its program, and what is owed then. *)
(***************************************************************************)
LEMMA HeadOf ==
    ASSUME OpsOK, NEW t \in Threads, ~Idle(t)
    PROVE  LET s == ops[t]
           IN  /\ Head(s) = s[1] /\ 1 \in DOMAIN s /\ Len(s) \in Nat /\ Len(s) >= 1
               /\ s[1] \in InputOps /\ (t = "refresh" => s[1] \in RefreshOps)
               /\ WellTyped(s) /\ Regular(s) /\ Buffered(s, DOMAIN buf[t])
<1> DEFINE s == ops[t]
<1>1. /\ ops["input"] \in Seq(InputOps) /\ ops["refresh"] \in Seq(RefreshOps)
      /\ t = "input" \/ t = "refresh"
  BY DEF OpsOK, Threads
<1>2. RefreshOps \subseteq InputOps
  BY DEF RefreshOps, InputOps
<1>3. s # <<>>
  BY DEF Idle
<1>4. s \in Seq(InputOps) \/ s \in Seq(RefreshOps)
  BY <1>1
<1>5. WellTyped(s) /\ Regular(s) /\ Buffered(s, DOMAIN buf[t])
  BY DEF OpsOK
<1>6. t = "refresh" => s \in Seq(RefreshOps)
  BY <1>1
<1> HIDE DEF s
<1>7. ASSUME NEW S, s \in Seq(S)
      PROVE  Head(s) = s[1] /\ 1 \in DOMAIN s /\ Len(s) \in Nat /\ Len(s) >= 1 /\ s[1] \in S
  BY <1>3, <1>7
<1>8. QED
  BY <1>2, <1>4, <1>5, <1>6, <1>7 DEF s

LEMMA FinishOps ==
    ASSUME OpsOK, NEW t \in Threads, NEW n \in Nat, n <= Len(ops[t]), Finish(t, n)
    PROVE  /\ Rest(ops[t], n, ops'[t])
           /\ DOMAIN ops' = Threads
           /\ \A r \in Threads \ {t} : ops'[r] = ops[r]
           /\ ops'["input"] \in Seq(InputOps) /\ ops'["refresh"] \in Seq(RefreshOps)
           /\ \A r \in Threads : WellTyped(ops'[r]) /\ Regular(ops'[r])
<1>1. /\ DOMAIN ops' = Threads
      /\ ops'[t] = SubSeq(ops[t], n + 1, Len(ops[t]))
      /\ \A r \in Threads \ {t} : ops'[r] = ops[r]
  BY DEF Finish, OpsOK
<1>2. /\ ops["input"] \in Seq(InputOps) /\ ops["refresh"] \in Seq(RefreshOps)
      /\ t = "input" \/ t = "refresh"
      /\ Threads = {"input", "refresh"}
  BY DEF OpsOK, Threads
<1>3. ASSUME NEW S, ops[t] \in Seq(S)
      PROVE  ops'[t] \in Seq(S) /\ Rest(ops[t], n, ops'[t])
  <2> DEFINE s == ops[t]
  <2>1. s \in Seq(S) /\ n <= Len(s) /\ ops'[t] = SubSeq(s, n + 1, Len(s))
    BY <1>1, <1>3
  <2> HIDE DEF s
  <2>2. Len(s) \in Nat
    BY <2>1, LenProperties
  <2>3. n \in 0..Len(s)
    BY <2>1, <2>2
  <2>4. ops'[t] \in Seq(S) /\ Rest(s, n, ops'[t])
    BY <2>1, <2>3, RestOfSeq
  <2>5. QED
    BY <2>4 DEF s
<1>4. ops'["input"] \in Seq(InputOps) /\ ops'["refresh"] \in Seq(RefreshOps)
  <2>1. CASE t = "input"
    BY <1>1, <1>2, <1>3, <2>1
  <2>2. CASE t = "refresh"
    BY <1>1, <1>2, <1>3, <2>2
  <2>3. QED
    BY <1>2, <2>1, <2>2
<1>5. Rest(ops[t], n, ops'[t])
  BY <1>2, <1>3
<1>6. \A r \in Threads : WellTyped(ops[r]) /\ Regular(ops[r])
  BY DEF OpsOK
<1>7. WellTyped(ops'[t]) /\ Regular(ops'[t])
  BY <1>5, <1>6, RegularRest
<1>8. \A r \in Threads : WellTyped(ops'[r]) /\ Regular(ops'[r])
  BY <1>1, <1>6, <1>7
<1>9. QED
  BY <1>1, <1>4, <1>5, <1>8

\* A step that loads what it reads and empties the buffer only to send or save.
LEMMA OpsStep ==
    ASSUME OpsOK, NEW t \in Threads, ~Idle(t), Finish(t, 1),
           DOMAIN buf' = Threads,
           \A r \in Threads \ {t} : buf'[r] = buf[r],
           \E D \in SUBSET Lights : buf'[t] \in [D -> States],
           ops[t][1].do \notin {"send", "push"} => DOMAIN buf[t] \subseteq DOMAIN buf'[t],
           ops[t][1].do = "read" => ops[t][1].light \in DOMAIN buf'[t],
           ops[t][1].do = "pop" => Lights \subseteq DOMAIN buf'[t]
    PROVE  OpsOK'
<1>1. 1 <= Len(ops[t]) /\ WellTyped(ops[t]) /\ Buffered(ops[t], DOMAIN buf[t])
  BY HeadOf
<1>2. /\ Rest(ops[t], 1, ops'[t])
      /\ DOMAIN ops' = Threads
      /\ \A r \in Threads \ {t} : ops'[r] = ops[r]
      /\ ops'["input"] \in Seq(InputOps) /\ ops'["refresh"] \in Seq(RefreshOps)
      /\ \A r \in Threads : WellTyped(ops'[r]) /\ Regular(ops'[r])
  BY <1>1, FinishOps
<1>3. Buffered(ops'[t], DOMAIN buf'[t])
  BY <1>1, <1>2, BufferedStep
<1>4. \A r \in Threads \ {t} : /\ Buffered(ops'[r], DOMAIN buf'[r])
                               /\ \E D \in SUBSET Lights : buf'[r] \in [D -> States]
  BY <1>2 DEF OpsOK
<1>5. \A r \in Threads : /\ Buffered(ops'[r], DOMAIN buf'[r])
                         /\ \E D \in SUBSET Lights : buf'[r] \in [D -> States]
  BY <1>3, <1>4
<1>6. QED
  BY <1>2, <1>5 DEF OpsOK

\* What is owed stays owed, until the thread that owes it sends it.
LEMMA OwedStep ==
    ASSUME OpsOK, NEW t \in Threads, ~Idle(t), Finish(t, 1),
           \A r \in Threads \ {t} : buf'[r] = buf[r],
           NEW l, led'[l] = led[l],
           ops[t][1].do \notin {"send", "push", "pop"} /\ l \in DOMAIN buf[t] /\ buf[t][l] = led[l]
              => l \in DOMAIN buf'[t] /\ buf'[t][l] = led[l],
           ops[t][1].do = "read" /\ ops[t][1].light = l
              => l \in DOMAIN buf'[t] /\ buf'[t][l] = led[l],
           NEW r \in Threads, Owes(r, l),
           ~(r = t /\ ops[t][1].do = "send" /\ l \in DOMAIN buf[t] /\ buf[t][l] = led[l])
    PROVE  Owes(r, l)'
<1>1. Rest(ops[t], 1, ops'[t]) /\ \A q \in Threads \ {t} : ops'[q] = ops[q]
  <2>1. 1 <= Len(ops[t])
    BY HeadOf
  <2>2. QED
    BY <2>1, FinishOps
<1>2. CASE r # t
  <2>1. ops'[r] = ops[r] /\ buf'[r] = buf[r]
    BY <1>1, <1>2
  <2>2. QED
    BY <2>1 DEF Owes
<1>3. CASE r = t
  <2>1. CASE Pays(ops[t], 0, l)
    <3>1. Pays(ops'[t], 0, l) \/ (Sends(ops'[t]) /\ ops[t][1].do = "read" /\ ops[t][1].light = l)
      BY <1>1, <2>1, OwedRest
    <3>2. QED
      BY <1>3, <3>1 DEF Owes
  <2>2. CASE l \in DOMAIN buf[t] /\ buf[t][l] = led[l] /\ Sends(ops[t])
    <3>1. ops[t][1].do \notin {"compare", "push", "pop"} /\ ops[t][1].do # "send"
      BY <1>1, <1>3, <2>2, OwedRest
    <3>2. Sends(ops'[t])
      BY <1>1, <2>2, <3>1, OwedRest
    <3>3. QED
      BY <1>3, <2>2, <3>1, <3>2 DEF Owes
  <2>3. QED
    BY <1>3, <2>1, <2>2 DEF Owes
<1>4. QED
  BY <1>2, <1>3

\* Steps that neither save nor restore.
LEMMA StackStep ==
    ASSUME StackOK, NEW n, Rest(ops["input"], n, ops'["input"]),
           \A i \in 1..n : ops["input"][i].do \notin {"push", "pop"},
           UNCHANGED <<stack, pinMode>>
    PROVE  StackOK'
<1> DEFINE s == ops["input"]
           u == ops'["input"]
<1>1. /\ Once(s, "push") /\ Once(s, "pop")
      /\ Has(s, "push") => pinMode /\ Len(stack) = 0 /\ ~Has(s, "pop")
      /\ Has(s, "pop") => ~pinMode /\ Len(stack) = 1
      /\ ~Has(s, "push") /\ ~Has(s, "pop") => Len(stack) = (IF pinMode THEN 1 ELSE 0)
  BY DEF StackOK
<1>2. ASSUME NEW do \in {"push", "pop"}
      PROVE  (Has(s, do) <=> Has(u, do)) /\ (Once(s, do) => Once(u, do))
  <2>1. \A i \in 1..n : s[i].do # do
    BY <1>2
  <2>2. QED
    BY <2>1, HasRest
<1> HIDE DEF s, u
<1>3. /\ Once(u, "push") /\ Once(u, "pop")
      /\ Has(u, "push") => pinMode /\ Len(stack) = 0 /\ ~Has(u, "pop")
      /\ Has(u, "pop") => ~pinMode /\ Len(stack) = 1
      /\ ~Has(u, "push") /\ ~Has(u, "pop") => Len(stack) = (IF pinMode THEN 1 ELSE 0)
  BY <1>1, <1>2
<1>4. QED
  BY <1>3 DEF StackOK, u

-----------------------------------------------------------------------------
(***************************************************************************)
(* The pin layer's lights, step by step.                                   *)
(***************************************************************************)
\* While an update is under way a light that is not raced is still to be set.
LEMMA PinStepRefresh ==
    ASSUME PinLightsOK, ~Idle("refresh"), ops'["input"] = ops["input"],
           UNCHANGED <<pinMode, pinned, raced, blockUpdates>>
    PROVE  PinLightsOK'
<1> DEFINE s == ops["input"]
<1>1. ASSUME pinMode, NEW l \in Lights, l \notin raced
      PROVE  Clears(s, l) /\ HasStore(s, l)
  <2>1. Clears(s, l)
    BY <1>1 DEF PinLightsOK
  <2>2. HasStore(s, l)
    BY <2>1 DEF Clears, HasStore
  <2>3. QED
    BY <2>1, <2>2
<1>2. ASSUME pinMode
      PROVE  /\ ~Has(s, "restore")
             /\ \A k \in DOMAIN s : s[k].do = "block" => s[k].state = "TRUE"
             /\ ~blockUpdates => BlocksFirst(s) /\ \A l \in Lights : Clears(s, l)
             /\ \A l \in Lights : SetsLast(s, l, Wanted(l))
  BY <1>2 DEF PinLightsOK
<1>3. s = ops'["input"] /\ \A l : Wanted(l)' = Wanted(l)
  BY DEF Wanted
<1> HIDE DEF s
<1>4. QED
  BY <1>1, <1>2, <1>3 DEF PinLightsOK

\* Steps of the input thread that write no light.
LEMMA PinStepInput ==
    ASSUME PinLightsOK, Rest(ops["input"], 1, ops'["input"]),
           ops["input"][1].do # "store",
           ops["input"][1].do # "block" => blockUpdates' = blockUpdates,
           ops["input"][1].do = "block" => blockUpdates' = (ops["input"][1].state = "TRUE"),
           1 \in DOMAIN ops["input"],
           ops'["refresh"] = ops["refresh"],
           UNCHANGED <<pinMode, pinned, raced, led>>
    PROVE  PinLightsOK'
<1> DEFINE s == ops["input"]
           u == ops'["input"]
<1>1. ASSUME pinMode
      PROVE  /\ ~Has(s, "restore")
             /\ \A k \in DOMAIN s : s[k].do = "block" => s[k].state = "TRUE"
             /\ ~blockUpdates => BlocksFirst(s) /\ \A l \in Lights : Clears(s, l)
             /\ \A l \in Lights :
                   /\ SetsLast(s, l, Wanted(l))
                   /\ l \notin raced => HasStore(s, l) \/ led[l] = Wanted(l)
                   /\ l \notin raced /\ ~Clears(s, l) => Idle("refresh")
  BY <1>1 DEF PinLightsOK
<1>2. \A l : ~IsStore(s[1], l)
  BY DEF IsStore
<1>3. Idle("refresh")' <=> Idle("refresh")
  BY DEF Idle
<1>4. \A l : Wanted(l)' = Wanted(l)
  BY DEF Wanted
<1>5. /\ Rest(s, 1, u) /\ s[1].do # "store" /\ 1 \in DOMAIN s
      /\ s[1].do # "block" => blockUpdates' = blockUpdates
      /\ s[1].do = "block" => blockUpdates' = (s[1].state = "TRUE")
  OBVIOUS
<1>6. pinMode' = pinMode /\ raced' = raced /\ led' = led
  OBVIOUS
<1>7. PinLightsOK' <=>
         (pinMode' =>
             /\ ~Has(u, "restore")
             /\ \A k \in DOMAIN u : u[k].do = "block" => u[k].state = "TRUE"
             /\ ~blockUpdates' => BlocksFirst(u) /\ \A l \in Lights : Clears(u, l)
             /\ \A l \in Lights :
                   /\ SetsLast(u, l, Wanted(l)')
                   /\ l \notin raced' => HasStore(u, l) \/ led'[l] = Wanted(l)'
                   /\ l \notin raced' /\ ~Clears(u, l) => Idle("refresh")')
  BY DEF PinLightsOK
<1> HIDE DEF s, u
<1>8. ASSUME pinMode
      PROVE  /\ ~Has(u, "restore")
             /\ \A k \in DOMAIN u : u[k].do = "block" => u[k].state = "TRUE"
  <2>1. ~Has(u, "restore")
    BY <1>1, <1>5, <1>8, HasRest
  <2>2. \A k \in DOMAIN u : 1 + k \in DOMAIN s /\ u[k] = s[1 + k]
    BY <1>5, RestCases
  <2>3. QED
    BY <1>1, <1>8, <2>1, <2>2
<1>9. \A l : Clears(s, l) => Clears(u, l)
  BY <1>2, <1>5, ClearsRest
<1>10. ASSUME pinMode, ~blockUpdates'
       PROVE  BlocksFirst(u) /\ \A l \in Lights : Clears(u, l)
  <2>1. s[1].do # "block"
    BY <1>1, <1>5, <1>10
  <2>2. BlocksFirst(s) /\ \A l \in Lights : Clears(s, l)
    BY <1>1, <1>5, <1>10, <2>1
  <2>3. BlocksFirst(u)
    BY <1>5, <2>1, <2>2, ClearsRest
  <2>4. QED
    BY <1>9, <2>2, <2>3
<1>11. ASSUME pinMode, NEW l \in Lights
       PROVE  /\ SetsLast(u, l, Wanted(l))
              /\ l \notin raced => HasStore(u, l) \/ led[l] = Wanted(l)
              /\ l \notin raced /\ ~Clears(u, l) => Idle("refresh")
  <2>1. SetsLast(u, l, Wanted(l))
    BY <1>1, <1>5, <1>11, StoresRest
  <2>2. HasStore(s, l) => HasStore(u, l)
    <3>1. \A i \in 1..1 : ~IsStore(s[i], l)
      <4>1. \A i \in 1..1 : i = 1
        OBVIOUS
      <4>2. QED
        BY <1>2, <4>1
    <3>2. QED
      BY <1>5, <3>1, StoresRest
  <2>3. QED
    BY <1>1, <1>9, <1>11, <2>1, <2>2
<1>12. QED
  BY <1>3, <1>4, <1>6, <1>7, <1>8, <1>10, <1>11

\* A light is set: unless an update may still write it, it ends up as wanted.
LEMMA PinStepStore ==
    ASSUME PinLightsOK, Rest(ops["input"], 1, ops'["input"]),
           NEW x \in Lights, NEW v, IsStore(ops["input"][1], x), ops["input"][1].state = v,
           1 \in DOMAIN ops["input"],
           ops'["refresh"] = ops["refresh"],
           led'[x] = v, \A l \in Lights \ {x} : led'[l] = led[l],
           raced' = IF Idle("refresh") THEN raced \ {x} ELSE raced \cup {x},
           UNCHANGED <<pinMode, pinned, blockUpdates>>
    PROVE  PinLightsOK'
<1> DEFINE s == ops["input"]
           u == ops'["input"]
<1>1. ASSUME pinMode
      PROVE  /\ ~Has(s, "restore")
             /\ \A k \in DOMAIN s : s[k].do = "block" => s[k].state = "TRUE"
             /\ ~blockUpdates => BlocksFirst(s)
             /\ \A l \in Lights :
                   /\ SetsLast(s, l, Wanted(l))
                   /\ l \notin raced => HasStore(s, l) \/ led[l] = Wanted(l)
                   /\ l \notin raced /\ ~Clears(s, l) => Idle("refresh")
  BY <1>1 DEF PinLightsOK
<1>2. Idle("refresh")' <=> Idle("refresh")
  BY DEF Idle
<1>3. \A l : Wanted(l)' = Wanted(l)
  BY DEF Wanted
<1>4. /\ Rest(s, 1, u) /\ s[1].do = "store" /\ 1 \in DOMAIN s
      /\ s[1].light = x /\ s[1].state = v
  BY DEF IsStore
<1>5. PinLightsOK' <=>
         (pinMode' =>
             /\ ~Has(u, "restore")
             /\ \A k \in DOMAIN u : u[k].do = "block" => u[k].state = "TRUE"
             /\ ~blockUpdates' => BlocksFirst(u) /\ \A l \in Lights : Clears(u, l)
             /\ \A l \in Lights :
                   /\ SetsLast(u, l, Wanted(l)')
                   /\ l \notin raced' => HasStore(u, l) \/ led'[l] = Wanted(l)'
                   /\ l \notin raced' /\ ~Clears(u, l) => Idle("refresh")')
  BY DEF PinLightsOK
<1> HIDE DEF s, u
<1>6. ASSUME pinMode
      PROVE  /\ ~Has(u, "restore")
             /\ \A k \in DOMAIN u : u[k].do = "block" => u[k].state = "TRUE"
  <2>1. ~Has(u, "restore")
    BY <1>1, <1>4, <1>6, HasRest
  <2>2. \A k \in DOMAIN u : 1 + k \in DOMAIN s /\ u[k] = s[1 + k]
    BY <1>4, RestCases
  <2>3. QED
    BY <1>1, <1>6, <2>1, <2>2
<1>7. pinMode => blockUpdates
  <2>1. ~BlocksFirst(s)
    BY <1>4, ClearsRest
  <2>2. QED
    BY <1>1, <2>1
<1>8. ASSUME pinMode, NEW l \in Lights
      PROVE  /\ SetsLast(u, l, Wanted(l))
             /\ l \notin raced' => HasStore(u, l) \/ led'[l] = Wanted(l)
             /\ l \notin raced' /\ ~Clears(u, l) => Idle("refresh")
  <2>1. SetsLast(u, l, Wanted(l))
    BY <1>1, <1>4, <1>8, StoresRest
  <2>2. CASE l = x
    <3>1. l \notin raced' => Idle("refresh")
      BY <2>2
    <3>2. ASSUME ~HasStore(u, l)
          PROVE  v = Wanted(l)
      <4>1. \A i \in 1..1 : i = 1
        OBVIOUS
      <4>2. 1 \in 1..1 /\ IsStore(s[1], l) /\ \A j \in 1..1 : j <= 1
        BY <1>4, <2>2 DEF IsStore
      <4>3. SetsLast(s, l, Wanted(l))
        BY <1>1, <1>8
      <4>4. s[1].state = Wanted(l)
        BY <1>4, <3>2, <4>2, <4>3, StoresRest
      <4>5. QED
        BY <1>4, <4>4
    <3>3. QED
      BY <2>1, <2>2, <3>1, <3>2
  <2>3. CASE l # x
    <3>1. (l \notin raced' => l \notin raced) /\ led'[l] = led[l]
      BY <2>3
    <3>2. ~IsStore(s[1], l)
      BY <1>4, <2>3 DEF IsStore
    <3>3. HasStore(s, l) => HasStore(u, l)
      <4>1. \A i \in 1..1 : i = 1
        OBVIOUS
      <4>2. QED
        BY <1>4, <3>2, <4>1, StoresRest
    <3>4. Clears(s, l) => Clears(u, l)
      BY <1>4, <3>2, ClearsRest
    <3>5. QED
      BY <1>1, <1>8, <2>1, <3>1, <3>3, <3>4
  <2>4. QED
    BY <2>2, <2>3
<1>9. pinMode' = pinMode /\ blockUpdates' = blockUpdates
  OBVIOUS
<1>10. QED
  BY <1>2, <1>3, <1>5, <1>6, <1>7, <1>8, <1>9

\* A light that has its state already is not set: nothing is lost by that.
LEMMA PinStepSkip ==
    ASSUME PinLightsOK, OpsOK, ~Idle("input"), Rest(ops["input"], 4, ops'["input"]),
           ops["input"][1].do = "compare",
           led[ops["input"][1].light] = ops["input"][1].state,
           ops'["refresh"] = ops["refresh"],
           UNCHANGED <<pinMode, pinned, raced, led, blockUpdates>>
    PROVE  PinLightsOK'
<1> DEFINE s == ops["input"]
           u == ops'["input"]
           x == s[1].light
<1>1. ASSUME pinMode
      PROVE  /\ ~Has(s, "restore")
             /\ \A k \in DOMAIN s : s[k].do = "block" => s[k].state = "TRUE"
             /\ ~blockUpdates => BlocksFirst(s)
             /\ \A l \in Lights :
                   /\ SetsLast(s, l, Wanted(l))
                   /\ l \notin raced => HasStore(s, l) \/ led[l] = Wanted(l)
                   /\ l \notin raced /\ ~Clears(s, l) => Idle("refresh")
  BY <1>1 DEF PinLightsOK
<1>2. Idle("refresh")' <=> Idle("refresh")
  BY DEF Idle
<1>3. \A l : Wanted(l)' = Wanted(l)
  BY DEF Wanted
<1>4. /\ Rest(s, 4, u) /\ s[1].do = "compare" /\ led[x] = s[1].state
      /\ 1 \in DOMAIN s /\ Regular(s) /\ WellTyped(s)
  <2>1. "input" \in Threads
    BY DEF Threads
  <2>2. QED
    BY <2>1, HeadOf
<1>5. PinLightsOK' <=>
         (pinMode' =>
             /\ ~Has(u, "restore")
             /\ \A k \in DOMAIN u : u[k].do = "block" => u[k].state = "TRUE"
             /\ ~blockUpdates' => BlocksFirst(u) /\ \A l \in Lights : Clears(u, l)
             /\ \A l \in Lights :
                   /\ SetsLast(u, l, Wanted(l)')
                   /\ l \notin raced' => HasStore(u, l) \/ led'[l] = Wanted(l)'
                   /\ l \notin raced' /\ ~Clears(u, l) => Idle("refresh")')
  BY DEF PinLightsOK
<1>6. \A i \in 1..4 : i = 1 \/ i = 2 \/ i = 3 \/ i = 4
  OBVIOUS
<1>7. /\ s[2].do = "store" /\ s[2].light = x /\ s[2].state = s[1].state
      /\ s[3].do = "read" /\ s[4].do = "send" /\ s[1].do = "compare"
  <2>1. s[1 + 1] = Op("store", s[1].light, s[1].state) /\ s[1 + 2].do = "read" /\ s[1 + 3].do = "send"
    BY <1>4 DEF Regular
  <2>2. s[2] = Op("store", s[1].light, s[1].state) /\ s[3].do = "read" /\ s[4].do = "send"
    BY <2>1
  <2>3. QED
    BY <1>4, <2>2 DEF Op
<1> HIDE DEF s, u, x
<1>8. ASSUME pinMode
      PROVE  /\ ~Has(u, "restore")
             /\ \A k \in DOMAIN u : u[k].do = "block" => u[k].state = "TRUE"
  <2>1. ~Has(u, "restore")
    BY <1>1, <1>4, <1>8, HasRest
  <2>2. \A k \in DOMAIN u : 4 + k \in DOMAIN s /\ u[k] = s[4 + k]
    BY <1>4, RestCases
  <2>3. QED
    BY <1>1, <1>8, <2>1, <2>2
<1>9. \A k \in DOMAIN s : 1 \in 1..k
  BY <1>4 DEF Rest
<1>10. ~BlocksFirst(s) /\ \A l : ~Clears(s, l)
  BY <1>4, <1>9 DEF BlocksFirst, Clears
<1>11. ASSUME pinMode, NEW l \in Lights
       PROVE  /\ SetsLast(u, l, Wanted(l))
              /\ l \notin raced => HasStore(u, l) \/ led[l] = Wanted(l)
              /\ l \notin raced => Idle("refresh")
  <2>1. SetsLast(s, l, Wanted(l)) /\ SetsLast(u, l, Wanted(l))
    BY <1>1, <1>4, <1>11, StoresRest
  <2>2. CASE l = x
    <3>1. ASSUME ~HasStore(u, l)
          PROVE  led[l] = Wanted(l)
      <4>1. /\ 2 \in 1..4 /\ IsStore(s[2], l)
            /\ \A j \in 1..4 : IsStore(s[j], l) => j <= 2
        BY <1>6, <1>7, <2>2 DEF IsStore
      <4>2. s[2].state = Wanted(l)
        BY <1>4, <2>1, <3>1, <4>1, StoresRest
      <4>3. QED
        BY <1>4, <1>7, <2>2, <4>2
    <3>2. QED
      BY <1>1, <1>10, <1>11, <2>1, <3>1
  <2>3. CASE l # x
    <3>1. \A i \in 1..4 : ~IsStore(s[i], l)
      BY <1>6, <1>7, <2>3 DEF IsStore
    <3>2. HasStore(s, l) => HasStore(u, l)
      BY <1>4, <2>1, <3>1, StoresRest
    <3>3. QED
      BY <1>1, <1>10, <1>11, <2>1, <3>2
  <2>4. QED
    BY <2>2, <2>3
<1>12. UNCHANGED <<pinMode, raced, led, blockUpdates>>
  OBVIOUS
<1>13. QED
  BY <1>1, <1>2, <1>3, <1>5, <1>8, <1>10, <1>11, <1>12

-----------------------------------------------------------------------------
(***************************************************************************)
(* Each step of a thread keeps the invariant.                              *)
(***************************************************************************)
LEMMA TypeStep ==
    ASSUME TypeOK, StackOK',
           UNCHANGED <<pinMode, pinned, refreshNeeded, since, on, rebooted, desk, keys>>,
           led' \in [Lights -> States], surface' \in [Lights -> States],
           stack' \in Seq([Lights -> States]), blockUpdates' \in BOOLEAN,
           excused' \subseteq Lights, raced' \subseteq Lights, troubles' \in 0..MaxTroubles
    PROVE  TypeOK'
<1>1. ASSUME ops'["input"] = <<>>
      PROVE  Len(stack') = (IF pinMode' THEN 1 ELSE 0)
  <2>1. ~Has(ops'["input"], "push") /\ ~Has(ops'["input"], "pop")
    BY <1>1, EmptyHas
  <2>2. QED
    BY <2>1 DEF StackOK
<1>2. Idle("input")' => Len(stack') = (IF pinMode' THEN 1 ELSE 0)
  BY <1>1 DEF Idle
<1>3. /\ blockUpdates \in BOOLEAN /\ pinMode \in BOOLEAN /\ pinned \in BOOLEAN
      /\ refreshNeeded \in BOOLEAN /\ on \in BOOLEAN /\ rebooted \in BOOLEAN
      /\ since \in 0..(Limit + 1) /\ desk \in [Lights -> States] \cup {Gone}
      /\ keys \in 0..MaxKeys
  BY DEF TypeOK
<1>4. {blockUpdates', pinMode', pinned', refreshNeeded', on', rebooted'} \subseteq BOOLEAN
  BY <1>3
<1>5. /\ since' \in 0..(Limit + 1) /\ desk' \in [Lights -> States] \cup {Gone}
      /\ keys' \in 0..MaxKeys
  BY <1>3
<1>6. QED
  BY <1>2, <1>4, <1>5 DEF TypeOK

LEMMA OwedSame ==
    ASSUME WrongIsOwed, UNCHANGED <<surface, on, rebooted, refreshNeeded, excused, led>>,
           \A r \in Threads, l \in Lights : Owes(r, l) => Owes(r, l)'
    PROVE  WrongIsOwed'
BY DEF WrongIsOwed

LEMMA StackSame ==
    ASSUME StackOK, UNCHANGED <<stack, pinMode>>, ops'["input"] = ops["input"]
    PROVE  StackOK'
BY DEF StackOK

LEMMA ThreadsAre == Threads = {"input", "refresh"}
BY DEF Threads

LEMMA CompareStep ==
    ASSUME IInv, NEW t \in Threads, Compare(t)
    PROVE  IInv'
<1> DEFINE s == ops[t]
           n == IF led[s[1].light] = s[1].state THEN 4 ELSE 1
<1>1. ~Idle(t) /\ Head(ops[t]).do = "compare" /\ TypeOK /\ OpsOK /\ StackOK /\ WrongIsOwed /\ PinLightsOK
  BY DEF IInv, Compare, Doing
<1>2. /\ Head(s) = s[1] /\ 1 \in DOMAIN s /\ Len(s) \in Nat /\ Len(s) >= 1
      /\ s[1].do = "compare" /\ WellTyped(s) /\ Regular(s) /\ Buffered(s, DOMAIN buf[t])
  BY <1>1, HeadOf
<1>3. Finish(t, n)
  BY <1>2 DEF Compare
<1>4. UNCHANGED <<led, stack, blockUpdates, buf, layerVars, surfaceVars, desk, raced, keys, troubles>>
  BY DEF Compare
<1>5. UNCHANGED <<pinMode, pinned, refreshNeeded, since, surface, on, rebooted, excused>>
  BY <1>4 DEF layerVars, surfaceVars
<1>6. /\ s[2].do = "store" /\ s[3].do = "read" /\ s[4].do = "send" /\ 1 + 3 \in DOMAIN s
  <2>1. /\ s[1 + 1] = Op("store", s[1].light, s[1].state) /\ s[1 + 2].do = "read"
        /\ s[1 + 3].do = "send" /\ 1 + 3 \in DOMAIN s
    BY <1>2 DEF Regular
  <2>2. Op("store", s[1].light, s[1].state).do = "store"
    BY DEF Op
  <2>3. QED
    BY <2>1, <2>2
<1>7. n \in Nat /\ n <= Len(s) /\ (n = 1 \/ n = 4)
  <2>1. DOMAIN s = 1..Len(s)
    <3>1. s \in Seq(InputOps) \/ s \in Seq(RefreshOps)
      BY <1>1, ThreadsAre DEF OpsOK
    <3>2. QED
      BY <3>1, LenProperties
  <2>2. QED
    BY <1>2, <1>6, <2>1
<1>8. /\ Rest(s, n, ops'[t])
      /\ DOMAIN ops' = Threads
      /\ \A r \in Threads \ {t} : ops'[r] = ops[r]
      /\ ops'["input"] \in Seq(InputOps) /\ ops'["refresh"] \in Seq(RefreshOps)
      /\ \A r \in Threads : WellTyped(ops'[r]) /\ Regular(ops'[r])
  BY <1>1, <1>3, <1>7, FinishOps
<1>9. OpsOK'
  <2>1. Buffered(ops'[t], DOMAIN buf[t])
    <3>1. CASE n = 1
      <4>1. Rest(s, 1, ops'[t])
        BY <1>8, <3>1
      <4>2. QED
        BY <1>2, <4>1, BufferedStep
    <3>2. CASE n = 4
      <4>1. Rest(s, 4, ops'[t])
        BY <1>8, <3>2
      <4>2. QED
        BY <1>2, <1>6, <4>1, BufferedSkip
    <3>3. QED
      BY <1>7, <3>1, <3>2
  <2>2. \A r \in Threads : /\ Buffered(ops'[r], DOMAIN buf'[r])
                           /\ \E D \in SUBSET Lights : buf'[r] \in [D -> States]
    BY <1>1, <1>4, <1>8, <2>1 DEF OpsOK
  <2>3. DOMAIN buf' = Threads
    BY <1>1, <1>4 DEF OpsOK
  <2>4. QED
    BY <1>8, <2>2, <2>3 DEF OpsOK
<1>10. StackOK'
  <2>1. CASE t = "input"
    <3>1. \A i \in 1..n : i = 1 \/ i = 2 \/ i = 3 \/ i = 4
      BY <1>7
    <3>2. \A i \in 1..n : s[i].do \notin {"push", "pop"}
      BY <1>2, <1>6, <3>1
    <3>3. QED
      BY <1>1, <1>4, <1>5, <1>8, <2>1, <3>2, StackStep
  <2>2. CASE t # "input"
    <3>1. ops'["input"] = ops["input"]
      BY <1>8, <2>2, ThreadsAre
    <3>2. QED
      BY <1>1, <1>4, <1>5, <3>1, StackSame
  <2>3. QED
    BY <2>1, <2>2
<1>11. TypeOK'
  <2>1. /\ led \in [Lights -> States] /\ surface \in [Lights -> States]
        /\ stack \in Seq([Lights -> States]) /\ blockUpdates \in BOOLEAN
        /\ excused \subseteq Lights /\ raced \subseteq Lights /\ troubles \in 0..MaxTroubles
    BY <1>1 DEF TypeOK
  <2>2. QED
    BY <1>1, <1>4, <1>5, <1>10, <2>1, TypeStep
<1>12. WrongIsOwed'
  <2>1. ASSUME NEW r \in Threads, NEW l \in Lights, Owes(r, l)
        PROVE  Owes(r, l)'
    <3>1. r # t
      <4>1. \A k \in DOMAIN s : 1 \in 1..k
        <5>1. s \in Seq(InputOps) \/ s \in Seq(RefreshOps)
          BY <1>1, ThreadsAre DEF OpsOK
        <5>2. DOMAIN s = 1..Len(s)
          BY <5>1, LenProperties
        <5>3. QED
          BY <1>2, <5>2
      <4>2. ~Sends(s)
        BY <1>2, <4>1 DEF Sends
      <4>3. ~Pays(s, 0, l)
        <5>1. 0 + 1 = 1
          OBVIOUS
        <5>2. QED
          BY <1>2, <4>1, <5>1 DEF Pays
      <4>4. QED
        BY <2>1, <4>2, <4>3 DEF Owes
    <3>2. ops'[r] = ops[r] /\ buf'[r] = buf[r] /\ led' = led
      BY <1>4, <1>8, <3>1
    <3>3. QED
      BY <2>1, <3>2 DEF Owes
  <2>2. QED
    BY <1>1, <1>4, <1>5, <2>1, OwedSame
<1>13. PinLightsOK'
  <2>1. CASE t = "refresh"
    <3>1. ops'["input"] = ops["input"]
      BY <1>8, <2>1, ThreadsAre
    <3>2. QED
      BY <1>1, <1>4, <1>5, <2>1, <3>1, PinStepRefresh
  <2>2. CASE t = "input"
    <3>1. ops'["refresh"] = ops["refresh"]
      BY <1>8, <2>2, ThreadsAre
    <3>2. CASE n = 1
      <4>1. Rest(ops["input"], 1, ops'["input"])
        BY <1>8, <2>2, <3>2
      <4>2. QED
        BY <1>1, <1>2, <1>4, <1>5, <2>2, <3>1, <4>1, PinStepInput
    <3>3. CASE n = 4
      <4>1. Rest(ops["input"], 4, ops'["input"]) /\ led[s[1].light] = s[1].state
        BY <1>8, <2>2, <3>3
      <4>2. QED
        BY <1>1, <1>2, <1>4, <1>5, <2>2, <3>1, <4>1, PinStepSkip
    <3>4. QED
      BY <1>7, <3>2, <3>3
  <2>3. QED
    BY <2>1, <2>2, ThreadsAre
<1>14. QED
  BY <1>9, <1>10, <1>11, <1>12, <1>13 DEF IInv

LEMMA StepOne ==
    ASSUME IInv, NEW t \in Threads, ~Idle(t), Finish(t, 1)
    PROVE  LET s == ops[t]
           IN  /\ Head(s) = s[1] /\ 1 \in DOMAIN s
               /\ s[1] \in InputOps /\ (t = "refresh" => s[1] \in RefreshOps)
               /\ WellTyped(s) /\ Regular(s) /\ Buffered(s, DOMAIN buf[t])
               /\ Rest(s, 1, ops'[t]) /\ \A r \in Threads \ {t} : ops'[r] = ops[r]
<1>1. OpsOK
  BY DEF IInv
<1>2. 1 <= Len(ops[t])
  BY <1>1, HeadOf
<1>3. Rest(ops[t], 1, ops'[t]) /\ \A r \in Threads \ {t} : ops'[r] = ops[r]
  BY <1>1, <1>2, FinishOps
<1>4. QED
  BY <1>1, <1>3, HeadOf

LEMMA StackQuiet ==
    ASSUME IInv, NEW t \in Threads, ~Idle(t), Finish(t, 1),
           ops[t][1].do \notin {"push", "pop"}, UNCHANGED <<stack, pinMode>>
    PROVE  StackOK'
<1>1. StackOK
  BY DEF IInv
<1>2. Rest(ops[t], 1, ops'[t]) /\ \A r \in Threads \ {t} : ops'[r] = ops[r]
  BY StepOne
<1>3. CASE t = "input"
  <2>1. \A i \in 1..1 : i = 1
    OBVIOUS
  <2>2. \A i \in 1..1 : ops["input"][i].do \notin {"push", "pop"}
    BY <1>3, <2>1
  <2>3. QED
    BY <1>1, <1>2, <1>3, <2>2, StackStep
<1>4. CASE t # "input"
  <2>1. ops'["input"] = ops["input"]
    BY <1>2, <1>4, ThreadsAre
  <2>2. QED
    BY <1>1, <2>1, StackSame
<1>5. QED
  BY <1>3, <1>4

LEMMA PinQuiet ==
    ASSUME IInv, NEW t \in Threads, ~Idle(t), Finish(t, 1),
           ops[t][1].do # "store",
           ops[t][1].do # "block" => blockUpdates' = blockUpdates,
           ops[t][1].do = "block" => blockUpdates' = (ops[t][1].state = "TRUE"),
           UNCHANGED <<pinMode, pinned, raced, led>>
    PROVE  PinLightsOK'
<1>1. PinLightsOK
  BY DEF IInv
<1>2. /\ Rest(ops[t], 1, ops'[t]) /\ \A r \in Threads \ {t} : ops'[r] = ops[r]
      /\ 1 \in DOMAIN ops[t] /\ (t = "refresh" => ops[t][1] \in RefreshOps)
  BY StepOne
<1>3. CASE t = "input"
  <2>1. ops'["refresh"] = ops["refresh"]
    BY <1>2, <1>3, ThreadsAre
  <2>2. QED
    BY <1>1, <1>2, <1>3, <2>1, PinStepInput
<1>4. CASE t = "refresh"
  <2>1. ops'["input"] = ops["input"]
    BY <1>2, <1>4, ThreadsAre
  <2>2. ops[t][1].do # "block"
    BY <1>2, <1>4 DEF RefreshOps
  <2>3. QED
    BY <1>1, <1>4, <2>1, <2>2, PinStepRefresh
<1>5. QED
  BY <1>3, <1>4, ThreadsAre

LEMMA StoreStep ==
    ASSUME IInv, NEW t \in Threads, Store(t)
    PROVE  IInv'
<1> DEFINE s == ops[t]
           x == s[1].light
           v == IF s[1].do = "store" THEN s[1].state ELSE buf[t][x]
<1>1. TypeOK /\ OpsOK /\ StackOK /\ WrongIsOwed /\ PinLightsOK
  BY DEF IInv
<1>2. ~Idle(t) /\ Head(s).do \in {"store", "restore"} /\ Finish(t, 1)
  BY DEF Store, Doing
<1>3. /\ Head(s) = s[1] /\ 1 \in DOMAIN s
      /\ s[1] \in InputOps /\ (t = "refresh" => s[1] \in RefreshOps)
      /\ WellTyped(s) /\ Regular(s) /\ Buffered(s, DOMAIN buf[t])
      /\ Rest(s, 1, ops'[t]) /\ \A r \in Threads \ {t} : ops'[r] = ops[r]
  BY <1>2, StepOne
<1>4. /\ s[1].do \in {"store", "restore"} /\ x \in Lights
      /\ s[1].do = "store" => s[1].state \in States
  BY <1>2, <1>3 DEF WellTyped
<1>5. UNCHANGED <<stack, blockUpdates, buf, layerVars, surfaceVars, desk, keys, troubles>>
  BY DEF Store
<1>6. UNCHANGED <<pinMode, pinned, refreshNeeded, since, surface, on, rebooted, excused>>
  BY <1>5 DEF layerVars, surfaceVars
<1>7. /\ led' = [led EXCEPT ![x] = v]
      /\ raced' = CASE t = "refresh"   -> raced
                    [] Idle("refresh") -> raced \ {x}
                    [] OTHER           -> raced \cup {x}
  BY <1>3 DEF Store
<1>8. \E D \in SUBSET Lights : buf[t] \in [D -> States]
  BY <1>1 DEF OpsOK
<1>9. v \in States
  <2>1. CASE s[1].do = "store"
    BY <1>4, <2>1
  <2>2. CASE s[1].do = "restore"
    <3>1. Loads(s, DOMAIN buf[t], 1, x)
      BY <1>3, <2>2 DEF Buffered
    <3>2. \A j \in 1..(1 - 1) : FALSE
      OBVIOUS
    <3>3. x \in DOMAIN buf[t]
      BY <3>1, <3>2 DEF Loads
    <3>4. QED
      BY <1>8, <2>2, <3>3
  <2>3. QED
    BY <1>4, <2>1, <2>2
<1> HIDE DEF v
<1>10. /\ led' \in [Lights -> States] /\ led'[x] = v
       /\ \A l \in Lights \ {x} : led'[l] = led[l]
  BY <1>1, <1>4, <1>7, <1>9 DEF TypeOK
<1>11. OpsOK'
  <2>1. DOMAIN buf' = Threads /\ buf' = buf
    BY <1>1, <1>5 DEF OpsOK
  <2>2. QED
    BY <1>1, <1>2, <1>4, <1>8, <2>1, OpsStep
<1>12. StackOK'
  BY <1>2, <1>4, <1>5, <1>6, StackQuiet
<1>13. TypeOK'
  <2>1. /\ surface \in [Lights -> States] /\ stack \in Seq([Lights -> States])
        /\ blockUpdates \in BOOLEAN
        /\ excused \subseteq Lights /\ raced \subseteq Lights /\ troubles \in 0..MaxTroubles
    BY <1>1 DEF TypeOK
  <2>2. raced' \subseteq Lights
    BY <1>4, <1>7, <2>1
  <2>3. QED
    BY <1>1, <1>5, <1>6, <1>10, <1>12, <2>1, <2>2, TypeStep
<1>14. WrongIsOwed'
  <2>1. ASSUME NEW l \in Lights, l = x
        PROVE  Owes(t, l)'
    <3>1. Pays(s, 1, l)
      BY <1>3, <1>4, <2>1 DEF Regular, IsWrite
    <3>2. Pays(s, 1 + 0, l)
      BY <3>1
    <3>3. Pays(ops'[t], 0, l)
      BY <1>3, <3>2, PaysRest
    <3>4. QED
      BY <3>3 DEF Owes
  <2>2. ASSUME NEW r \in Threads, NEW l \in Lights \ {x}, Owes(r, l)
        PROVE  Owes(r, l)'
    <3>1. led'[l] = led[l] /\ buf' = buf /\ s[1].do # "read" /\ s[1].do # "send"
      BY <1>4, <1>5, <1>10
    <3>2. QED
      BY <1>1, <1>2, <2>2, <3>1, OwedStep
  <2>3. ASSUME on /\ ~rebooted /\ ~refreshNeeded, NEW l \in Lights \ excused
        PROVE  surface[l] = led'[l] \/ \E r \in Threads : Owes(r, l)'
    <3>0. l \in Lights
      OBVIOUS
    <3>1. CASE l = x
      BY <2>1, <3>0, <3>1
    <3>2. CASE l # x
      <4>1. surface[l] = led[l] \/ \E r \in Threads : Owes(r, l)
        BY <1>1, <2>3 DEF WrongIsOwed
      <4>2. QED
        BY <1>10, <2>2, <2>3, <3>2, <4>1
    <3>3. QED
      BY <3>1, <3>2
  <2>4. QED
    BY <1>6, <2>3 DEF WrongIsOwed
<1>15. PinLightsOK'
  <2>1. CASE t = "refresh"
    <3>1. ops'["input"] = ops["input"] /\ raced' = raced
      BY <1>2, <1>3, <1>7, <2>1, ThreadsAre
    <3>2. QED
      BY <1>1, <1>2, <1>5, <1>6, <2>1, <3>1, PinStepRefresh
  <2>2. CASE t = "input" /\ s[1].do = "store"
    <3>1. ops'["refresh"] = ops["refresh"]
      BY <1>3, <2>2, ThreadsAre
    <3>2. raced' = IF Idle("refresh") THEN raced \ {x} ELSE raced \cup {x}
      BY <1>7, <2>2
    <3>3. IsStore(s[1], x) /\ s[1].state = v
      BY <2>2 DEF IsStore, v
    <3>4. QED
      BY <1>1, <1>3, <1>4, <1>5, <1>6, <1>10, <2>2, <3>1, <3>2, <3>3, PinStepStore
  <2>3. CASE t = "input" /\ s[1].do = "restore"
    <3>1. Has(ops["input"], "restore")
      BY <1>3, <2>3 DEF Has
    <3>2. ~pinMode
      BY <1>1, <3>1 DEF PinLightsOK
    <3>3. QED
      BY <1>6, <3>2 DEF PinLightsOK
  <2>4. QED
    BY <1>4, <2>1, <2>2, <2>3, ThreadsAre
<1>16. QED
  BY <1>11, <1>12, <1>13, <1>14, <1>15 DEF IInv

LEMMA ReadStep ==
    ASSUME IInv, NEW t \in Threads, ReadLight(t)
    PROVE  IInv'
<1> DEFINE s == ops[t]
           x == s[1].light
<1>1. TypeOK /\ OpsOK /\ StackOK /\ WrongIsOwed /\ PinLightsOK
  BY DEF IInv
<1>2. ~Idle(t) /\ Head(s).do = "read" /\ Finish(t, 1)
  BY DEF ReadLight, Doing
<1>3. /\ Head(s) = s[1] /\ 1 \in DOMAIN s /\ WellTyped(s)
  BY <1>2, StepOne
<1>4. s[1].do = "read" /\ x \in Lights
  BY <1>2, <1>3 DEF WellTyped
<1>5. UNCHANGED <<led, stack, blockUpdates, layerVars, surfaceVars, desk, raced, keys, troubles>>
  BY DEF ReadLight
<1>6. UNCHANGED <<pinMode, pinned, refreshNeeded, since, surface, on, rebooted, excused>>
  BY <1>5 DEF layerVars, surfaceVars
<1>7. buf' = [buf EXCEPT ![t] = Put(buf[t], x, led[x])]
  BY <1>3 DEF ReadLight
<1>8. DOMAIN buf = Threads /\ \E D \in SUBSET Lights : buf[t] \in [D -> States]
  BY <1>1 DEF OpsOK
<1>9. led \in [Lights -> States]
  BY <1>1 DEF TypeOK
<1>10. /\ DOMAIN buf' = Threads /\ \A r \in Threads \ {t} : buf'[r] = buf[r]
       /\ DOMAIN buf'[t] = DOMAIN buf[t] \cup {x}
       /\ buf'[t][x] = led[x]
       /\ \A l \in DOMAIN buf[t] : l # x => buf'[t][l] = buf[t][l]
       /\ buf'[t] \in [DOMAIN buf[t] \cup {x} -> States]
  <2>1. /\ DOMAIN buf' = Threads /\ \A r \in Threads \ {t} : buf'[r] = buf[r]
        /\ buf'[t] = Put(buf[t], x, led[x])
    BY <1>7, <1>8
  <2>2. led[x] \in States
    BY <1>4, <1>9
  <2>3. QED
    BY <1>8, <2>1, <2>2 DEF Put
<1>11. OpsOK'
  <2>1. DOMAIN buf[t] \cup {x} \in SUBSET Lights
    BY <1>4, <1>8
  <2>2. \E D \in SUBSET Lights : buf'[t] \in [D -> States]
    BY <1>10, <2>1
  <2>3. QED
    BY <1>1, <1>2, <1>4, <1>10, <2>2, OpsStep
<1>12. StackOK'
  BY <1>2, <1>4, <1>5, <1>6, StackQuiet
<1>13. TypeOK'
  <2>1. /\ surface \in [Lights -> States] /\ stack \in Seq([Lights -> States])
        /\ blockUpdates \in BOOLEAN
        /\ excused \subseteq Lights /\ raced \subseteq Lights /\ troubles \in 0..MaxTroubles
    BY <1>1 DEF TypeOK
  <2>2. QED
    BY <1>1, <1>5, <1>6, <1>9, <1>12, <2>1, TypeStep
<1>14. WrongIsOwed'
  <2>1. ASSUME NEW r \in Threads, NEW l \in Lights, Owes(r, l)
        PROVE  Owes(r, l)'
    <3>1. l \in DOMAIN buf[t] /\ buf[t][l] = led[l] => l \in DOMAIN buf'[t] /\ buf'[t][l] = led[l]
      BY <1>10
    <3>2. x = l => l \in DOMAIN buf'[t] /\ buf'[t][l] = led[l]
      BY <1>10
    <3>3. led'[l] = led[l] /\ s[1].do # "send"
      BY <1>4, <1>5
    <3>4. QED
      BY <1>1, <1>2, <1>10, <2>1, <3>1, <3>2, <3>3, OwedStep
  <2>2. QED
    BY <1>1, <1>5, <1>6, <2>1, OwedSame
<1>15. PinLightsOK'
  BY <1>2, <1>4, <1>5, <1>6, PinQuiet
<1>16. QED
  BY <1>11, <1>12, <1>13, <1>14, <1>15 DEF IInv

LEMMA NothingType == Nothing \in [{} -> States] /\ DOMAIN Nothing = {} /\ {} \in SUBSET Lights
BY DEF Nothing

LEMMA SendStep ==
    ASSUME IInv, NEW t \in Threads, Send(t)
    PROVE  IInv'
<1> DEFINE s == ops[t]
           sent == DOMAIN buf[t]
           stale == {l \in sent : buf[t][l] # led[l]}
<1>1. TypeOK /\ OpsOK /\ StackOK /\ WrongIsOwed /\ PinLightsOK
  BY DEF IInv
<1>2. ~Idle(t) /\ Head(s).do = "send" /\ Finish(t, 1)
  BY DEF Send, Doing
<1>3. s[1].do = "send"
  BY <1>2, StepOne
<1>4. /\ UNCHANGED <<led, stack, blockUpdates, layerVars, on, rebooted, desk, raced, keys>>
      /\ buf' = [buf EXCEPT ![t] = Nothing]
  BY DEF Send
<1>5. UNCHANGED <<pinMode, pinned, refreshNeeded, since, on, rebooted>>
  BY <1>4 DEF layerVars
<1>6. /\ DOMAIN buf = Threads
      /\ sent \subseteq Lights /\ \A l \in sent : buf[t][l] \in States
  BY <1>1 DEF OpsOK
<1>7. /\ surface \in [Lights -> States] /\ excused \subseteq Lights /\ raced \subseteq Lights
      /\ troubles \in 0..MaxTroubles /\ led \in [Lights -> States]
      /\ stack \in Seq([Lights -> States]) /\ blockUpdates \in BOOLEAN
  BY <1>1 DEF TypeOK
<1>8. \/ /\ on
         /\ surface' = [l \in Lights |-> IF l \in sent THEN buf[t][l] ELSE surface[l]]
         /\ excused' = (excused \ sent) \cup stale
         /\ troubles' = troubles
      \/ /\ on /\ troubles < MaxTroubles
         /\ troubles' = troubles + 1
         /\ excused' = excused \cup {l \in sent : surface[l] # buf[t][l]}
         /\ surface' = surface
      \/ /\ ~on
         /\ surface' = surface /\ excused' = excused /\ troubles' = troubles
  BY DEF Send
<1>9. /\ DOMAIN buf' = Threads /\ \A r \in Threads \ {t} : buf'[r] = buf[r]
      /\ buf'[t] = Nothing
  BY <1>4, <1>6
<1>10. OpsOK'
  <2>1. \E D \in SUBSET Lights : buf'[t] \in [D -> States]
    BY <1>9, NothingType
  <2>2. QED
    BY <1>1, <1>2, <1>3, <1>9, <2>1, OpsStep
<1>11. StackOK'
  BY <1>2, <1>3, <1>4, <1>5, StackQuiet
<1>12. TypeOK'
  <2>1. surface' \in [Lights -> States] /\ excused' \subseteq Lights
    BY <1>6, <1>7, <1>8
  <2>2. troubles' \in 0..MaxTroubles
    BY <1>7, <1>8, BoundsAssumption
  <2>3. QED
    BY <1>1, <1>4, <1>5, <1>7, <1>11, <2>1, <2>2, TypeStep
<1>13. ASSUME on, ~rebooted, ~refreshNeeded, NEW l \in Lights \ excused'
       PROVE  surface'[l] = led'[l] \/ \E r \in Threads : Owes(r, l)'
  <2>1. CASE l \in sent /\ buf[t][l] = led[l]
    BY <1>4, <1>8, <1>13, <2>1
  <2>2. CASE ~(l \in sent /\ buf[t][l] = led[l])
    <3>1. l \in Lights \ excused /\ surface'[l] = surface[l]
      BY <1>8, <1>13, <2>2
    <3>2. surface[l] = led[l] \/ \E r \in Threads : Owes(r, l)
      BY <1>1, <1>13, <3>1 DEF WrongIsOwed
    <3>3. ASSUME NEW r \in Threads, Owes(r, l)
          PROVE  Owes(r, l)'
      <4>1. led'[l] = led[l]
        BY <1>4
      <4>2. QED
        BY <1>1, <1>2, <1>3, <1>9, <2>2, <3>3, <4>1, OwedStep
    <3>4. QED
      BY <1>4, <3>1, <3>2, <3>3
  <2>3. QED
    BY <2>1, <2>2
<1>14. WrongIsOwed'
  BY <1>5, <1>13 DEF WrongIsOwed
<1>15. PinLightsOK'
  BY <1>2, <1>3, <1>4, <1>5, PinQuiet
<1>16. QED
  BY <1>10, <1>11, <1>12, <1>14, <1>15 DEF IInv

\* Only the input thread saves lights, and restores them.
LEMMA PushStep ==
    ASSUME IInv, NEW t \in Threads, Push(t)
    PROVE  IInv'
<1> DEFINE s == ops[t]
           u == ops'[t]
<1>1. TypeOK /\ OpsOK /\ StackOK /\ WrongIsOwed /\ PinLightsOK
  BY DEF IInv
<1>2. ~Idle(t) /\ Head(s).do = "push" /\ Finish(t, 1)
  BY DEF Push, Doing
<1>3. /\ s[1].do = "push" /\ 1 \in DOMAIN s
      /\ (t = "refresh" => s[1] \in RefreshOps)
      /\ Buffered(s, DOMAIN buf[t]) /\ Rest(s, 1, u)
  BY <1>2, StepOne
<1>4. t = "input"
  BY <1>3, ThreadsAre DEF RefreshOps
<1>5. /\ UNCHANGED <<led, blockUpdates, layerVars, surfaceVars, desk, raced, keys, troubles>>
      /\ buf' = [buf EXCEPT ![t] = Nothing]
      /\ stack' = Append(stack, buf[t])
  BY DEF Push
<1>6. UNCHANGED <<pinMode, pinned, refreshNeeded, since, surface, on, rebooted, excused>>
  BY <1>5 DEF layerVars, surfaceVars
<1>7. /\ surface \in [Lights -> States] /\ excused \subseteq Lights /\ raced \subseteq Lights
      /\ troubles \in 0..MaxTroubles /\ led \in [Lights -> States]
      /\ stack \in Seq([Lights -> States]) /\ blockUpdates \in BOOLEAN
  BY <1>1 DEF TypeOK
<1>8. /\ DOMAIN buf' = Threads /\ \A r \in Threads \ {t} : buf'[r] = buf[r]
      /\ buf'[t] = Nothing
  BY <1>1, <1>5 DEF OpsOK
<1>9. buf[t] \in [Lights -> States]
  <2>1. \A l \in Lights : Loads(s, DOMAIN buf[t], 1, l)
    BY <1>3 DEF Buffered
  <2>2. \A j \in 1..(1 - 1) : FALSE
    OBVIOUS
  <2>3. Lights \subseteq DOMAIN buf[t]
    BY <2>1, <2>2 DEF Loads
  <2>4. PICK D \in SUBSET Lights : buf[t] \in [D -> States]
    BY <1>1 DEF OpsOK
  <2>5. D = Lights
    BY <2>3, <2>4
  <2>6. QED
    BY <2>4, <2>5
<1>10. Has(s, "push") /\ pinMode /\ Len(stack) = 0 /\ ~Has(s, "pop") /\ Once(s, "push") /\ Once(s, "pop")
  <2>1. Has(s, "push")
    BY <1>3 DEF Has
  <2>2. QED
    BY <1>1, <1>4, <2>1 DEF StackOK
<1>11. stack' \in Seq([Lights -> States]) /\ Len(stack') = 1
  <2>1. stack' \in Seq([Lights -> States]) /\ Len(stack') = Len(stack) + 1
    BY <1>5, <1>7, <1>9, AppendProperties
  <2>2. QED
    BY <1>10, <2>1
<1>12. OpsOK'
  <2>1. \E D \in SUBSET Lights : buf'[t] \in [D -> States]
    BY <1>8, NothingType
  <2>2. QED
    BY <1>1, <1>2, <1>3, <1>8, <2>1, OpsStep
<1>13. StackOK'
  <2>1. \E i \in 1..1 : s[i].do = "push"
    <3>1. 1 \in 1..1
      OBVIOUS
    <3>2. QED
      BY <1>3, <3>1
  <2>2. Once(u, "push") /\ Once(u, "pop") /\ ~Has(u, "push") /\ ~Has(u, "pop")
    BY <1>3, <1>10, <2>1, HasRest
  <2>3. pinMode'
    BY <1>6, <1>10
  <2>4. QED
    BY <1>4, <1>11, <2>2, <2>3 DEF StackOK
<1>14. TypeOK'
  BY <1>1, <1>5, <1>6, <1>7, <1>11, <1>13, TypeStep
<1>15. WrongIsOwed'
  <2>1. ASSUME NEW r \in Threads, NEW l \in Lights, Owes(r, l)
        PROVE  Owes(r, l)'
    <3>1. led'[l] = led[l]
      BY <1>5
    <3>2. QED
      BY <1>1, <1>2, <1>3, <1>8, <2>1, <3>1, OwedStep
  <2>2. QED
    BY <1>1, <1>5, <1>6, <2>1, OwedSame
<1>16. PinLightsOK'
  BY <1>2, <1>3, <1>5, <1>6, PinQuiet
<1>17. QED
  BY <1>12, <1>13, <1>14, <1>15, <1>16 DEF IInv

LEMMA PopStep ==
    ASSUME IInv, NEW t \in Threads, Pop(t)
    PROVE  IInv'
<1> DEFINE s == ops[t]
           u == ops'[t]
<1>1. TypeOK /\ OpsOK /\ StackOK /\ WrongIsOwed /\ PinLightsOK
  BY DEF IInv
<1>2. ~Idle(t) /\ Head(s).do \in {"pop", "peek"} /\ Finish(t, 1)
  BY DEF Pop, Doing
<1>3. /\ Head(s) = s[1] /\ 1 \in DOMAIN s
      /\ s[1] \in InputOps /\ (t = "refresh" => s[1] \in RefreshOps)
      /\ Rest(s, 1, u)
  BY <1>2, StepOne
<1>4. s[1].do = "pop" /\ Doing(t, "pop") /\ t = "input"
  BY <1>2, <1>3, ThreadsAre DEF RefreshOps, InputOps, Doing
<1>5. /\ UNCHANGED <<led, blockUpdates, layerVars, surfaceVars, desk, raced, keys, troubles>>
      /\ buf' = [buf EXCEPT ![t] = Last(stack)]
      /\ stack' = Front(stack)
  BY <1>4 DEF Pop
<1>6. UNCHANGED <<pinMode, pinned, refreshNeeded, since, surface, on, rebooted, excused>>
  BY <1>5 DEF layerVars, surfaceVars
<1>7. /\ surface \in [Lights -> States] /\ excused \subseteq Lights /\ raced \subseteq Lights
      /\ troubles \in 0..MaxTroubles /\ led \in [Lights -> States]
      /\ stack \in Seq([Lights -> States]) /\ blockUpdates \in BOOLEAN
  BY <1>1 DEF TypeOK
<1>8. Has(s, "pop") /\ ~pinMode /\ Len(stack) = 1 /\ ~Has(s, "push") /\ Once(s, "push") /\ Once(s, "pop")
  <2>1. Has(s, "pop")
    BY <1>3, <1>4 DEF Has
  <2>2. QED
    BY <1>1, <1>4, <2>1 DEF StackOK
<1>9. Last(stack) \in [Lights -> States]
  <2>1. 1 \in 1..Len(stack)
    BY <1>8
  <2>2. stack[1] \in [Lights -> States]
    BY <1>7, <2>1, ElementOfSeq
  <2>3. Last(stack) = stack[1]
    BY <1>8 DEF Last
  <2>4. QED
    BY <2>2, <2>3
<1>10. stack' \in Seq([Lights -> States]) /\ Len(stack') = 0
  <2>1. stack' = SubSeq(stack, 1, 0)
    BY <1>5, <1>8 DEF Front
  <2>2. \A i \in 1..0 : stack[i] \in [Lights -> States]
    OBVIOUS
  <2>3. /\ SubSeq(stack, 1, 0) \in Seq([Lights -> States])
        /\ Len(SubSeq(stack, 1, 0)) = IF 1 <= 0 THEN 0 - 1 + 1 ELSE 0
    <3>1. 1 \in Int /\ 0 \in Int
      OBVIOUS
    <3>2. QED
      BY <2>2, <3>1, SubSeqProperties
  <2>4. QED
    BY <2>1, <2>3
<1>11. /\ DOMAIN buf' = Threads /\ \A r \in Threads \ {t} : buf'[r] = buf[r]
       /\ buf'[t] \in [Lights -> States]
  BY <1>1, <1>5, <1>9 DEF OpsOK
<1>12. OpsOK'
  <2>1. /\ \E D \in SUBSET Lights : buf'[t] \in [D -> States]
        /\ DOMAIN buf'[t] = Lights
    BY <1>11
  <2>2. DOMAIN buf[t] \subseteq Lights
    BY <1>1 DEF OpsOK
  <2>3. QED
    BY <1>1, <1>2, <1>4, <1>11, <2>1, <2>2, OpsStep
<1>13. StackOK'
  <2>1. \E i \in 1..1 : s[i].do = "pop"
    <3>1. 1 \in 1..1
      OBVIOUS
    <3>2. QED
      BY <1>4, <3>1
  <2>2. Once(u, "push") /\ Once(u, "pop") /\ ~Has(u, "push") /\ ~Has(u, "pop")
    BY <1>3, <1>8, <2>1, HasRest
  <2>3. ~pinMode'
    BY <1>6, <1>8
  <2>4. QED
    BY <1>4, <1>10, <2>2, <2>3 DEF StackOK
<1>14. TypeOK'
  BY <1>1, <1>5, <1>6, <1>7, <1>10, <1>13, TypeStep
<1>15. WrongIsOwed'
  <2>1. ASSUME NEW r \in Threads, NEW l \in Lights, Owes(r, l)
        PROVE  Owes(r, l)'
    <3>1. led'[l] = led[l]
      BY <1>5
    <3>2. QED
      BY <1>1, <1>2, <1>4, <1>11, <2>1, <3>1, OwedStep
  <2>2. QED
    BY <1>1, <1>5, <1>6, <2>1, OwedSame
<1>16. PinLightsOK'
  BY <1>2, <1>4, <1>5, <1>6, PinQuiet
<1>17. QED
  BY <1>12, <1>13, <1>14, <1>15, <1>16 DEF IInv

LEMMA BlockStep ==
    ASSUME IInv, NEW t \in Threads, Block(t)
    PROVE  IInv'
<1> DEFINE s == ops[t]
<1>1. TypeOK /\ OpsOK /\ StackOK /\ WrongIsOwed /\ PinLightsOK
  BY DEF IInv
<1>2. ~Idle(t) /\ Head(s).do = "block" /\ Finish(t, 1)
  BY DEF Block, Doing
<1>3. Head(s) = s[1] /\ s[1].do = "block"
  BY <1>2, StepOne
<1>4. /\ UNCHANGED <<led, stack, buf, layerVars, surfaceVars, desk, raced, keys, troubles>>
      /\ blockUpdates' = (s[1].state = "TRUE")
  BY <1>3 DEF Block
<1>5. UNCHANGED <<pinMode, pinned, refreshNeeded, since, surface, on, rebooted, excused>>
  BY <1>4 DEF layerVars, surfaceVars
<1>6. /\ surface \in [Lights -> States] /\ excused \subseteq Lights /\ raced \subseteq Lights
      /\ troubles \in 0..MaxTroubles /\ led \in [Lights -> States]
      /\ stack \in Seq([Lights -> States])
  BY <1>1 DEF TypeOK
<1>7. OpsOK'
  <2>1. DOMAIN buf' = Threads /\ buf' = buf /\ \E D \in SUBSET Lights : buf[t] \in [D -> States]
    BY <1>1, <1>4 DEF OpsOK
  <2>2. QED
    BY <1>1, <1>2, <1>3, <2>1, OpsStep
<1>8. StackOK'
  BY <1>2, <1>3, <1>4, <1>5, StackQuiet
<1>9. TypeOK'
  <2>1. blockUpdates' \in BOOLEAN
    BY <1>4
  <2>2. QED
    BY <1>1, <1>4, <1>5, <1>6, <1>8, <2>1, TypeStep
<1>10. WrongIsOwed'
  <2>1. ASSUME NEW r \in Threads, NEW l \in Lights, Owes(r, l)
        PROVE  Owes(r, l)'
    <3>1. led'[l] = led[l] /\ buf' = buf
      BY <1>4
    <3>2. QED
      BY <1>1, <1>2, <1>3, <2>1, <3>1, OwedStep
  <2>2. QED
    BY <1>1, <1>4, <1>5, <2>1, OwedSame
<1>11. PinLightsOK'
  BY <1>2, <1>3, <1>4, <1>5, PinQuiet
<1>12. QED
  BY <1>7, <1>8, <1>9, <1>10, <1>11 DEF IInv

-----------------------------------------------------------------------------
(***************************************************************************)
(* A packet starts a program of the input thread.                          *)
(***************************************************************************)
LEMMA BoundsAre == Limit \in Nat /\ MaxKeys \in Nat /\ MaxTroubles \in Nat
BY BoundsAssumption

LEMMA PacketStarts ==
    ASSUME IInv, NEW p, Sound(p), HandlePacket(p)
    PROVE  LET u == ops'["input"]
           IN  /\ OpsOK' /\ WrongIsOwed'
               /\ ops'["refresh"] = ops["refresh"] /\ ops["input"] = <<>>
               /\ \A do \in {"push", "pop", "restore"} :
                     (Has(u, do) <=> Has(p, do)) /\ (Once(p, do) => Once(u, do))
               /\ BlocksFirst(p) => BlocksFirst(u)
               /\ BlocksOnly(p) => BlocksOnly(u)
               /\ \A l, v : Settles(p, l, v) => Settles(u, l, v)
               /\ Only(p, {"read", "send"}) => Only(u, {"read", "send"})
<1> DEFINE pre == IF since > 0 /\ refreshNeeded THEN SendAllButtons ELSE <<>>
           u == ops'["input"]
           new == IF rebooted /\ ~refreshNeeded /\ since <= Limit
                  THEN {l \in Lights : surface[l] # led[l]} ELSE {}
<1>1. TypeOK /\ OpsOK /\ WrongIsOwed
  BY DEF IInv
<1>2. /\ on /\ ops["input"] = <<>>
      /\ ops' = [ops EXCEPT !["input"] = pre \o p]
      /\ refreshNeeded' = IF since = 0 THEN refreshNeeded ELSE since > Limit
      /\ rebooted' = FALSE
      /\ excused' = excused \cup new
      /\ UNCHANGED <<led, stack, blockUpdates, buf, surface, on, desk, raced, troubles>>
  BY DEF HandlePacket, CheckIdle, Idle
<1>3. /\ DOMAIN ops = Threads /\ ops["refresh"] \in Seq(RefreshOps)
      /\ "input" \in Threads /\ "refresh" \in Threads /\ "input" # "refresh"
      /\ DOMAIN buf = Threads
  BY <1>1, ThreadsAre DEF OpsOK
<1>4. Sound(pre) /\ Only(pre, {"read", "send"})
  BY SendAllShape, EmptyShape
<1>5. since > 0 /\ refreshNeeded => \A l \in Lights : Pays(pre, 0, l)
  BY SendAllShape
<1> HIDE DEF pre, new
<1>6. u = pre \o p /\ ops'["refresh"] = ops["refresh"] /\ DOMAIN ops' = Threads
  BY <1>2, <1>3
<1>7. /\ Sound(pre \o p)
      /\ \A l : Pays(pre, 0, l) => Pays(pre \o p, 0, l)
      /\ \A do \in {"push", "pop", "restore"} :
            (Has(pre \o p, do) <=> Has(p, do)) /\ (Once(p, do) => Once(pre \o p, do))
      /\ BlocksFirst(p) => BlocksFirst(pre \o p)
      /\ BlocksOnly(p) => BlocksOnly(pre \o p)
      /\ \A l, v : Settles(p, l, v) => Settles(pre \o p, l, v)
      /\ Only(p, {"read", "send"}) => Only(pre \o p, {"read", "send"})
  BY <1>4, PrefixedShape
<1> HIDE DEF u
<1>8. /\ Sound(u)
      /\ \A l : Pays(pre, 0, l) => Pays(u, 0, l)
      /\ \A do \in {"push", "pop", "restore"} :
            (Has(u, do) <=> Has(p, do)) /\ (Once(p, do) => Once(u, do))
      /\ BlocksFirst(p) => BlocksFirst(u)
      /\ BlocksOnly(p) => BlocksOnly(u)
      /\ \A l, v : Settles(p, l, v) => Settles(u, l, v)
      /\ Only(p, {"read", "send"}) => Only(u, {"read", "send"})
  BY <1>6, <1>7
<1>9. OpsOK'
  <2>1. Buffered(u, DOMAIN buf["input"])
    BY <1>8, BufferedMore DEF Sound
  <2>2. ops'["input"] = u
    BY DEF u
  <2>3. \A t \in Threads : /\ WellTyped(ops'[t]) /\ Regular(ops'[t])
                           /\ Buffered(ops'[t], DOMAIN buf'[t])
                           /\ \E D \in SUBSET Lights : buf'[t] \in [D -> States]
    <3>1. \A t \in Threads : /\ WellTyped(ops[t]) /\ Regular(ops[t])
                             /\ Buffered(ops[t], DOMAIN buf[t])
                             /\ \E D \in SUBSET Lights : buf[t] \in [D -> States]
      BY <1>1 DEF OpsOK
    <3>2. \A t \in Threads : t = "input" \/ ops'[t] = ops[t]
      BY <1>6, ThreadsAre
    <3>3. WellTyped(u) /\ Regular(u)
      BY <1>8 DEF Sound
    <3>4. buf' = buf
      BY <1>2
    <3>5. QED
      BY <2>1, <2>2, <3>1, <3>2, <3>3, <3>4
  <2>4. u \in Seq(InputOps)
    BY <1>8 DEF Sound
  <2>5. DOMAIN buf' = Threads
    BY <1>2, <1>3
  <2>6. QED
    BY <1>3, <1>6, <2>2, <2>3, <2>4, <2>5 DEF OpsOK
<1>10. ASSUME ~refreshNeeded', NEW l \in Lights \ excused'
       PROVE  surface'[l] = led'[l] \/ \E t \in Threads : Owes(t, l)'
  <2>1. since \in Nat /\ refreshNeeded \in BOOLEAN /\ Limit \in Nat
    BY <1>1, BoundsAre DEF TypeOK
  <2>2. since <= Limit /\ l \in Lights /\ l \notin excused /\ l \notin new
    <3>1. l \in Lights /\ l \notin excused /\ l \notin new
      BY <1>2, <1>10
    <3>2. since <= Limit
      <4>1. CASE since = 0
        BY <2>1, <4>1
      <4>2. CASE since # 0
        <5>1. refreshNeeded' = (since > Limit)
          BY <1>2, <4>2
        <5>2. ~(since > Limit)
          BY <1>10, <5>1
        <5>3. QED
          BY <2>1, <5>2
      <4>3. QED
        BY <4>1, <4>2
    <3>3. QED
      BY <3>1, <3>2
  <2>3. CASE refreshNeeded
    <3>1. since > 0
      BY <1>2, <1>10, <2>1, <2>3
    <3>2. Pays(u, 0, l)
      BY <1>5, <1>8, <2>2, <2>3, <3>1
    <3>3. Owes("input", l)'
      BY <3>2 DEF Owes, u
    <3>4. QED
      BY <1>3, <3>3
  <2>4. CASE ~refreshNeeded /\ rebooted
    <3>1. surface[l] = led[l]
      BY <2>2, <2>4 DEF new
    <3>2. QED
      BY <1>2, <3>1
  <2>5. CASE ~refreshNeeded /\ ~rebooted
    <3>1. surface[l] = led[l] \/ \E t \in Threads : Owes(t, l)
      BY <1>1, <1>2, <2>2, <2>5 DEF WrongIsOwed
    <3>2. ~Owes("input", l)
      <4>1. ~Pays(ops["input"], 0, l) /\ ~Sends(ops["input"])
        BY <1>2, EmptyShape
      <4>2. QED
        BY <4>1 DEF Owes
    <3>3. Owes("refresh", l) => Owes("refresh", l)'
      BY <1>2, <1>6 DEF Owes
    <3>4. Owes("refresh", l) => \E t \in Threads : Owes(t, l)'
      BY <1>3, <3>3
    <3>5. surface[l] = led[l] \/ Owes("refresh", l)
      BY <3>1, <3>2, ThreadsAre
    <3>6. QED
      BY <1>2, <3>4, <3>5
  <2>6. QED
    BY <2>3, <2>4, <2>5
<1>11. WrongIsOwed'
  BY <1>10 DEF WrongIsOwed
<1>12. QED
  BY <1>2, <1>6, <1>8, <1>9, <1>11 DEF u

LEMMA TypePacket ==
    ASSUME IInv, NEW p, HandlePacket(p), StackOK',
           pinMode' \in BOOLEAN, pinned' \in BOOLEAN, keys' \in 0..MaxKeys
    PROVE  TypeOK'
<1>1. /\ led \in [Lights -> States] /\ surface \in [Lights -> States]
      /\ stack \in Seq([Lights -> States])
      /\ blockUpdates \in BOOLEAN /\ refreshNeeded \in BOOLEAN /\ on \in BOOLEAN
      /\ since \in 0..(Limit + 1)
      /\ desk \in [Lights -> States] \cup {Gone}
      /\ excused \subseteq Lights /\ raced \subseteq Lights
      /\ troubles \in 0..MaxTroubles
  BY DEF IInv, TypeOK
<1>2. /\ refreshNeeded' = IF since = 0 THEN refreshNeeded ELSE since > Limit
      /\ since' = 0 /\ rebooted' = FALSE
      /\ excused' = excused \cup
            IF rebooted /\ ~refreshNeeded /\ since <= Limit
            THEN {l \in Lights : surface[l] # led[l]} ELSE {}
      /\ UNCHANGED <<led, stack, blockUpdates, buf, surface, on, desk, raced, troubles>>
  BY DEF HandlePacket, CheckIdle
<1>3. refreshNeeded' \in BOOLEAN /\ excused' \subseteq Lights
  <2>1. CASE since = 0
    BY <1>1, <1>2, <2>1
  <2>2. CASE since # 0
    <3>1. refreshNeeded' = (since > Limit)
      BY <1>2, <2>2
    <3>2. (since > Limit) \in BOOLEAN
      OBVIOUS
    <3>3. QED
      BY <1>1, <1>2, <3>1, <3>2
  <2>3. QED
    BY <2>1, <2>2
<1>4. since' \in 0..(Limit + 1)
  BY <1>2, BoundsAre
<1>5. ASSUME ops'["input"] = <<>>
      PROVE  Len(stack') = (IF pinMode' THEN 1 ELSE 0)
  <2>1. ~Has(ops'["input"], "push") /\ ~Has(ops'["input"], "pop")
    BY <1>5, EmptyHas
  <2>2. QED
    BY <2>1 DEF StackOK
<1>6. Idle("input")' => Len(stack') = (IF pinMode' THEN 1 ELSE 0)
  BY <1>5 DEF Idle
<1>7. {blockUpdates', pinMode', pinned', refreshNeeded', on', rebooted'} \subseteq BOOLEAN
  BY <1>1, <1>2, <1>3
<1>8. QED
  BY <1>1, <1>2, <1>3, <1>4, <1>6, <1>7 DEF TypeOK

\* A program of the pin layer settles all lights.
LEMMA PinSettled ==
    ASSUME NEW u, u = ops'["input"], ~Has(u, "restore"), BlocksOnly(u),
           \A l \in Lights : Settles(u, l, Mark(pinned', l)),
           pinMode' /\ ~blockUpdates' => BlocksFirst(u)
    PROVE  PinLightsOK'
<1>1. \A l : Wanted(l)' = Mark(pinned', l)
  BY DEF Wanted, Mark
<1>2. \A l \in Lights : HasStore(u, l) /\ SetsLast(u, l, Wanted(l)') /\ Clears(u, l)
  BY <1>1 DEF Settles
<1>3. \A k \in DOMAIN u : u[k].do = "block" => u[k].state = "TRUE"
  BY DEF BlocksOnly
<1>4. QED
  BY <1>2, <1>3 DEF PinLightsOK

LEMMA IdleInput ==
    ASSUME IInv, HandlePacket(<<>>) \/ (\E p : HandlePacket(p))
    PROVE  /\ Len(stack) = (IF pinMode THEN 1 ELSE 0) /\ stack' = stack
           /\ blockUpdates' = blockUpdates
           /\ pinMode => blockUpdates
           /\ keys \in 0..MaxKeys /\ pinMode \in BOOLEAN /\ pinned \in BOOLEAN
<1>1. Idle("input") /\ stack' = stack /\ blockUpdates' = blockUpdates
  BY DEF HandlePacket
<1>2. Len(stack) = (IF pinMode THEN 1 ELSE 0)
  BY <1>1 DEF IInv, TypeOK
<1>3. pinMode => blockUpdates
  <2>1. ~BlocksFirst(ops["input"])
    BY <1>1, EmptyShape DEF Idle
  <2>2. QED
    BY <2>1 DEF IInv, PinLightsOK
<1>4. keys \in 0..MaxKeys /\ pinMode \in BOOLEAN /\ pinned \in BOOLEAN
  BY DEF IInv, TypeOK
<1>5. QED
  BY <1>1, <1>2, <1>3, <1>4

LEMMA OtherPacketStep ==
    ASSUME IInv, OtherPacket
    PROVE  IInv'
<1> DEFINE p == <<>>
           u == ops'["input"]
<1>1. HandlePacket(p) /\ UNCHANGED <<pinMode, pinned, keys>>
  BY DEF OtherPacket
<1>2. Sound(p) /\ Only(p, {"read", "send"})
  BY EmptyShape
<1>3. /\ OpsOK' /\ WrongIsOwed' /\ Only(u, {"read", "send"})
      /\ ops'["refresh"] = ops["refresh"] /\ ops["input"] = p
  BY <1>1, <1>2, PacketStarts
<1>4. /\ Len(stack) = (IF pinMode THEN 1 ELSE 0) /\ stack' = stack
      /\ blockUpdates' = blockUpdates /\ (pinMode => blockUpdates)
      /\ keys \in 0..MaxKeys /\ pinMode \in BOOLEAN /\ pinned \in BOOLEAN
  BY <1>1, IdleInput
<1>5. StackOK'
  <2>1. ~Has(u, "push") /\ ~Has(u, "pop") /\ Once(u, "push") /\ Once(u, "pop")
    BY <1>3, OnlyHas
  <2>2. QED
    BY <1>1, <1>4, <2>1 DEF StackOK
<1>6. TypeOK'
  BY <1>1, <1>4, <1>5, TypePacket
<1>7. PinLightsOK'
  <2>1. UNCHANGED <<led, raced>>
    BY <1>1 DEF HandlePacket
  <2>2. \A l : ~HasStore(p, l) /\ ~Clears(p, l)
    BY EmptyShape
  <2>3. ASSUME pinMode, NEW l \in Lights, l \notin raced
        PROVE  led[l] = Wanted(l) /\ Idle("refresh")
    BY <1>3, <2>2, <2>3 DEF IInv, PinLightsOK
  <2>4. ~Has(u, "restore") /\ BlocksOnly(u) /\ \A l, v : SetsLast(u, l, v)
    BY <1>3 DEF Only, Has, BlocksOnly, SetsLast, IsStore
  <2>5. \A l : Wanted(l)' = Wanted(l)
    BY <1>1 DEF Wanted
  <2>6. Idle("refresh")' <=> Idle("refresh")
    BY <1>3 DEF Idle
  <2>7. ASSUME pinMode, NEW l \in Lights
        PROVE  /\ l \notin raced' => led'[l] = Wanted(l)'
               /\ l \notin raced' => Idle("refresh")'
    BY <2>1, <2>3, <2>5, <2>6, <2>7
  <2>8. pinMode' = pinMode /\ (pinMode => blockUpdates')
    BY <1>1, <1>4
  <2>9. QED
    BY <2>4, <2>7, <2>8 DEF PinLightsOK, BlocksOnly
<1>8. QED
  BY <1>3, <1>5, <1>6, <1>7 DEF IInv

LEMMA EnterPinModeStep ==
    ASSUME IInv, EnterPinMode
    PROVE  IInv'
<1> DEFINE p == Pause \o UpdateLights(pinned)
           u == ops'["input"]
<1>1. /\ HandlePacket(p) /\ ~pinMode /\ keys < MaxKeys
      /\ pinMode' = TRUE /\ keys' = keys + 1 /\ pinned' = pinned
  BY DEF EnterPinMode
<1> HIDE DEF p
<1>2. /\ Len(stack) = (IF pinMode THEN 1 ELSE 0) /\ stack' = stack
      /\ keys \in 0..MaxKeys /\ pinned \in BOOLEAN
  BY <1>1, IdleInput
<1>3. /\ Sound(p)
      /\ Has(p, "push") /\ Once(p, "push") /\ ~Has(p, "pop") /\ ~Has(p, "restore")
      /\ BlocksFirst(p) /\ BlocksOnly(p)
      /\ \A l \in Lights : Settles(p, l, Mark(pinned, l))
  BY <1>2, EnterShape DEF p
<1>4. /\ OpsOK' /\ WrongIsOwed'
      /\ \A do \in {"push", "pop", "restore"} :
            (Has(u, do) <=> Has(p, do)) /\ (Once(p, do) => Once(u, do))
      /\ BlocksFirst(u) /\ BlocksOnly(u)
      /\ \A l \in Lights : Settles(u, l, Mark(pinned, l))
  BY <1>1, <1>3, PacketStarts
<1>5. StackOK'
  <2>1. /\ Has(u, "push") /\ Once(u, "push") /\ ~Has(u, "pop")
    BY <1>3, <1>4
  <2>2. Once(u, "pop")
    BY <2>1 DEF Has, Once
  <2>3. Len(stack') = 0
    BY <1>1, <1>2
  <2>4. QED
    BY <1>1, <2>1, <2>2, <2>3 DEF StackOK
<1>6. TypeOK'
  <2>1. keys' \in 0..MaxKeys
    BY <1>1, <1>2, BoundsAssumption
  <2>2. QED
    BY <1>1, <1>2, <1>5, <2>1, TypePacket
<1>7. PinLightsOK'
  BY <1>1, <1>3, <1>4, PinSettled
<1>8. QED
  BY <1>4, <1>5, <1>6, <1>7 DEF IInv

LEMMA PinStripStep ==
    ASSUME IInv, NEW state \in BOOLEAN, PinStrip(state)
    PROVE  IInv'
<1> DEFINE p == UpdateLights(state)
           u == ops'["input"]
<1>1. /\ HandlePacket(p) /\ pinMode /\ keys < MaxKeys
      /\ pinned' = state /\ keys' = keys + 1 /\ pinMode' = pinMode
  BY DEF PinStrip
<1>2. /\ Sound(p) /\ Only(p, {"compare", "store", "read", "send"})
      /\ \A l \in Lights : Settles(p, l, Mark(state, l))
  BY UpdateLightsShape
<1> HIDE DEF p
<1>3. /\ Len(stack) = (IF pinMode THEN 1 ELSE 0) /\ stack' = stack
      /\ blockUpdates' = blockUpdates /\ (pinMode => blockUpdates)
      /\ keys \in 0..MaxKeys /\ pinMode \in BOOLEAN
  BY <1>1, IdleInput
<1>4. ~Has(p, "push") /\ ~Has(p, "pop") /\ ~Has(p, "restore") /\ BlocksOnly(p)
  BY <1>2 DEF Only, Has, BlocksOnly
<1>5. /\ OpsOK' /\ WrongIsOwed'
      /\ ~Has(u, "push") /\ ~Has(u, "pop") /\ ~Has(u, "restore") /\ BlocksOnly(u)
      /\ \A l \in Lights : Settles(u, l, Mark(state, l))
  BY <1>1, <1>2, <1>4, PacketStarts
<1>6. StackOK'
  <2>1. Once(u, "push") /\ Once(u, "pop")
    BY <1>5 DEF Has, Once
  <2>2. QED
    BY <1>1, <1>3, <1>5, <2>1 DEF StackOK
<1>7. TypeOK'
  <2>1. keys' \in 0..MaxKeys
    BY <1>1, <1>3, BoundsAssumption
  <2>2. QED
    BY <1>1, <1>3, <1>6, <2>1, TypePacket
<1>8. PinLightsOK'
  BY <1>1, <1>3, <1>5, PinSettled
<1>9. QED
  BY <1>5, <1>6, <1>7, <1>8 DEF IInv

LEMMA ExitPinModeStep ==
    ASSUME IInv, ExitPinMode
    PROVE  IInv'
<1> DEFINE p == Resume
           u == ops'["input"]
<1>1. /\ HandlePacket(p) /\ pinMode /\ keys < MaxKeys
      /\ pinMode' = FALSE /\ keys' = keys + 1 /\ pinned' = pinned
  BY DEF ExitPinMode
<1>2. Sound(p) /\ Has(p, "pop") /\ Once(p, "pop") /\ ~Has(p, "push")
  BY ResumeShape
<1> HIDE DEF p
<1>3. /\ Len(stack) = (IF pinMode THEN 1 ELSE 0) /\ stack' = stack
      /\ keys \in 0..MaxKeys /\ pinned \in BOOLEAN
  BY <1>1, IdleInput
<1>4. /\ OpsOK' /\ WrongIsOwed'
      /\ Has(u, "pop") /\ Once(u, "pop") /\ ~Has(u, "push")
  BY <1>1, <1>2, PacketStarts
<1>5. StackOK'
  <2>1. Once(u, "push")
    BY <1>4 DEF Has, Once
  <2>2. Len(stack') = 1
    BY <1>1, <1>3
  <2>3. QED
    BY <1>1, <1>4, <2>1, <2>2 DEF StackOK
<1>6. TypeOK'
  <2>1. keys' \in 0..MaxKeys
    BY <1>1, <1>3, BoundsAssumption
  <2>2. QED
    BY <1>1, <1>3, <1>5, <2>1, TypePacket
<1>7. PinLightsOK'
  BY <1>1 DEF PinLightsOK
<1>8. QED
  BY <1>4, <1>5, <1>6, <1>7 DEF IInv

-----------------------------------------------------------------------------
(***************************************************************************)
(* The refresh thread's update, and the surroundings.                      *)
(***************************************************************************)
LEMMA UpdateEncoderStep ==
    ASSUME IInv, UpdateEncoderFromMA
    PROVE  IInv'
<1> DEFINE p == SetSingleButton("MUTE", desk["MUTE"]) \o SetSingleButton("SELECT", desk["SELECT"])
<1>1. /\ TypeOK /\ OpsOK /\ StackOK /\ WrongIsOwed /\ PinLightsOK
  BY DEF IInv
<1>2. /\ ops["refresh"] = <<>> /\ desk # Gone /\ ~blockUpdates
      /\ ops' = [ops EXCEPT !["refresh"] = p]
      /\ UNCHANGED <<led, stack, blockUpdates, buf, layerVars, surfaceVars, desk, raced, keys, troubles>>
  BY DEF UpdateEncoderFromMA, Idle
<1>3. UNCHANGED <<pinMode, pinned, refreshNeeded, since, surface, on, rebooted, excused>>
  BY <1>2 DEF layerVars, surfaceVars
<1>4. /\ led \in [Lights -> States] /\ surface \in [Lights -> States]
      /\ stack \in Seq([Lights -> States]) /\ blockUpdates \in BOOLEAN
      /\ excused \subseteq Lights /\ raced \subseteq Lights /\ troubles \in 0..MaxTroubles
      /\ desk \in [Lights -> States]
  BY <1>1, <1>2 DEF TypeOK
<1>5. desk["MUTE"] \in States /\ desk["SELECT"] \in States
  BY <1>4, LightsAre
<1>6. p \in Seq(RefreshOps) /\ WellTyped(p) /\ Regular(p) /\ Buffered(p, {})
  BY <1>5, RefreshShape
<1> HIDE DEF p
<1>7. /\ DOMAIN ops' = Threads /\ ops'["refresh"] = p /\ ops'["input"] = ops["input"]
      /\ \A r \in Threads \ {"refresh"} : ops'[r] = ops[r]
  BY <1>1, <1>2, ThreadsAre DEF OpsOK
<1>8. OpsOK'
  <2>1. Buffered(p, DOMAIN buf["refresh"])
    BY <1>6, BufferedMore
  <2>2. \A t \in Threads : /\ WellTyped(ops[t]) /\ Regular(ops[t])
                           /\ Buffered(ops[t], DOMAIN buf[t])
                           /\ \E D \in SUBSET Lights : buf[t] \in [D -> States]
    BY <1>1 DEF OpsOK
  <2>3. buf' = buf /\ DOMAIN buf = Threads /\ ops["input"] \in Seq(InputOps)
    BY <1>1, <1>2 DEF OpsOK
  <2>4. \A t \in Threads : /\ WellTyped(ops'[t]) /\ Regular(ops'[t])
                           /\ Buffered(ops'[t], DOMAIN buf'[t])
                           /\ \E D \in SUBSET Lights : buf'[t] \in [D -> States]
    <3>1. \A t \in Threads : t = "refresh" \/ ops'[t] = ops[t]
      BY <1>7
    <3>2. QED
      BY <1>6, <1>7, <2>1, <2>2, <2>3, <3>1
  <2>5. QED
    BY <1>6, <1>7, <2>3, <2>4 DEF OpsOK
<1>9. StackOK'
  BY <1>1, <1>2, <1>3, <1>7, StackSame
<1>10. TypeOK'
  BY <1>1, <1>2, <1>3, <1>4, <1>9, TypeStep
<1>11. WrongIsOwed'
  <2>1. ASSUME NEW r \in Threads, NEW l \in Lights, Owes(r, l)
        PROVE  Owes(r, l)'
    <3>1. ~Pays(ops["refresh"], 0, l) /\ ~Sends(ops["refresh"])
      BY <1>2, EmptyShape
    <3>2. r # "refresh"
      BY <2>1, <3>1 DEF Owes
    <3>3. ops'[r] = ops[r] /\ buf' = buf /\ led' = led
      BY <1>2, <1>7, <3>2
    <3>4. QED
      BY <2>1, <3>3 DEF Owes
  <2>2. QED
    BY <1>1, <1>2, <1>3, <2>1, OwedSame
<1>12. PinLightsOK'
  <2>1. pinMode => \A l \in Lights : Clears(ops["input"], l)
    BY <1>1, <1>2 DEF PinLightsOK
  <2>2. \A l : Wanted(l)' = Wanted(l)
    BY <1>3 DEF Wanted
  <2>3. UNCHANGED <<pinMode, blockUpdates, led, raced>> /\ ops'["input"] = ops["input"]
    BY <1>2, <1>3, <1>7
  <2>4. QED
    BY <1>1, <2>1, <2>2, <2>3 DEF PinLightsOK
<1>13. QED
  BY <1>8, <1>9, <1>10, <1>11, <1>12 DEF IInv

\* What happens to neither thread disturbs what their programs have in store.
LEMMA OutsideStep ==
    ASSUME IInv, UNCHANGED <<threadVars, pinMode, pinned, raced>>
    PROVE  /\ OpsOK' /\ StackOK' /\ PinLightsOK'
           /\ \A r \in Threads, l \in Lights : Owes(r, l) => Owes(r, l)'
<1>1. /\ OpsOK /\ StackOK /\ PinLightsOK
      /\ UNCHANGED <<led, stack, blockUpdates, ops, buf>>
  BY DEF IInv, threadVars
<1>2. OpsOK'
  BY <1>1 DEF OpsOK
<1>3. StackOK'
  BY <1>1 DEF StackOK
<1>4. PinLightsOK'
  <2>1. (\A l : Wanted(l)' = Wanted(l)) /\ (Idle("refresh")' <=> Idle("refresh"))
    BY <1>1 DEF Wanted, Idle
  <2>2. QED
    BY <1>1, <2>1 DEF PinLightsOK
<1>5. \A r \in Threads, l \in Lights : Owes(r, l) => Owes(r, l)'
  BY <1>1 DEF Owes
<1>6. QED
  BY <1>2, <1>3, <1>4, <1>5

LEMMA SurroundingsStep ==
    ASSUME IInv, EditShow \/ SwitchOff \/ SwitchOn \/ Tick \/ UNCHANGED vars
    PROVE  IInv'
<1>1. /\ led \in [Lights -> States] /\ surface \in [Lights -> States]
      /\ stack \in Seq([Lights -> States])
      /\ blockUpdates \in BOOLEAN /\ pinMode \in BOOLEAN /\ pinned \in BOOLEAN
      /\ refreshNeeded \in BOOLEAN /\ on \in BOOLEAN /\ rebooted \in BOOLEAN
      /\ since \in 0..(Limit + 1)
      /\ desk \in [Lights -> States] \cup {Gone}
      /\ excused \subseteq Lights /\ raced \subseteq Lights
      /\ keys \in 0..MaxKeys /\ troubles \in 0..MaxTroubles
      /\ Idle("input") => Len(stack) = (IF pinMode THEN 1 ELSE 0)
      /\ WrongIsOwed
  BY DEF IInv, TypeOK
<1>2. UNCHANGED <<threadVars, pinMode, pinned, raced, keys>>
  BY DEF EditShow, SwitchOff, SwitchOn, Tick, vars, layerVars
<1>3. UNCHANGED <<led, stack, blockUpdates, ops, buf>>
  BY <1>2 DEF threadVars
<1>4. /\ OpsOK' /\ StackOK' /\ PinLightsOK'
      /\ \A r \in Threads, l \in Lights : Owes(r, l) => Owes(r, l)'
  BY <1>2, OutsideStep
<1>5. Idle("input")' => Len(stack') = (IF pinMode' THEN 1 ELSE 0)
  BY <1>1, <1>2, <1>3 DEF Idle
<1>6. TypeOK' /\ WrongIsOwed'
  <2>1. CASE EditShow
    <3>1. /\ UNCHANGED <<layerVars, surfaceVars>> /\ troubles < MaxTroubles
          /\ troubles' = troubles + 1 /\ desk' \in [Lights -> States] \cup {Gone}
      BY <2>1 DEF EditShow
    <3>2. UNCHANGED <<refreshNeeded, since, surface, on, rebooted, excused>>
      BY <3>1 DEF layerVars, surfaceVars
    <3>3. troubles' \in 0..MaxTroubles
      BY <1>1, <3>1, BoundsAre
    <3>4. {blockUpdates', pinMode', pinned', refreshNeeded', on', rebooted'} \subseteq BOOLEAN
      BY <1>1, <1>2, <1>3, <3>2
    <3>5. TypeOK'
      BY <1>1, <1>2, <1>3, <1>5, <3>1, <3>2, <3>3, <3>4 DEF TypeOK
    <3>6. QED
      BY <1>1, <1>3, <1>4, <3>2, <3>5, OwedSame
  <2>2. CASE SwitchOff
    <3>1. /\ UNCHANGED <<layerVars, desk>> /\ troubles < MaxTroubles
          /\ troubles' = troubles + 1
          /\ on' = FALSE /\ surface' = AllOff /\ rebooted' = FALSE /\ excused' = {}
      BY <2>2 DEF SwitchOff
    <3>2. UNCHANGED <<refreshNeeded, since>>
      BY <3>1 DEF layerVars
    <3>3. troubles' \in 0..MaxTroubles
      BY <1>1, <3>1, BoundsAre
    <3>4. {blockUpdates', pinMode', pinned', refreshNeeded', on', rebooted'} \subseteq BOOLEAN
      BY <1>1, <1>2, <1>3, <3>1, <3>2
    <3>5. surface' \in [Lights -> States] /\ excused' \subseteq Lights
      BY <3>1 DEF AllOff, States
    <3>6. TypeOK'
      BY <1>1, <1>2, <1>3, <1>5, <3>1, <3>2, <3>3, <3>4, <3>5 DEF TypeOK
    <3>7. QED
      BY <3>1, <3>6 DEF WrongIsOwed
  <2>3. CASE SwitchOn
    <3>1. /\ UNCHANGED <<layerVars, surface, excused, desk, troubles>>
          /\ on' = TRUE /\ rebooted' = TRUE
      BY <2>3 DEF SwitchOn
    <3>2. UNCHANGED <<refreshNeeded, since>>
      BY <3>1 DEF layerVars
    <3>3. {blockUpdates', pinMode', pinned', refreshNeeded', on', rebooted'} \subseteq BOOLEAN
      BY <1>1, <1>2, <1>3, <3>1, <3>2
    <3>4. TypeOK'
      BY <1>1, <1>2, <1>3, <1>5, <3>1, <3>2, <3>3 DEF TypeOK
    <3>5. QED
      BY <3>1, <3>4 DEF WrongIsOwed
  <2>4. CASE Tick
    <3>1. /\ UNCHANGED <<refreshNeeded, surfaceVars, desk, troubles>>
          /\ since <= Limit /\ since' = since + 1
      BY <2>4 DEF Tick
    <3>2. UNCHANGED <<surface, on, rebooted, excused>>
      BY <3>1 DEF surfaceVars
    <3>3. since' \in 0..(Limit + 1)
      BY <1>1, <3>1, BoundsAre
    <3>4. {blockUpdates', pinMode', pinned', refreshNeeded', on', rebooted'} \subseteq BOOLEAN
      BY <1>1, <1>2, <1>3, <3>1, <3>2
    <3>5. TypeOK'
      BY <1>1, <1>2, <1>3, <1>5, <3>1, <3>2, <3>3, <3>4 DEF TypeOK
    <3>6. QED
      BY <1>1, <1>3, <1>4, <3>1, <3>2, <3>5, OwedSame
  <2>5. CASE UNCHANGED vars
    <3>1. UNCHANGED <<refreshNeeded, since, surface, on, rebooted, excused, desk, troubles>>
      BY <2>5 DEF vars, layerVars, surfaceVars
    <3>2. {blockUpdates', pinMode', pinned', refreshNeeded', on', rebooted'} \subseteq BOOLEAN
      BY <1>1, <1>2, <1>3, <3>1
    <3>3. TypeOK'
      BY <1>1, <1>2, <1>3, <1>5, <3>1, <3>2 DEF TypeOK
    <3>4. QED
      BY <1>1, <1>3, <1>4, <3>1, <3>3, OwedSame
  <2>6. QED
    BY <2>1, <2>2, <2>3, <2>4, <2>5
<1>7. QED
  BY <1>4, <1>6 DEF IInv

LEMMA InitInvariant ==
    ASSUME Init
    PROVE  IInv
<1>1. /\ ops["input"] = <<>> /\ ops["refresh"] = <<>> /\ DOMAIN ops = Threads
      /\ DOMAIN buf = Threads /\ \A t \in Threads : ops[t] = <<>> /\ buf[t] = Nothing
  BY ThreadsAre DEF Init
<1>2. OpsOK
  <2>1. ASSUME NEW t \in Threads
        PROVE  /\ WellTyped(ops[t]) /\ Regular(ops[t]) /\ Buffered(ops[t], DOMAIN buf[t])
               /\ \E D \in SUBSET Lights : buf[t] \in [D -> States]
    <3>1. ops[t] = <<>> /\ buf[t] = Nothing
      BY <1>1
    <3>2. WellTyped(ops[t]) /\ Regular(ops[t]) /\ Buffered(ops[t], {})
      BY <3>1, EmptyShape DEF Sound
    <3>3. Buffered(ops[t], DOMAIN buf[t])
      BY <3>2, BufferedMore
    <3>4. QED
      BY <3>1, <3>2, <3>3, NothingType
  <2>2. ops["input"] \in Seq(InputOps) /\ ops["refresh"] \in Seq(RefreshOps)
    BY <1>1, EmptyShape DEF Sound
  <2>3. QED
    BY <1>1, <2>1, <2>2 DEF OpsOK
<1>3. stack = <<>> /\ pinMode = FALSE
  BY DEF Init
<1>4. StackOK
  <2>1. /\ ~Has(ops["input"], "push") /\ ~Has(ops["input"], "pop")
    BY <1>1, EmptyHas
  <2>2. Once(ops["input"], "push") /\ Once(ops["input"], "pop")
    BY <2>1 DEF Has, Once
  <2>3. Len(stack) = 0
    BY <1>3
  <2>4. QED
    BY <1>3, <2>1, <2>2, <2>3 DEF StackOK
<1>5. TypeOK
  <2>1. led \in [Lights -> States] /\ surface \in [Lights -> States]
    BY DEF Init, AllOff, States
  <2>2. stack \in Seq([Lights -> States]) /\ Len(stack) = (IF pinMode THEN 1 ELSE 0)
    BY <1>3
  <2>3. {blockUpdates, pinMode, pinned, refreshNeeded, on, rebooted} \subseteq BOOLEAN
    BY DEF Init
  <2>4. /\ since \in 0..(Limit + 1) /\ keys \in 0..MaxKeys /\ troubles \in 0..MaxTroubles
        /\ desk \in [Lights -> States] \cup {Gone} /\ excused \subseteq Lights /\ raced \subseteq Lights
    BY BoundsAre DEF Init
  <2>5. QED
    BY <2>1, <2>2, <2>3, <2>4 DEF TypeOK
<1>6. WrongIsOwed
  BY DEF Init, WrongIsOwed
<1>7. PinLightsOK
  BY <1>3 DEF PinLightsOK
<1>8. QED
  BY <1>2, <1>4, <1>5, <1>6, <1>7 DEF IInv

-----------------------------------------------------------------------------
(***************************************************************************)
(* The theorems.                                                           *)
(***************************************************************************)
(***************************************************************************)
(* The inductive invariant: a light that is wrong on the surface is owed   *)
(* by a program under way, and a light of the pin layer that no update     *)
(* races with is as wanted or still to be set.                             *)
(***************************************************************************)
THEOREM InductiveInvariant == Spec => []IInv
<1>1. Init => IInv
  BY InitInvariant
<1>2. IInv /\ [Next]_vars => IInv'
  <2> SUFFICES ASSUME IInv, [Next]_vars
               PROVE  IInv'
    OBVIOUS
  <2>1. ASSUME NEW t \in Threads, Step(t)
        PROVE  IInv'
    BY <2>1, CompareStep, StoreStep, ReadStep, SendStep, PushStep, PopStep, BlockStep DEF Step
  <2>2. CASE OtherPacket
    BY <2>2, OtherPacketStep
  <2>3. CASE EnterPinMode
    BY <2>3, EnterPinModeStep
  <2>4. ASSUME NEW state \in BOOLEAN, PinStrip(state)
        PROVE  IInv'
    BY <2>4, PinStripStep
  <2>5. CASE ExitPinMode
    BY <2>5, ExitPinModeStep
  <2>6. CASE UpdateEncoderFromMA
    BY <2>6, UpdateEncoderStep
  <2>7. CASE EditShow \/ SwitchOff \/ SwitchOn \/ Tick \/ UNCHANGED vars
    BY <2>7, SurroundingsStep
  <2>8. QED
    BY <2>1, <2>2, <2>3, <2>4, <2>5, <2>6, <2>7 DEF Next
<1>3. QED
  BY <1>1, <1>2, PTL DEF Spec

(***************************************************************************)
(* The lights are saved exactly while the pin layer is there, once, however*)
(* keys, updates and outages follow on each other: Pop never finds an      *)
(* empty stack (PushButtonLightState, PopButtonLightState).                *)
(***************************************************************************)
THEOREM TypeCorrect == Spec => []TypeOK
<1>1. IInv => TypeOK
  BY DEF IInv
<1>2. QED
  BY <1>1, InductiveInvariant, PTL

(***************************************************************************)
(* Between two packets the surface shows what mButtonLEDStates says, but   *)
(* for a packet that was overtaken or lost, or an outage too short for     *)
(* CheckIdle: comparing, setting and sending without a lock costs nothing  *)
(* else.                                                                   *)
(***************************************************************************)
THEOREM DivergenceExplained == Spec => []DivergenceHasCause
<1>1. IInv => DivergenceHasCause
  <2> SUFFICES ASSUME IInv, on, ~rebooted, ~refreshNeeded, Idle("input"), Idle("refresh"),
                      NEW l \in Lights \ excused
               PROVE  surface[l] = led[l]
    BY DEF DivergenceHasCause
  <2>1. surface[l] = led[l] \/ \E t \in Threads : Owes(t, l)
    BY DEF IInv, WrongIsOwed
  <2>2. \A t \in Threads : ops[t] = <<>>
    BY ThreadsAre DEF Idle
  <2>3. \A t \in Threads : ~Pays(ops[t], 0, l) /\ ~Sends(ops[t])
    BY <2>2, EmptyShape
  <2>4. QED
    BY <2>1, <2>3 DEF Owes
<1>2. QED
  BY <1>1, InductiveInvariant, PTL

(***************************************************************************)
(* In pin mode the key lights tell whether the strip is pinned, unless an  *)
(* update that had read m_blockUpdates before wrote the light later.       *)
(***************************************************************************)
THEOREM PinLightsCorrect == Spec => []PinLightsTellPins
<1>1. IInv => PinLightsTellPins
  <2> SUFFICES ASSUME IInv, pinMode, Idle("input"), NEW l \in Lights \ raced
               PROVE  led[l] = (IF (l = "MUTE") = pinned THEN "ON" ELSE "OFF")
    BY DEF PinLightsTellPins
  <2>1. HasStore(ops["input"], l) \/ led[l] = Wanted(l)
    BY DEF IInv, PinLightsOK
  <2>2. ~HasStore(ops["input"], l)
    BY EmptyShape DEF Idle
  <2>3. QED
    BY <2>1, <2>2 DEF Wanted
<1>2. QED
  BY <1>1, InductiveInvariant, PTL

-----------------------------------------------------------------------------
(***************************************************************************)
(* The list of executors of a column.                                      *)
(***************************************************************************)
There(col, r) == col[r].exec # "absent"

AllThere(s, col) == \A k \in 1..Len(s) : There(col, s[k])

LEMMA Inserted ==
    ASSUME NEW s \in Seq(Rows), NEW col, NEW r \in Rows, AllThere(s, col)
    PROVE  /\ Insert(s, col, r) \in Seq(Rows) /\ AllThere(Insert(s, col, r), col)
           /\ ~There(col, r) => Insert(s, col, r) = s
           /\ There(col, r) =>
                 /\ Len(Insert(s, col, r)) = Len(s) + 1
                 /\ Insert(s, col, r)[Len(s) + 1] = r
                 /\ \A k \in 1..Len(s) : Insert(s, col, r)[k] = s[k]
<1>1. CASE ~There(col, r)
  BY <1>1 DEF Insert, There
<1>2. CASE There(col, r)
  <2> DEFINE t == Append(s, r)
  <2>1. Insert(s, col, r) = t
    BY <1>2 DEF Insert, There
  <2>2. /\ t \in Seq(Rows) /\ Len(t) = Len(s) + 1 /\ t[Len(s) + 1] = r
        /\ \A k \in 1..Len(s) : t[k] = s[k]
    BY AppendProperties
  <2> HIDE DEF t
  <2>3. Len(s) \in Nat
    BY LenProperties
  <2>4. AllThere(t, col)
    BY <1>2, <2>2, <2>3 DEF AllThere
  <2>5. QED
    BY <1>2, <2>1, <2>2, <2>4
<1>3. QED
  BY <1>1, <1>2

\* Whatever is there: with three executors or more the first three are those
\* of 4xx, 3xx and 2xx, or the third is that of 1xx.
LEMMA ExecutersOf ==
    ASSUME NEW col
    PROVE  LET list == Executers(col)
           IN  /\ list \in Seq(Rows) /\ Len(list) \in 0..4 /\ AllThere(list, col)
               /\ There(col, 4) /\ There(col, 3) /\ There(col, 2) =>
                     /\ Len(list) >= 3 /\ list[1] = 4 /\ list[2] = 3 /\ list[3] = 2
                     /\ IF There(col, 1) THEN Len(list) = 4 /\ list[4] = 1
                                         ELSE Len(list) = 3
               /\ Len(list) >= 3 =>
                     list[3] = 1 \/ (list[1] = 4 /\ list[2] = 3 /\ list[3] = 2)
<1> DEFINE a == Insert(<<>>, col, 4)
           b == Insert(a, col, 3)
           c == Insert(b, col, 2)
           d == Insert(c, col, 1)
<1>1. Executers(col) = d
  BY DEF Executers
<1>2. 1 \in Rows /\ 2 \in Rows /\ 3 \in Rows /\ 4 \in Rows
  BY DEF Rows
<1> HIDE DEF b, c, d
<1>3. /\ a \in Seq(Rows) /\ AllThere(a, col)
      /\ IF There(col, 4) THEN Len(a) = 1 /\ a[1] = 4 ELSE Len(a) = 0
  <2> DEFINE e == <<>>
  <2>1. e \in Seq(Rows) /\ Len(e) = 0 /\ AllThere(e, col)
    BY DEF AllThere
  <2>2. a = Insert(e, col, 4)
    OBVIOUS
  <2> HIDE DEF a, e
  <2>3. a \in Seq(Rows) /\ AllThere(a, col)
    BY <1>2, <2>1, <2>2, Inserted
  <2>4. CASE There(col, 4)
    <3>1. a = Append(e, 4)
      BY <2>2, <2>4 DEF Insert, There
    <3>2. Len(a) = Len(e) + 1 /\ a[Len(e) + 1] = 4
      BY <1>2, <2>1, <3>1, AppendProperties
    <3>3. QED
      BY <2>1, <2>3, <2>4, <3>2
  <2>5. CASE ~There(col, 4)
    <3>1. a = e
      BY <2>2, <2>5 DEF Insert, There
    <3>2. QED
      BY <2>1, <2>3, <2>5, <3>1
  <2>6. QED
    BY <2>4, <2>5
<1> HIDE DEF a
<1> USE DEF b
<1>4. /\ b \in Seq(Rows) /\ AllThere(b, col)
      /\ IF There(col, 3)
         THEN Len(b) = Len(a) + 1 /\ b[Len(a) + 1] = 3 /\ \A k \in 1..Len(a) : b[k] = a[k]
         ELSE b = a
  BY <1>2, <1>3, Inserted
<1> HIDE DEF b
<1> USE DEF c
<1>5. /\ c \in Seq(Rows) /\ AllThere(c, col)
      /\ IF There(col, 2)
         THEN Len(c) = Len(b) + 1 /\ c[Len(b) + 1] = 2 /\ \A k \in 1..Len(b) : c[k] = b[k]
         ELSE c = b
  BY <1>2, <1>4, Inserted
<1> HIDE DEF c
<1> USE DEF d
<1>6. /\ d \in Seq(Rows) /\ AllThere(d, col)
      /\ IF There(col, 1)
         THEN Len(d) = Len(c) + 1 /\ d[Len(c) + 1] = 1 /\ \A k \in 1..Len(c) : d[k] = c[k]
         ELSE d = c
  BY <1>2, <1>5, Inserted
<1> HIDE DEF d
<1>7. /\ Len(b) \in 0..2
      /\ There(col, 4) /\ There(col, 3) => Len(b) = 2
      /\ Len(b) = 2 => b[1] = 4 /\ b[2] = 3
  <2>1. CASE There(col, 4) /\ There(col, 3)
    <3>1. Len(a) = 1 /\ a[1] = 4
      BY <1>3, <2>1
    <3>2. /\ Len(b) = Len(a) + 1 /\ b[Len(a) + 1] = 3
          /\ \A k \in 1..Len(a) : b[k] = a[k]
      BY <1>4, <2>1, Zenon
    <3>3. 1 \in 1..Len(a) /\ Len(a) + 1 = 2
      BY <3>1
    <3>4. b[1] = 4 /\ b[2] = 3 /\ Len(b) = 2
      BY <3>1, <3>2, <3>3
    <3>5. QED
      BY <3>4
  <2>2. CASE There(col, 4) /\ ~There(col, 3)
    BY <1>3, <1>4, <2>2
  <2>3. CASE ~There(col, 4) /\ There(col, 3)
    BY <1>3, <1>4, <2>3
  <2>4. CASE ~There(col, 4) /\ ~There(col, 3)
    BY <1>3, <1>4, <2>4
  <2>5. QED
    BY <2>1, <2>2, <2>3, <2>4
<1>8. /\ Len(c) \in 0..3
      /\ There(col, 4) /\ There(col, 3) /\ There(col, 2) => Len(c) = 3
      /\ Len(c) = 3 => c[1] = 4 /\ c[2] = 3 /\ c[3] = 2
  <2>1. CASE There(col, 2) /\ Len(b) = 2
    BY <1>5, <1>7, <2>1
  <2>2. CASE There(col, 2) /\ Len(b) # 2
    BY <1>5, <1>7, <2>2
  <2>3. CASE ~There(col, 2)
    BY <1>5, <1>7, <2>3
  <2>4. QED
    BY <2>1, <2>2, <2>3
<1>9. CASE There(col, 1)
  <2>1. /\ Len(d) = Len(c) + 1 /\ d[Len(c) + 1] = 1
        /\ \A k \in 1..Len(c) : d[k] = c[k]
    BY <1>6, <1>9
  <2>2. Len(d) \in 0..4 /\ (Len(d) >= 3 => Len(c) = 2 \/ Len(c) = 3)
    BY <1>8, <2>1
  <2>3. CASE Len(c) = 3
    BY <1>1, <1>6, <1>8, <1>9, <2>1, <2>3
  <2>4. CASE Len(c) # 3
    BY <1>1, <1>6, <1>8, <2>1, <2>2, <2>4
  <2>5. QED
    BY <2>3, <2>4
<1>10. CASE ~There(col, 1)
  BY <1>1, <1>6, <1>8, <1>10
<1>11. QED
  BY <1>9, <1>10

-----------------------------------------------------------------------------
(***************************************************************************)
(* The packet of a column.                                                 *)
(***************************************************************************)
Packets == [types : [1..3 -> Rows \cup {None}], keys : [1..4 -> BOOLEAN]]

Found(type) == type \notin {None, 1}

LEMMA Prepared ==
    ASSUME NEW col \in Columns, Len(Executers(col)) >= 3
    PROVE  /\ Prepare(col) \in Packets
           /\ Complete(col) =>
                 /\ Prepare(col).types[1] = 4
                 /\ Prepare(col).types[2] = 3
                 /\ Prepare(col).types[3] = 2
                 /\ \A r \in Rows : Prepare(col).keys[5 - r] = col[r].key
           /\ (\A k \in 1..3 : Found(Prepare(col).types[k])) => Complete(col)
<1> DEFINE list == Executers(col)
<1>1. /\ list \in Seq(Rows) /\ Len(list) \in 3..4 /\ AllThere(list, col)
      /\ There(col, 4) /\ There(col, 3) /\ There(col, 2) =>
            /\ list[1] = 4 /\ list[2] = 3 /\ list[3] = 2
            /\ IF There(col, 1) THEN Len(list) = 4 /\ list[4] = 1
                                ELSE Len(list) = 3
      /\ list[3] = 1 \/ (list[1] = 4 /\ list[2] = 3 /\ list[3] = 2)
  BY ExecutersOf
<1>2. /\ \A r \in Rows : col[r].exec \in {"absent", "unnamed", "named"}
      /\ \A r \in Rows : col[r].key \in BOOLEAN
      /\ \A r \in Rows : col[r].key => There(col, r)
  BY DEF Columns, There
<1> DEFINE types == [k \in 1..3 |-> IF col[list[k]].exec = "unnamed" THEN None ELSE list[k]]
           flags == [k \in 1..4 |-> k <= Len(list) /\ col[list[k]].key]
<1>3. Prepare(col) = [types |-> types, keys |-> flags]
  BY DEF Prepare
<1> HIDE DEF list
<1>4. \A k \in 1..3 : list[k] \in Rows /\ There(col, list[k])
  BY <1>1 DEF AllThere
<1>5. /\ types \in [1..3 -> Rows \cup {None}]
      /\ \A k \in 1..3 : types[k] = IF col[list[k]].exec = "unnamed" THEN None ELSE list[k]
  BY <1>4
<1>6. /\ flags \in [1..4 -> BOOLEAN]
      /\ \A k \in 1..4 : flags[k] = (k <= Len(list) /\ col[list[k]].key)
  <2>1. \A k \in 1..4 : (k <= Len(list) /\ col[list[k]].key) \in BOOLEAN
    OBVIOUS
  <2>2. QED
    BY <2>1, Zenon
<1> HIDE DEF types, flags
<1>7. Prepare(col).types = types /\ Prepare(col).keys = flags
  BY <1>3
<1>8. Prepare(col) \in Packets
  BY <1>3, <1>5, <1>6 DEF Packets
<1>9. ASSUME Complete(col)
      PROVE  /\ types[1] = 4 /\ types[2] = 3 /\ types[3] = 2
             /\ \A r \in Rows : flags[5 - r] = col[r].key
  <2>1. /\ 2 \in Rows /\ 3 \in Rows /\ 4 \in Rows
        /\ \A r \in 2..4 : col[r].exec = "named" /\ There(col, r)
    BY <1>9 DEF Complete, There, Rows
  <2>2. list[1] = 4 /\ list[2] = 3 /\ list[3] = 2
    BY <1>1, <2>1
  <2>3. types[1] = 4 /\ types[2] = 3 /\ types[3] = 2
    BY <1>5, <2>1, <2>2
  <2>4. flags[1] = col[4].key /\ flags[2] = col[3].key /\ flags[3] = col[2].key
    BY <1>1, <1>2, <1>6, <2>1, <2>2
  <2>5. flags[4] = col[1].key
    <3>1. 1 \in Rows
      BY DEF Rows
    <3>2. flags[4] = (4 <= Len(list) /\ col[list[4]].key)
      BY <1>6
    <3>3. CASE There(col, 1)
      <4>1. Len(list) = 4 /\ list[4] = 1
        BY <1>1, <2>1, <3>3
      <4>2. QED
        BY <1>2, <3>1, <3>2, <4>1
    <3>4. CASE ~There(col, 1)
      <4>1. Len(list) = 3 /\ col[1].key = FALSE
        BY <1>1, <1>2, <2>1, <3>1, <3>4
      <4>2. ~(4 <= Len(list))
        BY <4>1
      <4>3. (4 <= Len(list) /\ col[list[4]].key) = FALSE
        BY <4>2, Zenon
      <4>4. QED
        BY <3>2, <4>1, <4>3, Zenon
    <3>5. QED
      BY <3>3, <3>4
  <2>6. \A r \in Rows : r = 1 \/ r = 2 \/ r = 3 \/ r = 4
    BY DEF Rows
  <2>7. 5 - 1 = 4 /\ 5 - 2 = 3 /\ 5 - 3 = 2 /\ 5 - 4 = 1
    OBVIOUS
  <2>8. QED
    BY <2>3, <2>4, <2>5, <2>6, <2>7
<1>10. ASSUME \A k \in 1..3 : Found(types[k])
       PROVE  Complete(col)
  <2>1. \A k \in 1..3 : list[k] # 1 /\ col[list[k]].exec = "named"
    BY <1>2, <1>4, <1>5, <1>10 DEF Found, There
  <2>2. list[1] = 4 /\ list[2] = 3 /\ list[3] = 2
    BY <1>1, <2>1
  <2>3. QED
    BY <2>1, <2>2 DEF Complete
<1>11. QED
  BY <1>7, <1>8, <1>9, <1>10

-----------------------------------------------------------------------------
(***************************************************************************)
(* The invariant.  While a packet is applied it is the one of the column   *)
(* of the round, and what the loop has passed was found.  A text on its    *)
(* way is that of the encoder the loop is at, which is the one the dial    *)
(* drives unless the dial was toggled since the round began.               *)
(***************************************************************************)
Driven == IF toggle THEN 2 ELSE 1

Ranges ==
    /\ column \in Columns
    /\ pc \in {"idle", "disable", "encoder", "text", "lights", "stopped", "aborted"}
    /\ at \in 1..3 /\ (pc \in {"idle", "disable", "lights"} => at = 1)
    /\ failure \in {"none", "PluginIndexesNil", "EncoderX100", "EncoderNone"}
    /\ known \in SUBSET Rows
    /\ text \in Texts
    /\ last \in {"none", "active", "inactive"}

Switches ==
    /\ toggle \in BOOLEAN /\ toggling \in BOOLEAN /\ toggled \in BOOLEAN
    /\ lights \in [Rows -> BOOLEAN]

Pending ==
    /\ pc = "text" => pending = Name[packet.types[at]]
    /\ pc # "text" => pending = "empty"

PacketOfColumn ==
    /\ pc \in {"encoder", "text", "lights", "aborted"} =>
          Len(Executers(column)) >= 3 /\ packet = Prepare(column)
    /\ pc \notin {"encoder", "text", "lights", "aborted"} => packet = NoPacket

FoundSoFar ==
    /\ pc = "encoder" => \A k \in 1..3 : k < at => Found(packet.types[k])
    /\ pc = "text" => \A k \in 1..3 : k <= at => Found(packet.types[k])
    /\ pc = "lights" => \A k \in 1..3 : Found(packet.types[k])

Ends ==
    /\ failure = "none" => pc \notin {"stopped", "aborted"}
    /\ failure # "none" => /\ pc \in {"stopped", "aborted"}
                           /\ ~Complete(column) /\ Executers(column) # <<>>

Finished ==
    last = "active" =>
        /\ pc = "idle" /\ Complete(column)
        /\ \A r \in Rows : lights[r] = column[r].key

DialNamed ==
    ~toggled =>
        /\ pc = "encoder" /\ at > Driven => text = Name[packet.types[Driven]]
        /\ pc = "text" => at = Driven
        /\ pc = "lights" => text = Name[packet.types[Driven]]
        /\ last = "active" => text = Name[IF toggle THEN 3 ELSE 4]

ColumnIInv ==
    /\ Ranges
    /\ Switches
    /\ Pending
    /\ PacketOfColumn
    /\ FoundSoFar
    /\ Ends
    /\ Finished
    /\ DialNamed

LEMMA NameOfFound ==
    ASSUME NEW t \in Rows \cup {None}, Found(t)
    PROVE  Name[t] \in Texts /\ Name[t] # "empty"
<1>1. t = 2 \/ t = 3 \/ t = 4
  BY DEF Rows, None, Found
<1>2. Name[2] = "2xx" /\ Name[3] = "3xx" /\ Name[4] = "4xx"
  BY DEF Name
<1>3. Name[t] \in {Name[r] : r \in 2..4}
  BY <1>1
<1>4. QED
  BY <1>1, <1>2, <1>3 DEF Texts

LEMMA Applied ==
    ASSUME ColumnIInv, pc \in {"encoder", "text", "lights", "aborted"}
    PROVE  /\ packet \in Packets /\ column \in Columns
           /\ \A k \in 1..3 : packet.types[k] \in Rows \cup {None}
           /\ Executers(column) # <<>>
           /\ Complete(column) =>
                 /\ \A k \in 1..3 : Found(packet.types[k])
                 /\ packet.types[1] = 4 /\ packet.types[2] = 3
                 /\ \A r \in Rows : packet.keys[5 - r] = column[r].key
           /\ (\A k \in 1..3 : Found(packet.types[k])) => Complete(column)
<1>1. column \in Columns /\ Len(Executers(column)) >= 3 /\ packet = Prepare(column)
  BY DEF ColumnIInv, Ranges, PacketOfColumn
<1>2. /\ packet \in Packets
      /\ Complete(column) =>
            /\ packet.types[1] = 4 /\ packet.types[2] = 3 /\ packet.types[3] = 2
            /\ \A r \in Rows : packet.keys[5 - r] = column[r].key
      /\ (\A k \in 1..3 : Found(packet.types[k])) => Complete(column)
  BY <1>1, Prepared
<1>3. \A k \in 1..3 : packet.types[k] \in Rows \cup {None}
  BY <1>2 DEF Packets
<1>4. Executers(column) # <<>>
  <2>1. Len(<<>>) = 0
    OBVIOUS
  <2>2. QED
    BY <1>1, <2>1
<1>5. ASSUME packet.types[1] = 4, packet.types[2] = 3, packet.types[3] = 2
      PROVE  \A k \in 1..3 : Found(packet.types[k])
  BY <1>5 DEF Found, None
<1>6. QED
  BY <1>1, <1>2, <1>3, <1>4, <1>5

LEMMA ColumnStarts == ColumnInit => ColumnIInv
<1> SUFFICES ASSUME ColumnInit PROVE ColumnIInv
  OBVIOUS
<1> USE DEF ColumnInit
<1>1. column \in Columns
  BY DEF Columns, NoColumn
<1>2. Ranges
  BY <1>1 DEF Ranges, Texts
<1>3. Switches
  BY DEF Switches
<1>4. Pending /\ PacketOfColumn /\ FoundSoFar /\ Ends /\ Finished /\ DialNamed
  BY DEF Pending, PacketOfColumn, FoundSoFar, Ends, Finished, DialNamed
<1>5. QED
  BY <1>2, <1>3, <1>4 DEF ColumnIInv

LEMMA AnswerKeeps ==
    ASSUME ColumnIInv, NEW col \in Columns, Answer(col)
    PROVE  ColumnIInv'
<1> USE DEF ColumnIInv, Answer
<1>1. Len(<<>>) = 0
  OBVIOUS
<1>2. Ranges'
  BY DEF Ranges
<1>3. Switches'
  BY DEF Switches
<1>4. Pending'
  BY DEF Pending
<1>5. PacketOfColumn' /\ FoundSoFar'
  BY DEF PacketOfColumn, FoundSoFar, Ranges
<1>6. Ends'
  <2> DEFINE list == Executers(col)
  <2>1. There(col, 4) /\ There(col, 3) /\ There(col, 2) => Len(list) >= 3
    BY ExecutersOf
  <2>2. Complete(col) => There(col, 4) /\ There(col, 3) /\ There(col, 2)
    BY DEF Complete, There
  <2>3. Len(list) \in 1..2 => ~Complete(col) /\ list # <<>>
    <3> HIDE DEF list, ColumnIInv, Answer
    <3>1. \A n \in 1..2 : ~(n >= 3) /\ n # 0
      OBVIOUS
    <3>2. list = <<>> => Len(list) = 0
      BY <1>1
    <3>3. QED
      BY <2>1, <2>2, <3>1, <3>2, Zenon
  <2>4. QED
    BY <2>3 DEF Ends
<1>7. Finished' /\ DialNamed'
  BY DEF Finished, DialNamed, Ranges, Driven
<1>8. QED
  BY <1>2, <1>3, <1>4, <1>5, <1>6, <1>7

LEMMA DisableKeeps ==
    ASSUME ColumnIInv, Disable
    PROVE  ColumnIInv'
<1> USE DEF ColumnIInv, Disable, inputVars
<1>1. Ranges' /\ Switches'
  BY DEF Ranges, Switches, Texts
<1>2. Pending' /\ PacketOfColumn' /\ FoundSoFar' /\ Ends'
  BY DEF Pending, PacketOfColumn, FoundSoFar, Ends
<1>3. Finished' /\ DialNamed'
  BY DEF Finished, DialNamed
<1>4. QED
  BY <1>1, <1>2, <1>3

LEMMA EncoderKeeps ==
    ASSUME ColumnIInv, Encoder
    PROVE  ColumnIInv'
<1> USE DEF ColumnIInv, Encoder, inputVars
<1>1. /\ Found(packet.types[at]) /\ packet.types[at] \in Rows
      /\ at \in 1..3
  BY Applied DEF Found, Ranges
<1>2. Ranges'
  BY <1>1 DEF Ranges, NextEncoder
<1>3. Switches'
  BY DEF Switches
<1>4. CASE at = Driven
  <2>1. pc' = "text" /\ pending' = Name[packet.types[at]] /\ at' = at
    BY <1>4 DEF Driven
  <2>2. Pending' /\ PacketOfColumn' /\ Ends' /\ Finished'
    BY <2>1 DEF Pending, PacketOfColumn, Ends, Finished
  <2>3. FoundSoFar'
    BY <1>1, <2>1 DEF FoundSoFar
  <2>4. DialNamed'
    BY <1>4, <2>1 DEF DialNamed, Finished, Driven
  <2>5. QED
    BY <1>2, <1>3, <2>2, <2>3, <2>4
<1>5. CASE at # Driven
  <2>1. pending' = pending /\ IF at = 3 THEN pc' = "lights" /\ at' = 1
                                         ELSE pc' = "encoder" /\ at' = at + 1
    BY <1>5 DEF Driven, NextEncoder
  <2>2. Pending' /\ PacketOfColumn' /\ Ends' /\ Finished'
    BY <2>1 DEF Pending, PacketOfColumn, Ends, Finished
  <2>3. FoundSoFar'
    BY <1>1, <2>1 DEF FoundSoFar
  <2>4. DialNamed'
    BY <1>1, <1>5, <2>1 DEF DialNamed, Finished, Driven
  <2>5. QED
    BY <1>2, <1>3, <2>2, <2>3, <2>4
<1>6. QED
  BY <1>4, <1>5

LEMMA EncoderMissingKeeps ==
    ASSUME ColumnIInv, EncoderMissing
    PROVE  ColumnIInv'
<1> USE DEF ColumnIInv, EncoderMissing, inputVars
<1>1. ~Complete(column) /\ Executers(column) # <<>>
  BY Applied DEF Found, Ranges
<1>2. Ranges' /\ Switches'
  BY DEF Ranges, Switches
<1>3. Pending' /\ PacketOfColumn' /\ FoundSoFar'
  BY DEF Pending, PacketOfColumn, FoundSoFar
<1>4. Ends'
  BY <1>1 DEF Ends
<1>5. Finished' /\ DialNamed'
  BY DEF Finished, DialNamed
<1>6. QED
  BY <1>2, <1>3, <1>4, <1>5

LEMMA SetTextKeeps ==
    ASSUME ColumnIInv, SetText
    PROVE  ColumnIInv'
<1> USE DEF ColumnIInv, SetText, inputVars
<1>1. /\ at \in 1..3 /\ Found(packet.types[at])
      /\ packet.types[at] \in Rows \cup {None}
      /\ text' = Name[packet.types[at]]
  BY Applied DEF FoundSoFar, Ranges, Pending
<1>2. text' \in Texts
  BY <1>1, NameOfFound
<1>3. IF at = 3 THEN pc' = "lights" /\ at' = 1 ELSE pc' = "encoder" /\ at' = at + 1
  BY DEF NextEncoder
<1>4. Ranges' /\ Switches'
  BY <1>2, <1>3 DEF Ranges, Switches
<1>5. Pending' /\ PacketOfColumn' /\ Ends' /\ Finished'
  BY <1>3 DEF Pending, PacketOfColumn, Ends, Finished
<1>6. FoundSoFar'
  BY <1>1, <1>3 DEF FoundSoFar
<1>7. DialNamed'
  BY <1>1, <1>3 DEF DialNamed, Finished, Driven
<1>8. QED
  BY <1>4, <1>5, <1>6, <1>7

LEMMA SetLightsKeeps ==
    ASSUME ColumnIInv, SetLights
    PROVE  ColumnIInv'
<1> USE DEF ColumnIInv, SetLights, inputVars
<1>1. /\ Complete(column) /\ packet.types[1] = 4 /\ packet.types[2] = 3
      /\ packet \in Packets
      /\ \A r \in Rows : packet.keys[5 - r] = column[r].key
  BY Applied DEF FoundSoFar
<1>2. lights' \in [Rows -> BOOLEAN] /\ \A r \in Rows : lights'[r] = column[r].key
  <2>1. \A r \in Rows : 5 - r \in 1..4
    BY DEF Rows
  <2>2. QED
    BY <1>1, <2>1 DEF Packets
<1>3. Ranges'
  BY DEF Ranges
<1>4. Switches'
  BY <1>2 DEF Switches
<1>5. Pending' /\ PacketOfColumn' /\ FoundSoFar' /\ Ends'
  BY DEF Pending, PacketOfColumn, FoundSoFar, Ends
<1>6. Finished'
  BY <1>1, <1>2 DEF Finished, Complete
<1>7. DialNamed'
  BY <1>1 DEF DialNamed, Driven
<1>8. QED
  BY <1>3, <1>4, <1>5, <1>6, <1>7

LEMMA InputKeeps ==
    ASSUME ColumnIInv, Toggle \/ ToggleText
    PROVE  ColumnIInv'
<1> USE DEF ColumnIInv, Toggle, ToggleText, roundVars
<1>1. Name[2] \in Texts /\ Name[3] \in Texts
  BY DEF Texts
<1>2. Ranges'
  BY <1>1 DEF Ranges
<1>3. Switches'
  BY DEF Switches
<1>4. Pending' /\ PacketOfColumn' /\ FoundSoFar' /\ Ends' /\ Finished'
  BY DEF Pending, PacketOfColumn, FoundSoFar, Ends, Finished
<1>5. DialNamed'
  BY DEF DialNamed
<1>6. QED
  BY <1>2, <1>3, <1>4, <1>5

LEMMA NothingKeepsColumn ==
    ASSUME ColumnIInv, UNCHANGED columnVars
    PROVE  ColumnIInv'
BY DEF ColumnIInv, columnVars, inputVars, roundVars, Ranges, Switches, Pending,
       PacketOfColumn, FoundSoFar, Ends, Finished, DialNamed, Driven

\* The invariant holds in every state of the rounds of a column.
THEOREM ColumnInvariant == ColumnSpec => []ColumnIInv
<1>1. ASSUME ColumnIInv, [ColumnNext]_columnVars
      PROVE  ColumnIInv'
  BY <1>1, AnswerKeeps, DisableKeeps, EncoderKeeps, EncoderMissingKeeps, SetTextKeeps,
     SetLightsKeeps, InputKeeps, NothingKeepsColumn DEF ColumnNext
<1>2. QED
  BY <1>1, ColumnStarts, PTL DEF ColumnSpec

LEMMA ColumnInvariantTyped == ColumnIInv => ColumnTypeOK
<1> SUFFICES ASSUME ColumnIInv PROVE ColumnTypeOK
  OBVIOUS
<1> USE DEF ColumnIInv
<1>1. IF pc \in {"encoder", "text", "lights", "aborted"}
      THEN packet \in [types : [1..3 -> Rows \cup {None}], keys : [1..4 -> BOOLEAN]]
      ELSE packet = NoPacket
  BY Applied DEF PacketOfColumn, Packets
<1>2. pending \in Texts /\ (pending # "empty" <=> pc = "text")
  <2>1. CASE pc = "text"
    <3>1. /\ at \in 1..3 /\ Found(packet.types[at])
          /\ packet.types[at] \in Rows \cup {None}
          /\ pending = Name[packet.types[at]]
      BY <2>1, Applied DEF FoundSoFar, Ranges, Pending
    <3>2. QED
      BY <2>1, <3>1, NameOfFound
  <2>2. CASE pc # "text"
    BY <2>2 DEF Pending, Texts
  <2>3. QED
    BY <2>1, <2>2
<1>3. (failure = "none") = (pc \notin {"stopped", "aborted"})
  BY DEF Ends
<1>4. toggle \in BOOLEAN /\ toggling \in BOOLEAN /\ toggled \in BOOLEAN
  BY DEF Switches
<1>5. lights \in [Rows -> BOOLEAN]
  BY DEF Switches
<1>6. /\ column \in Columns
      /\ pc \in {"idle", "disable", "encoder", "text", "lights", "stopped", "aborted"}
      /\ at \in 1..3
      /\ failure \in {"none", "PluginIndexesNil", "EncoderX100", "EncoderNone"}
      /\ known \in SUBSET Rows
      /\ text \in Texts
      /\ last \in {"none", "active", "inactive"}
  BY DEF Ranges
<1>7. QED
  BY <1>1, <1>2, <1>3, <1>4, <1>5, <1>6, Zenon DEF ColumnTypeOK

\* Type correctness of the rounds of a column.
THEOREM ColumnTypeCorrect == ColumnSpec => []ColumnTypeOK
BY ColumnInvariant, ColumnInvariantTyped, PTL

\* Whatever the show holds and whenever the dial is toggled: a round that ends
\* the plugin or the process is one about a column that has some of its
\* executors and not the three named ones, and one that goes through is not.
THEOREM ColumnStops == ColumnSpec => []StopsOnlyWhen
<1>1. ColumnIInv => StopsOnlyWhen
  BY DEF ColumnIInv, Ends, Finished, StopsOnlyWhen
<1>2. QED
  BY <1>1, ColumnInvariant, PTL

\* The lights of a strip tell the keys of the rows of its column, although the
\* flags of the packet go by the position in a list that closes up.
THEOREM ColumnLights == ColumnSpec => []LightsTellRows
<1>1. ColumnIInv => LightsTellRows
  BY DEF ColumnIInv, Finished, LightsTellRows
<1>2. QED
  BY <1>1, ColumnInvariant, PTL

\* A strip shows the name of the executor its dial drives after every round the
\* dial was not toggled in.
THEOREM ColumnText == ColumnSpec => []TextNamesDial
<1>1. ColumnIInv => TextNamesDial
  BY DEF ColumnIInv, DialNamed, TextNamesDial
<1>2. QED
  BY <1>1, ColumnInvariant, PTL
=============================================================================
