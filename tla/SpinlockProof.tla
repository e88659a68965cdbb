----------------------------- MODULE SpinlockProof -----------------------------
(***************************************************************************)
(* Interrupts and locks fit together on any number of harts, for any number *)
(* of processes: LocksNest is an invariant of Spinlock.  The inductive      *)
(* invariant says of every thread that it can do the rest of its script,    *)
(* with the locks it has and what it knows of interrupts.                   *)
(***************************************************************************)
EXTENDS Spinlock, FiniteSetTheorems, TLAPS

SretK == <<"sret", "kernel">>
SretU == <<"sret", "user">>

\* The operations that a thread may have still to do.
Ops == ({"acquire", "release"} \X Lock) \cup ({"sched", "exit", "swtch"} \X Process)
         \cup {SretK, SretU}

\* What a thread knows of interrupts: they are on when it has no lock; off, in a handler;
\* or it does not know, in scheduler() and before a new process has come to user mode.
Mode == {"on", "off", "any"}
Plain(t) == IF t \in Process THEN "on" ELSE "any"

\* Thread t, which has the locks G, may do op; what it has, and knows, after it.
Fits(t, op, G, m) ==
  \/ \E l \in Lock : op = Acq(l) /\ l \notin G /\ (t \in Process => m # "any")
  \/ \E l \in Lock : op = Rel(l) /\ l \in G /\ (t \in Process /\ m = "any" => G = {l})
  \/ t \in Process /\ op = <<"sched", t>> /\ G = {t} /\ m # "any"
  \/ t \in Process /\ op = <<"exit", t>> /\ G = {t} /\ m = "on"
  \/ t \in Cpu /\ m = "any" /\ \E p \in Process : op = <<"swtch", p>> /\ G = {p}
  \/ op = SretK /\ G = {} /\ m = "off"
  \/ t \in Process /\ op = SretU /\ G = {} /\ m # "off"
Then(op, G) ==
  CASE op[1] = "acquire" -> G \cup {op[2]}
    [] op[1] = "release" -> G \ {op[2]}
    [] OTHER -> G
ThenMode(t, op, m) ==
  CASE op = SretK -> Plain(t)
    [] op = SretU -> "on"
    [] op[1] = "exit" -> "any"
    [] OTHER -> m

\* Thread t can do all of s, in this order: W is what is left, what it has and what it
\* knows, before every operation of s and behind the last.
Occurs(op, s) == \E k \in DOMAIN s : s[k] = op
Fit(t, s, G, m) ==
  /\ m = "off" <=> Occurs(SretK, s)
  /\ m = "on" => t \in Process
  /\ s = <<>> => G = {} /\ m = Plain(t)
  /\ s # <<>> => Fits(t, Head(s), G, m)
Closed(t, W) ==
  \A s \in Seq(Ops), G \in SUBSET Lock, m \in Mode :
    <<s, G, m>> \in W =>
      /\ Fit(t, s, G, m)
      /\ s # <<>> => <<Tail(s), Then(Head(s), G), ThenMode(t, Head(s), m)>> \in W
Good(t, s, G, m) ==
  /\ s \in Seq(Ops) /\ G \in SUBSET Lock /\ m \in Mode
  /\ \E W \in SUBSET (Seq(Ops) \X (SUBSET Lock) \X Mode) : Closed(t, W) /\ <<s, G, m>> \in W

\* A thread that can do s can do the first operation of s and then the rest ...
LEMMA GoodStep ==
  ASSUME NEW t, NEW s, NEW G, NEW m, Good(t, s, G, m)
  PROVE  /\ Fit(t, s, G, m)
         /\ s # <<>> => Good(t, Tail(s), Then(Head(s), G), ThenMode(t, Head(s), m))
<1>1. PICK W \in SUBSET (Seq(Ops) \X (SUBSET Lock) \X Mode) : Closed(t, W) /\ <<s, G, m>> \in W
  BY DEF Good
<1>2. s \in Seq(Ops) /\ G \in SUBSET Lock /\ m \in Mode
  BY DEF Good
<1>3. /\ Fit(t, s, G, m)
      /\ s # <<>> => <<Tail(s), Then(Head(s), G), ThenMode(t, Head(s), m)>> \in W
  BY <1>1, <1>2 DEF Closed
<1>4. ASSUME s # <<>>
      PROVE  Good(t, Tail(s), Then(Head(s), G), ThenMode(t, Head(s), m))
  <2>1. <<Tail(s), Then(Head(s), G), ThenMode(t, Head(s), m)>> \in W
    BY <1>3, <1>4
  <2>2. <<Tail(s), Then(Head(s), G), ThenMode(t, Head(s), m)>> \in Seq(Ops) \X (SUBSET Lock) \X Mode
    BY <2>1, <1>1
  <2>3. Tail(s) \in Seq(Ops) /\ Then(Head(s), G) \in SUBSET Lock /\ ThenMode(t, Head(s), m) \in Mode
    BY <2>2
  <2> QED BY <2>1, <2>3, <1>1 DEF Good
<1> QED BY <1>3, <1>4

\* ... and the other way round.
LEMMA GoodBack ==
  ASSUME NEW t, NEW s \in Seq(Ops), NEW G \in SUBSET Lock, NEW m \in Mode, Fit(t, s, G, m),
         s # <<>> => Good(t, Tail(s), Then(Head(s), G), ThenMode(t, Head(s), m))
  PROVE  Good(t, s, G, m)
<1>0. {<<s, G, m>>} \in SUBSET (Seq(Ops) \X (SUBSET Lock) \X Mode)
  <2>1. <<s, G, m>> \in Seq(Ops) \X (SUBSET Lock) \X Mode
    OBVIOUS
  <2> HIDE DEF Ops, Lock, Mode
  <2> QED BY <2>1, Zenon
<1>1. CASE s = <<>>
  <2> DEFINE W == {<<s, G, m>>}
  <2>1. Closed(t, W)
    BY <1>1 DEF Closed
  <2>2. <<s, G, m>> \in W
    OBVIOUS
  <2> HIDE DEF W
  <2> QED BY <2>1, <2>2, <1>0 DEF Good, W
<1>2. CASE s # <<>>
  <2>1. PICK V \in SUBSET (Seq(Ops) \X (SUBSET Lock) \X Mode) :
          /\ Closed(t, V)
          /\ <<Tail(s), Then(Head(s), G), ThenMode(t, Head(s), m)>> \in V
    BY <1>2 DEF Good
  <2> DEFINE W == V \cup {<<s, G, m>>}
  <2>2. Closed(t, W)
    <3> SUFFICES ASSUME NEW u \in Seq(Ops), NEW H \in SUBSET Lock, NEW n \in Mode,
                        <<u, H, n>> \in W
                 PROVE  /\ Fit(t, u, H, n)
                        /\ u # <<>> => <<Tail(u), Then(Head(u), H), ThenMode(t, Head(u), n)>> \in W
      BY DEF Closed
    <3>1. CASE <<u, H, n>> \in V
      BY <3>1, <2>1 DEF Closed
    <3>2. CASE <<u, H, n>> = <<s, G, m>>
      <4>1. u = s /\ H = G /\ n = m
        BY <3>2
      <4> QED BY <4>1, <2>1
    <3> QED BY <3>1, <3>2
  <2>3. W \in SUBSET (Seq(Ops) \X (SUBSET Lock) \X Mode)
    BY <1>0
  <2>4. <<s, G, m>> \in W
    OBVIOUS
  <2> HIDE DEF W
  <2> QED BY <2>2, <2>3, <2>4 DEF Good
<1> QED BY <1>1, <1>2

\* What Fits(), Then() and ThenMode() say of every operation.
LEMMA AtAcquire ==
  ASSUME NEW t, NEW s, NEW G, NEW m, NEW l, Good(t, s, G, m), s # <<>>, Head(s) = Acq(l)
  PROVE  /\ l \in Lock /\ l \notin G /\ (t \in Process => m # "any")
         /\ Good(t, Tail(s), G \cup {l}, m)
<1>1. Fits(t, Acq(l), G, m) /\ Good(t, Tail(s), Then(Acq(l), G), ThenMode(t, Acq(l), m))
  BY GoodStep DEF Fit
<1>2. l \in Lock /\ l \notin G /\ (t \in Process => m # "any")
  BY <1>1 DEF Fits, Acq, Rel, SretK, SretU
<1>3. Then(Acq(l), G) = G \cup {l} /\ ThenMode(t, Acq(l), m) = m
  BY DEF Then, ThenMode, Acq, SretK, SretU
<1> QED BY <1>1, <1>2, <1>3

LEMMA AtRelease ==
  ASSUME NEW t, NEW s, NEW G, NEW m, NEW l, Good(t, s, G, m), s # <<>>, Head(s) = Rel(l)
  PROVE  /\ l \in Lock /\ l \in G /\ (t \in Process /\ m = "any" => G = {l})
         /\ Good(t, Tail(s), G \ {l}, m)
<1>1. Fits(t, Rel(l), G, m) /\ Good(t, Tail(s), Then(Rel(l), G), ThenMode(t, Rel(l), m))
  BY GoodStep DEF Fit
<1>2. l \in Lock /\ l \in G /\ (t \in Process /\ m = "any" => G = {l})
  BY <1>1 DEF Fits, Acq, Rel, SretK, SretU
<1>3. Then(Rel(l), G) = G \ {l} /\ ThenMode(t, Rel(l), m) = m
  BY DEF Then, ThenMode, Rel, SretK, SretU
<1> QED BY <1>1, <1>2, <1>3

LEMMA AtSched ==
  ASSUME NEW t, NEW s, NEW G, NEW m, NEW p, Good(t, s, G, m), s # <<>>, Head(s) = <<"sched", p>>
  PROVE  /\ t \in Process /\ p = t /\ G = {t} /\ m # "any"
         /\ Good(t, Tail(s), {t}, m)
<1>1. /\ Fits(t, <<"sched", p>>, G, m)
      /\ Good(t, Tail(s), Then(<<"sched", p>>, G), ThenMode(t, <<"sched", p>>, m))
  BY GoodStep DEF Fit
<1>2. t \in Process /\ p = t /\ G = {t} /\ m # "any"
  BY <1>1 DEF Fits, Acq, Rel, SretK, SretU
<1>3. Then(<<"sched", p>>, G) = G /\ ThenMode(t, <<"sched", p>>, m) = m
  BY DEF Then, ThenMode, SretK, SretU
<1> QED BY <1>1, <1>2, <1>3

LEMMA AtExit ==
  ASSUME NEW t, NEW s, NEW G, NEW m, NEW p, Good(t, s, G, m), s # <<>>, Head(s) = <<"exit", p>>
  PROVE  /\ t \in Process /\ p = t /\ G = {t} /\ m = "on"
         /\ Good(t, Tail(s), {t}, "any")
<1>1. /\ Fits(t, <<"exit", p>>, G, m)
      /\ Good(t, Tail(s), Then(<<"exit", p>>, G), ThenMode(t, <<"exit", p>>, m))
  BY GoodStep DEF Fit
<1>2. t \in Process /\ p = t /\ G = {t} /\ m = "on"
  BY <1>1 DEF Fits, Acq, Rel, SretK, SretU
<1>3. Then(<<"exit", p>>, G) = G /\ ThenMode(t, <<"exit", p>>, m) = "any"
  BY DEF Then, ThenMode, SretK, SretU
<1> QED BY <1>1, <1>2, <1>3

LEMMA AtSwtch ==
  ASSUME NEW t, NEW s, NEW G, NEW m, NEW p, Good(t, s, G, m), s # <<>>, Head(s) = <<"swtch", p>>
  PROVE  /\ t \in Cpu /\ m = "any" /\ p \in Process /\ G = {p}
         /\ Good(t, Tail(s), {p}, "any")
<1>1. /\ Fits(t, <<"swtch", p>>, G, m)
      /\ Good(t, Tail(s), Then(<<"swtch", p>>, G), ThenMode(t, <<"swtch", p>>, m))
  BY GoodStep DEF Fit
<1>2. t \in Cpu /\ m = "any" /\ p \in Process /\ G = {p}
  BY <1>1 DEF Fits, Acq, Rel, SretK, SretU
<1>3. Then(<<"swtch", p>>, G) = G /\ ThenMode(t, <<"swtch", p>>, m) = m
  BY DEF Then, ThenMode, SretK, SretU
<1> QED BY <1>1, <1>2, <1>3

LEMMA AtSret ==
  ASSUME NEW t, NEW s, NEW G, NEW m, NEW mode, Good(t, s, G, m), s # <<>>,
         Head(s) = <<"sret", mode>>
  PROVE  /\ G = {}
         /\ \/ mode = "kernel" /\ m = "off" /\ Good(t, Tail(s), {}, Plain(t))
            \/ mode = "user" /\ t \in Process /\ m # "off" /\ Good(t, Tail(s), {}, "on")
<1> DEFINE op == <<"sret", mode>>
<1>1. Fits(t, op, G, m) /\ Good(t, Tail(s), Then(op, G), ThenMode(t, op, m))
  BY GoodStep DEF Fit
<1>2. G = {} /\ \/ mode = "kernel" /\ m = "off"
                \/ mode = "user" /\ t \in Process /\ m # "off"
  BY <1>1 DEF Fits, Acq, Rel, SretK, SretU
<1>3. Then(op, G) = G
  BY DEF Then
<1>4. /\ mode = "kernel" => ThenMode(t, op, m) = Plain(t)
      /\ mode = "user" => ThenMode(t, op, m) = "on"
  BY DEF ThenMode, SretK, SretU
<1> QED BY <1>1, <1>2, <1>3, <1>4

LEMMA AtEnd ==
  ASSUME NEW t, NEW G, NEW m
  PROVE  Good(t, <<>>, G, m) <=> G = {} /\ m = Plain(t)
<1>1. Good(t, <<>>, G, m) => G = {} /\ m = Plain(t)
  BY GoodStep DEF Fit
<1>2. ASSUME G = {}, m = Plain(t) PROVE Good(t, <<>>, G, m)
  <2>1. <<>> \in Seq(Ops) /\ G \in SUBSET Lock /\ m \in Mode
    BY <1>2 DEF Plain, Mode
  <2>2. Fit(t, <<>>, G, m)
    BY <1>2 DEF Fit, Plain, Occurs
  <2> QED BY <2>1, <2>2, GoodBack
<1> QED BY <1>1, <1>2

\* The same the other way round: what has to hold for a script to begin with an operation.
LEMMA ConsSeq ==
  ASSUME NEW S, NEW a \in S, NEW s \in Seq(S), NEW u, u = <<a>> \o s
  PROVE  /\ u \in Seq(S) /\ u # <<>> /\ Head(u) = a /\ Tail(u) = s
         /\ Len(u) = Len(s) + 1 /\ u[1] = a
         /\ \A k \in 1..Len(s) : u[k + 1] = s[k]
  OBVIOUS

LEMMA ConsIn ==
  ASSUME NEW S, NEW a \in S, NEW s \in Seq(S), NEW u, NEW b, u = <<a>> \o s
  PROVE  Occurs(b, u) <=> b = a \/ Occurs(b, s)
<1>1. /\ u \in Seq(S) /\ Len(u) = Len(s) + 1 /\ u[1] = a
      /\ \A k \in 1..Len(s) : u[k + 1] = s[k]
  BY ConsSeq
<1>2. ASSUME NEW k \in DOMAIN u, u[k] = b
      PROVE  b = a \/ Occurs(b, s)
  <2>1. CASE k = 1
    BY <2>1, <1>1, <1>2
  <2>2. CASE k # 1
    <3>1. k - 1 \in 1..Len(s) /\ u[(k - 1) + 1] = s[k - 1]
      BY <2>2, <1>1
    <3>2. DOMAIN s = 1..Len(s) /\ (k - 1) + 1 = k
      BY <1>1
    <3> QED BY <3>1, <3>2, <1>2 DEF Occurs
  <2> QED BY <2>1, <2>2
<1>3. 1 \in DOMAIN u
  BY <1>1
<1>4. ASSUME NEW j \in DOMAIN s, s[j] = b
      PROVE  Occurs(b, u)
  <2>1. j + 1 \in DOMAIN u /\ u[j + 1] = b
    BY <1>4, <1>1
  <2> QED BY <2>1 DEF Occurs
<1> QED BY <1>1, <1>2, <1>3, <1>4 DEF Occurs

LEMMA GoodCons ==
  ASSUME NEW t, NEW op \in Ops, NEW s, NEW G \in SUBSET Lock, NEW m \in Mode,
         Fits(t, op, G, m), Good(t, s, Then(op, G), ThenMode(t, op, m))
  PROVE  Good(t, <<op>> \o s, G, m)
<1> DEFINE u == <<op>> \o s
<1>1. s \in Seq(Ops) /\ Fit(t, s, Then(op, G), ThenMode(t, op, m))
  BY GoodStep DEF Good
<1>0. s \in Seq(Ops)
  BY <1>1
<1> HIDE DEF u
<1>2. /\ u \in Seq(Ops) /\ u # <<>> /\ Head(u) = op /\ Tail(u) = s
      /\ Occurs(SretK, u) <=> SretK = op \/ Occurs(SretK, s)
  <2>1. u = <<op>> \o s
    BY DEF u
  <2>2. Occurs(SretK, u) <=> SretK = op \/ Occurs(SretK, s)
    BY <1>0, <2>1, ConsIn
  <2> QED BY <1>0, <2>1, <2>2, ConsSeq
<1>3. /\ ThenMode(t, op, m) = "off" <=> Occurs(SretK, s)
      /\ ThenMode(t, op, m) = "on" => t \in Process
  BY <1>1 DEF Fit
<1>4. /\ m = "off" <=> op = SretK \/ Occurs(SretK, s)
      /\ m = "on" => t \in Process
  <2>1. CASE op = SretK
    BY <2>1 DEF Fits, SretK, SretU, Acq, Rel
  <2>2. CASE op = SretU
    BY <2>2, <1>3 DEF Fits, SretK, SretU, Acq, Rel, ThenMode
  <2>3. CASE op[1] = "exit" /\ op # SretK /\ op # SretU
    BY <2>3, <1>3 DEF Fits, SretK, SretU, Acq, Rel, ThenMode
  <2>4. CASE op[1] # "exit" /\ op # SretK /\ op # SretU
    BY <2>4, <1>3 DEF ThenMode
  <2> QED BY <2>1, <2>2, <2>3, <2>4
<1>5. Fit(t, u, G, m)
  BY <1>2, <1>4 DEF Fit
<1> HIDE DEF u
<1>6. Good(t, u, G, m)
  BY <1>2, <1>5, GoodBack
<1> QED BY <1>6 DEF u

LEMMA ConsAcquire ==
  ASSUME NEW t, NEW l \in Lock, NEW s, NEW G \in SUBSET Lock, NEW m \in Mode,
         l \notin G, t \in Process => m # "any", Good(t, s, G \cup {l}, m)
  PROVE  Good(t, <<Acq(l)>> \o s, G, m)
<1>1. Then(Acq(l), G) = G \cup {l} /\ ThenMode(t, Acq(l), m) = m
  BY DEF Then, ThenMode, Acq, SretK, SretU
<1>2. Acq(l) \in Ops /\ Fits(t, Acq(l), G, m)
  BY DEF Fits, Acq, Ops
<1> QED BY <1>1, <1>2, GoodCons

LEMMA ConsRelease ==
  ASSUME NEW t, NEW l \in Lock, NEW s, NEW G \in SUBSET Lock, NEW m \in Mode,
         l \in G, t \in Process /\ m = "any" => G = {l}, Good(t, s, G \ {l}, m)
  PROVE  Good(t, <<Rel(l)>> \o s, G, m)
<1>1. Then(Rel(l), G) = G \ {l} /\ ThenMode(t, Rel(l), m) = m
  BY DEF Then, ThenMode, Rel, SretK, SretU
<1>2. Rel(l) \in Ops /\ Fits(t, Rel(l), G, m)
  BY DEF Fits, Rel, Ops
<1> QED BY <1>1, <1>2, GoodCons

LEMMA ConsSched ==
  ASSUME NEW p \in Process, NEW s, NEW m \in {"on", "off"}, Good(p, s, {p}, m)
  PROVE  Good(p, <<<<"sched", p>>>> \o s, {p}, m)
<1> DEFINE op == <<"sched", p>>
<1>1. Then(op, {p}) = {p} /\ ThenMode(p, op, m) = m
  BY DEF Then, ThenMode, SretK, SretU
<1>2. op \in Ops /\ Fits(p, op, {p}, m) /\ {p} \in SUBSET Lock /\ m \in Mode
  BY DEF Fits, Ops, Lock, Mode
<1> HIDE DEF op
<1>3. Good(p, <<op>> \o s, {p}, m)
  BY <1>1, <1>2, GoodCons
<1> QED BY <1>3 DEF op

LEMMA ConsExit ==
  ASSUME NEW p \in Process, NEW s, Good(p, s, {p}, "any")
  PROVE  Good(p, <<<<"exit", p>>>> \o s, {p}, "on")
<1> DEFINE op == <<"exit", p>>
<1>1. Then(op, {p}) = {p} /\ ThenMode(p, op, "on") = "any"
  BY DEF Then, ThenMode, SretK, SretU
<1>2. op \in Ops /\ Fits(p, op, {p}, "on") /\ {p} \in SUBSET Lock /\ "on" \in Mode
  BY DEF Fits, Ops, Lock, Mode
<1> HIDE DEF op
<1>3. Good(p, <<op>> \o s, {p}, "on")
  BY <1>1, <1>2, GoodCons
<1> QED BY <1>3 DEF op

LEMMA ConsSwtch ==
  ASSUME NEW c \in Cpu, NEW p \in Process, NEW s, Good(c, s, {p}, "any")
  PROVE  Good(c, <<<<"swtch", p>>>> \o s, {p}, "any")
<1> DEFINE op == <<"swtch", p>>
<1>1. Then(op, {p}) = {p} /\ ThenMode(c, op, "any") = "any"
  BY DEF Then, ThenMode, SretK, SretU
<1>2. op \in Ops /\ Fits(c, op, {p}, "any") /\ {p} \in SUBSET Lock /\ "any" \in Mode
  BY DEF Fits, Ops, Lock, Mode
<1> HIDE DEF op
<1>3. Good(c, <<op>> \o s, {p}, "any")
  BY <1>1, <1>2, GoodCons
<1> QED BY <1>3 DEF op

LEMMA ConsSret ==
  ASSUME NEW t, NEW s
  PROVE  /\ Good(t, s, {}, Plain(t)) => Good(t, <<SretK>> \o s, {}, "off")
         /\ t \in Process /\ Good(t, s, {}, "on")
              => \A m \in {"on", "any"} : Good(t, <<SretU>> \o s, {}, m)
<1>1. /\ Then(SretK, {}) = {} /\ ThenMode(t, SretK, "off") = Plain(t)
      /\ Then(SretU, {}) = {} /\ \A m \in {"on", "any"} : ThenMode(t, SretU, m) = "on"
  BY DEF Then, ThenMode, SretK, SretU
<1>2. /\ SretK \in Ops /\ Fits(t, SretK, {}, "off") /\ {} \in SUBSET Lock
      /\ SretU \in Ops
      /\ t \in Process => \A m \in {"on", "any"} : Fits(t, SretU, {}, m)
      /\ {"on", "off", "any"} \subseteq Mode
  BY DEF Fits, Ops, Mode
<1>3. ASSUME Good(t, s, {}, Plain(t)) PROVE Good(t, <<SretK>> \o s, {}, "off")
  BY <1>1, <1>2, <1>3, GoodCons
<1>4. ASSUME t \in Process, Good(t, s, {}, "on"), NEW m \in {"on", "any"}
      PROVE  Good(t, <<SretU>> \o s, {}, m)
  BY <1>1, <1>2, <1>4, GoodCons
<1> QED BY <1>3, <1>4

-----------------------------------------------------------------------------
(* The scripts                                                             *)

LEMMA Assoc ==
  ASSUME NEW u \in Seq(Ops), NEW v \in Seq(Ops), NEW w \in Seq(Ops)
  PROVE  (u \o v) \o w = u \o (v \o w)
  OBVIOUS

LEMMA Listed2 ==
  ASSUME NEW a \in Ops, NEW b \in Ops
  PROVE  <<a>> = <<a>> \o <<>> /\ <<a, b>> = <<a>> \o <<b>>
<1>1. <<a>> = <<a>> \o <<>>
  OBVIOUS
<1>2. <<a, b>> = <<a>> \o <<b>>
  <2> DEFINE u == <<a>> \o <<b>>
  <2>1. u \in Seq(Ops) /\ Len(u) = 2 /\ u[1] = a /\ u[2] = b
    OBVIOUS
  <2> HIDE DEF u
  <2>2. u = <<a, b>>
    BY <2>1
  <2> QED BY <2>2 DEF u
<1> QED BY <1>1, <1>2

LEMMA Listed3 ==
  ASSUME NEW a \in Ops, NEW b \in Ops, NEW c \in Ops
  PROVE  <<a, b, c>> = <<a>> \o <<b, c>>
  OBVIOUS

LEMMA Unrolled ==
  ASSUME NEW a \in Ops, NEW b \in Ops, NEW c \in Ops, NEW s \in Seq(Ops)
  PROVE  <<a, b, c>> \o s = <<a>> \o (<<b>> \o (<<c>> \o s))
<1>1. <<a, b, c>> = <<a>> \o (<<b>> \o <<c>>)
  <2>1. <<a, b, c>> = <<a>> \o <<b, c>>
    BY Listed3
  <2>2. <<b, c>> = <<b>> \o <<c>>
    BY Listed2
  <2> QED BY <2>1, <2>2
<1>2. /\ <<a>> \in Seq(Ops) /\ <<b>> \in Seq(Ops) /\ <<c>> \in Seq(Ops)
      /\ <<b>> \o <<c>> \in Seq(Ops)
  OBVIOUS
<1>3. (<<a>> \o (<<b>> \o <<c>>)) \o s = <<a>> \o ((<<b>> \o <<c>>) \o s)
  BY <1>2, Assoc
<1>4. (<<b>> \o <<c>>) \o s = <<b>> \o (<<c>> \o s)
  BY <1>2, Assoc
<1> QED BY <1>1, <1>3, <1>4

\* Longer scripts, as operators: the provers take long tuples apart.
Cons(a, s) == <<a>> \o s
Four(a, b, c, d, s) == <<a, b, c, d>> \o s
Seven(a, b, c, d, e, f, g) == <<a, b, c, d, e, f, g>>

LEMMA UnrolledFour ==
  ASSUME NEW a \in Ops, NEW b \in Ops, NEW c \in Ops, NEW d \in Ops, NEW s \in Seq(Ops)
  PROVE  Four(a, b, c, d, s) = Cons(a, Cons(b, Cons(c, Cons(d, s))))
<1>1. <<a, b, c, d>> = <<a>> \o <<b, c, d>>
  OBVIOUS
<1>2. <<a>> \in Seq(Ops) /\ <<b, c, d>> \in Seq(Ops)
  OBVIOUS
<1>3. (<<a>> \o <<b, c, d>>) \o s = <<a>> \o (<<b, c, d>> \o s)
  BY <1>2, Assoc
<1>4. <<b, c, d>> \o s = <<b>> \o (<<c>> \o (<<d>> \o s))
  BY Unrolled
<1> QED BY <1>1, <1>3, <1>4 DEF Cons, Four

LEMMA UnrolledSeven ==
  ASSUME NEW a \in Ops, NEW b \in Ops, NEW c \in Ops, NEW d \in Ops, NEW e \in Ops,
         NEW f \in Ops, NEW g \in Ops
  PROVE  Seven(a, b, c, d, e, f, g)
           = Cons(a, Cons(b, Cons(c, Cons(d, Cons(e, <<f, g>>)))))
<1> DEFINE s == <<e, f, g>>
<1>1. Seven(a, b, c, d, e, f, g) = Four(a, b, c, d, s)
  BY DEF Seven, Four
<1>2. s \in Seq(Ops) /\ s = Cons(e, <<f, g>>)
  BY Listed3 DEF Cons
<1> HIDE DEF s
<1>3. Four(a, b, c, d, s) = Cons(a, Cons(b, Cons(c, Cons(d, s))))
  BY <1>2, UnrolledFour
<1> QED BY <1>1, <1>2, <1>3

LEMMA OpsMember ==
  ASSUME NEW p \in Process
  PROVE  /\ Acq(p) \in Ops /\ Rel(p) \in Ops /\ SretK \in Ops /\ SretU \in Ops
         /\ <<"sched", p>> \in Ops /\ <<"exit", p>> \in Ops /\ <<"swtch", p>> \in Ops
         /\ Acq(Shared) \in Ops /\ Rel(Shared) \in Ops
         /\ p \in Lock /\ Shared \in Lock /\ p # Shared
  BY SpinlockConstants DEF SpinlockAssumption, Acq, Rel, Ops, Lock

LEMMA PlainOf ==
  /\ \A p \in Process : Plain(p) = "on"
  /\ \A c \in Cpu : Plain(c) = "any" /\ c \notin Process
  BY SpinlockConstants DEF SpinlockAssumption, Plain

\* Every script of Spinlock can be done by the thread that is given it, with what it has then.
LEMMA GoodForkret ==
  ASSUME NEW p \in Process
  PROVE  Good(p, Forkret(p), {p}, "any")
<1>1. Good(p, <<SretU>> \o <<>>, {}, "any")
  BY AtEnd, ConsSret, PlainOf
<1>2. Good(p, <<SretU>>, {}, "any")
  BY <1>1, Listed2, OpsMember
<1>3. {p} \ {p} = {} /\ {p} \in SUBSET Lock /\ "any" \in Mode /\ p \in Lock
  BY DEF Lock, Mode
<1>4. Good(p, <<Rel(p)>> \o <<SretU>>, {p}, "any")
  BY <1>2, <1>3, ConsRelease
<1>5. <<Rel(p), SretU>> = <<Rel(p)>> \o <<SretU>>
  BY Listed2, OpsMember
<1> QED BY <1>4, <1>5 DEF Forkret, SretU

LEMMA GoodVisit ==
  ASSUME NEW c \in Cpu, NEW p \in Process
  PROVE  Good(c, Visit(p), {}, "any")
<1>1. {} \cup {p} = {p} /\ {p} \ {p} = {} /\ {p} \in SUBSET Lock /\ {} \in SUBSET Lock
  BY DEF Lock
<1>2. p \in Lock /\ "any" \in Mode
  BY DEF Lock, Mode
<1>3. Good(c, <<>>, {}, "any")
  BY AtEnd, PlainOf
<1>4. Good(c, <<Rel(p)>> \o <<>>, {p}, "any")
  BY <1>1, <1>2, <1>3, ConsRelease
<1>5. Good(c, <<<<"swtch", p>>>> \o <<Rel(p)>>, {p}, "any")
  BY <1>4, ConsSwtch, Listed2, OpsMember
<1>6. <<<<"swtch", p>>, Rel(p)>> = <<<<"swtch", p>>>> \o <<Rel(p)>>
  BY Listed2, OpsMember
<1>7. Good(c, <<Acq(p)>> \o <<<<"swtch", p>>, Rel(p)>>, {}, "any")
  <2>1. Good(c, <<<<"swtch", p>>, Rel(p)>>, {} \cup {p}, "any")
    BY <1>1, <1>5, <1>6
  <2> QED BY <2>1, <1>1, <1>2, PlainOf, ConsAcquire
<1>8. Visit(p) = <<Acq(p)>> \o <<<<"swtch", p>>, Rel(p)>>
  <2> DEFINE op == <<"swtch", p>>
  <2>1. op \in Ops /\ Acq(p) \in Ops /\ Rel(p) \in Ops
    BY OpsMember
  <2>2. Visit(p) = <<Acq(p), op, Rel(p)>>
    BY DEF Visit
  <2> HIDE DEF op
  <2>3. <<Acq(p), op, Rel(p)>> = <<Acq(p)>> \o <<op, Rel(p)>>
    BY <2>1, Listed3
  <2> QED BY <2>2, <2>3 DEF op
<1> QED BY <1>7, <1>8

\* acquire(l), release(l), before something that needs no lock.
LEMMA GoodPair ==
  ASSUME NEW t, NEW l \in Lock, NEW s, NEW m \in {"on", "off"}, Good(t, s, {}, m)
  PROVE  Good(t, <<Acq(l)>> \o (<<Rel(l)>> \o s), {}, m)
<1>1. {} \cup {l} = {l} /\ {l} \ {l} = {} /\ {l} \in SUBSET Lock /\ {} \in SUBSET Lock
  OBVIOUS
<1>2. m \in Mode /\ m # "any"
  BY DEF Mode
<1>3. Good(t, s, {l} \ {l}, m)
  BY <1>1
<1>4. Good(t, <<Rel(l)>> \o s, {l}, m)
  BY <1>1, <1>2, <1>3, ConsRelease
<1>5. Good(t, <<Rel(l)>> \o s, {} \cup {l}, m)
  BY <1>4, <1>1
<1> QED BY <1>1, <1>2, <1>5, ConsAcquire

\* sleep(), kill() and exit() hold tickslock over p->lock.
LEMMA GoodHandOver ==
  ASSUME NEW t, NEW p \in Process, NEW s, NEW m \in {"on", "off"}, Good(t, s, {p}, m)
  PROVE  Good(t, <<Acq(Shared)>> \o (<<Acq(p)>> \o (<<Rel(Shared)>> \o s)), {}, m)
<1>1. /\ p \in Lock /\ Shared \in Lock /\ p # Shared
      /\ m \in Mode /\ m # "any"
  BY SpinlockConstants DEF SpinlockAssumption, Lock, Mode
<1>2. /\ {Shared, p} \in SUBSET Lock /\ {Shared} \in SUBSET Lock /\ {} \in SUBSET Lock
      /\ {Shared, p} \ {Shared} = {p} /\ {Shared} \cup {p} = {Shared, p}
      /\ {} \cup {Shared} = {Shared}
  BY <1>1
<1>3. Good(t, s, {Shared, p} \ {Shared}, m)
  BY <1>2
<1>4. Good(t, <<Rel(Shared)>> \o s, {Shared, p}, m)
  BY <1>1, <1>2, <1>3, ConsRelease
<1>5. Good(t, <<Rel(Shared)>> \o s, {Shared} \cup {p}, m)
  BY <1>4, <1>2
<1>6. Good(t, <<Acq(p)>> \o (<<Rel(Shared)>> \o s), {Shared}, m)
  BY <1>1, <1>2, <1>5, ConsAcquire
<1>7. Good(t, <<Acq(p)>> \o (<<Rel(Shared)>> \o s), {} \cup {Shared}, m)
  BY <1>6, <1>2
<1> QED BY <1>1, <1>2, <1>7, ConsAcquire

\* What is left of yield() and of sleep() when the process has p->lock.
LEMMA GoodSwitch ==
  ASSUME NEW p \in Process, NEW s, NEW m \in {"on", "off"}, Good(p, s, {}, m)
  PROVE  Good(p, <<<<"sched", p>>>> \o (<<Rel(p)>> \o s), {p}, m)
<1>1. {p} \ {p} = {} /\ {p} \in SUBSET Lock /\ p \in Lock /\ m \in Mode /\ m # "any"
  BY DEF Lock, Mode
<1>2. Good(p, s, {p} \ {p}, m)
  BY <1>1
<1>3. Good(p, <<Rel(p)>> \o s, {p}, m)
  BY <1>1, <1>2, ConsRelease
<1> QED BY <1>3, ConsSched

LEMMA GoodYield ==
  ASSUME NEW p \in Process, NEW s \in Seq(Ops), NEW m \in {"on", "off"}, Good(p, s, {}, m)
  PROVE  Good(p, Yield(p) \o s, {}, m)
<1> DEFINE op == <<"sched", p>>
<1>0. op \in Ops /\ Acq(p) \in Ops /\ Rel(p) \in Ops
  BY OpsMember
<1> HIDE DEF op
<1>1. {} \cup {p} = {p} /\ p \in Lock /\ {} \in SUBSET Lock /\ m \in Mode /\ m # "any"
  BY DEF Lock, Mode
<1>2. Good(p, <<op>> \o (<<Rel(p)>> \o s), {} \cup {p}, m)
  BY <1>1, GoodSwitch DEF op
<1>3. Good(p, <<Acq(p)>> \o (<<op>> \o (<<Rel(p)>> \o s)), {}, m)
  BY <1>1, <1>2, ConsAcquire
<1>4. Yield(p) = <<Acq(p)>> \o (<<op>> \o <<Rel(p)>>)
  <2>1. Yield(p) = <<Acq(p), op, Rel(p)>>
    BY DEF Yield, op
  <2>2. <<Acq(p), op, Rel(p)>> = <<Acq(p)>> \o <<op, Rel(p)>>
    BY <1>0, Listed3
  <2>3. <<op, Rel(p)>> = <<op>> \o <<Rel(p)>>
    BY <1>0, Listed2
  <2> QED BY <2>1, <2>2, <2>3
<1>5. /\ <<Acq(p)>> \in Seq(Ops) /\ <<op>> \in Seq(Ops) /\ <<Rel(p)>> \in Seq(Ops)
      /\ <<op>> \o <<Rel(p)>> \in Seq(Ops)
  BY <1>0
<1>6. Yield(p) \o s = <<Acq(p)>> \o ((<<op>> \o <<Rel(p)>>) \o s)
  BY <1>4, <1>5, Assoc
<1>7. (<<op>> \o <<Rel(p)>>) \o s = <<op>> \o (<<Rel(p)>> \o s)
  BY <1>5, Assoc
<1> QED BY <1>3, <1>6, <1>7

LEMMA GoodClockintr ==
  ASSUME NEW t, NEW q \in Process, NEW s \in Seq(Ops), Good(t, s, {}, "off")
  PROVE  Good(t, Clockintr(q) \o s, {}, "off")
<1> DEFINE m == "off"
<1>0. m \in Mode /\ m # "any" /\ q \in Lock /\ Shared \in Lock /\ q # Shared
  BY SpinlockConstants DEF SpinlockAssumption, Lock, Mode
<1> HIDE DEF m
<1>1. /\ {} \cup {Shared} = {Shared} /\ {Shared} \cup {q} = {Shared, q}
      /\ {Shared, q} \ {q} = {Shared} /\ {Shared} \ {Shared} = {}
      /\ {} \in SUBSET Lock /\ {Shared} \in SUBSET Lock /\ {Shared, q} \in SUBSET Lock
  BY <1>0
<1>2. Good(t, s, {Shared} \ {Shared}, m)
  BY <1>1 DEF m
<1>3. Good(t, <<Rel(Shared)>> \o s, {Shared}, m)
  BY <1>0, <1>1, <1>2, ConsRelease
<1>4. Good(t, <<Rel(Shared)>> \o s, {Shared, q} \ {q}, m)
  BY <1>1, <1>3
<1>5. Good(t, <<Rel(q)>> \o (<<Rel(Shared)>> \o s), {Shared, q}, m)
  BY <1>0, <1>1, <1>4, ConsRelease
<1>6. Good(t, <<Rel(q)>> \o (<<Rel(Shared)>> \o s), {Shared} \cup {q}, m)
  BY <1>1, <1>5
<1>7. Good(t, <<Acq(q)>> \o (<<Rel(q)>> \o (<<Rel(Shared)>> \o s)), {Shared}, m)
  BY <1>0, <1>1, <1>6, ConsAcquire
<1>8. Good(t, <<Acq(q)>> \o (<<Rel(q)>> \o (<<Rel(Shared)>> \o s)), {} \cup {Shared}, m)
  BY <1>1, <1>7
<1>9. Good(t, <<Acq(Shared)>> \o (<<Acq(q)>> \o (<<Rel(q)>> \o (<<Rel(Shared)>> \o s))), {}, m)
  BY <1>0, <1>1, <1>8, ConsAcquire
<1>10. Clockintr(q) \o s
         = <<Acq(Shared)>> \o (<<Acq(q)>> \o (<<Rel(q)>> \o (<<Rel(Shared)>> \o s)))
  <2>1. Acq(Shared) \in Ops /\ Acq(q) \in Ops /\ Rel(q) \in Ops /\ Rel(Shared) \in Ops
    BY OpsMember
  <2>2. Clockintr(q) \o s = Four(Acq(Shared), Acq(q), Rel(q), Rel(Shared), s)
    BY DEF Clockintr, Four
  <2>3. Clockintr(q) \o s
          = Cons(Acq(Shared), Cons(Acq(q), Cons(Rel(q), Cons(Rel(Shared), s))))
    BY <2>1, <2>2, UnrolledFour
  <2> QED BY <2>3 DEF Cons
<1> QED BY <1>9, <1>10 DEF m

LEMMA GoodTimer ==
  ASSUME NEW c \in Cpu, NEW t \in Thread, NEW q \in Process, NEW s, Good(t, s, {}, Plain(t))
  PROVE  Good(t, Timer(c, t, q) \o s, {}, "off")
<1> DEFINE yield == IF t \in Process THEN Yield(t) ELSE <<>>
           k == <<SretK>>
<1>0. s \in Seq(Ops)
  BY DEF Good
<1>1. k \in Seq(Ops) /\ k \o s \in Seq(Ops)
  BY <1>0 DEF Ops
<1>2. Good(t, k \o s, {}, "off")
  BY ConsSret
<1>3. yield \in Seq(Ops) /\ Devintr(c, q) \in Seq(Ops)
  <2>1. ASSUME NEW p \in Process PROVE Yield(p) \in Seq(Ops)
    <3>1. Acq(p) \in Ops /\ <<"sched", p>> \in Ops /\ Rel(p) \in Ops
      BY OpsMember
    <3> QED BY <3>1 DEF Yield
  <2>2. Clockintr(q) \in Seq(Ops)
    <3>1. Acq(Shared) \in Ops /\ Acq(q) \in Ops /\ Rel(q) \in Ops /\ Rel(Shared) \in Ops
      BY OpsMember
    <3> QED BY <3>1 DEF Clockintr
  <2> QED BY <2>1, <2>2 DEF Devintr
<1>4. Good(t, yield \o (k \o s), {}, "off") /\ yield \o (k \o s) \in Seq(Ops)
  <2>1. CASE t \in Process
    <3>1. Good(t, Yield(t) \o (k \o s), {}, "off")
      BY <2>1, <1>1, <1>2, GoodYield
    <3> QED BY <2>1, <3>1 DEF Good
  <2>2. CASE t \notin Process
    <3>1. <<>> \o (k \o s) = k \o s
      BY <1>1
    <3> QED BY <2>2, <3>1, <1>1, <1>2
  <2> QED BY <2>1, <2>2
<1>5. Good(t, Devintr(c, q) \o (yield \o (k \o s)), {}, "off")
  <2>1. CASE c = Cpu0
    BY <2>1, <1>4, GoodClockintr DEF Devintr
  <2>2. CASE c # Cpu0
    <3>1. <<>> \o (yield \o (k \o s)) = yield \o (k \o s)
      BY <1>4
    <3> QED BY <2>2, <3>1, <1>4 DEF Devintr
  <2> QED BY <2>1, <2>2
<1>6. Timer(c, t, q) \o s = Devintr(c, q) \o (yield \o (k \o s))
  <2>1. Timer(c, t, q) = (Devintr(c, q) \o yield) \o k
    BY DEF Timer, SretK
  <2> HIDE DEF yield, k
  <2>2. Devintr(c, q) \o yield \in Seq(Ops)
    BY <1>3
  <2>3. ((Devintr(c, q) \o yield) \o k) \o s = (Devintr(c, q) \o yield) \o (k \o s)
    BY <2>2, <1>0, <1>1, Assoc
  <2>4. (Devintr(c, q) \o yield) \o (k \o s) = Devintr(c, q) \o (yield \o (k \o s))
    BY <1>1, <1>3, Assoc
  <2> QED BY <2>1, <2>3, <2>4
<1> QED BY <1>5, <1>6

LEMMA GoodSyscall ==
  ASSUME NEW p \in Process
  PROVE  /\ Good(p, SysUptime, {}, "on") /\ Good(p, SleepOn(p), {}, "on")
         /\ Good(p, ExitOf(p), {}, "on")
         /\ \A q \in Process : Good(p, KillOf(q), {}, "on")
<1>0. Good(p, <<>>, {}, "on")
  BY AtEnd, PlainOf
<1>1. ASSUME NEW l \in Lock, Acq(l) \in Ops, Rel(l) \in Ops
      PROVE  Good(p, <<Acq(l), Rel(l)>>, {}, "on")
  <2>1. Good(p, <<Acq(l)>> \o (<<Rel(l)>> \o <<>>), {}, "on")
    BY <1>0, GoodPair
  <2>2. <<Rel(l)>> \o <<>> = <<Rel(l)>> /\ <<Acq(l), Rel(l)>> = <<Acq(l)>> \o <<Rel(l)>>
    BY <1>1, Listed2
  <2> QED BY <2>1, <2>2
<1>2. Good(p, SysUptime, {}, "on")
  BY <1>1, OpsMember DEF SysUptime
<1>3. ASSUME NEW q \in Process PROVE Good(p, KillOf(q), {}, "on")
  <2>1. q \in Lock /\ Acq(q) \in Ops /\ Rel(q) \in Ops
    BY OpsMember
  <2> QED BY <2>1, <1>1 DEF KillOf
<1>4. Good(p, SleepOn(p), {}, "on")
  <2> DEFINE d == <<"sched", p>>
             s == <<d>> \o (<<Rel(p)>> \o <<Acq(Shared), Rel(Shared)>>)
  <2>1. /\ Acq(p) \in Ops /\ Rel(p) \in Ops /\ d \in Ops
        /\ Acq(Shared) \in Ops /\ Rel(Shared) \in Ops /\ Shared \in Lock
    BY OpsMember
  <2>2. Good(p, <<Acq(Shared), Rel(Shared)>>, {}, "on")
    BY <2>1, <1>1
  <2>3. Good(p, s, {p}, "on")
    BY <2>2, GoodSwitch
  <2>4. SleepOn(p) = Seven(Acq(Shared), Acq(p), Rel(Shared), d, Rel(p), Acq(Shared), Rel(Shared))
    BY DEF SleepOn, Seven
  <2> HIDE DEF d
  <2>5. SleepOn(p) = <<Acq(Shared)>> \o (<<Acq(p)>> \o (<<Rel(Shared)>> \o s))
    <3>1. SleepOn(p) = Cons(Acq(Shared), Cons(Acq(p), Cons(Rel(Shared),
                         Cons(d, Cons(Rel(p), <<Acq(Shared), Rel(Shared)>>)))))
      BY <2>1, <2>4, UnrolledSeven
    <3> QED BY <3>1 DEF Cons
  <2> HIDE DEF s
  <2>6. Good(p, <<Acq(Shared)>> \o (<<Acq(p)>> \o (<<Rel(Shared)>> \o s)), {}, "on")
    BY <2>3, GoodHandOver
  <2> QED BY <2>5, <2>6
<1>5. Good(p, ExitOf(p), {}, "on")
  <2> DEFINE d == <<"exit", p>>
             s == Forkret(p)
  <2>1. /\ Acq(p) \in Ops /\ d \in Ops
        /\ Acq(Shared) \in Ops /\ Rel(Shared) \in Ops
    BY OpsMember
  <2>2. Good(p, s, {p}, "any") /\ s \in Seq(Ops)
    BY GoodForkret DEF Good
  <2>3. ExitOf(p) = Four(Acq(Shared), Acq(p), Rel(Shared), d, s)
    BY DEF ExitOf, Four
  <2>4. Good(p, <<d>> \o s, {p}, "on")
    BY <2>2, ConsExit
  <2> HIDE DEF d, s
  <2>5. Good(p, <<Acq(Shared)>> \o (<<Acq(p)>> \o (<<Rel(Shared)>> \o (<<d>> \o s))), {}, "on")
    BY <2>4, GoodHandOver
  <2>6. Four(Acq(Shared), Acq(p), Rel(Shared), d, s)
          = <<Acq(Shared)>> \o (<<Acq(p)>> \o (<<Rel(Shared)>> \o (<<d>> \o s)))
    <3>1. Four(Acq(Shared), Acq(p), Rel(Shared), d, s)
            = Cons(Acq(Shared), Cons(Acq(p), Cons(Rel(Shared), Cons(d, s))))
      BY <2>1, <2>2, UnrolledFour
    <3> QED BY <3>1 DEF Cons
  <2> QED BY <2>3, <2>5, <2>6
<1> QED BY <1>2, <1>3, <1>4, <1>5

-----------------------------------------------------------------------------
(* One hart                                                                *)

\* Operations that are half done, and what is left to do behind them.
Half == {"spin", "own", "unlock"}
Steps == Ops \cup (Half \X Lock)
OpOf(s) == IF s = <<>> THEN "none" ELSE Head(s)[1]
LkOf(s) == Head(s)[2]
RestOf(s) == IF OpOf(s) \in Half THEN Tail(s) ELSE s
WillOwn(s, G) == G \cup (IF OpOf(s) \in {"spin", "own"} THEN {LkOf(s)} ELSE {})

\* The interrupt flag i of a hart with n = noff and e = intena agrees with what its thread
\* knows, m: a lock keeps interrupts off, and intena is what they come back to.
IntrOK(n, i, e, m) ==
  /\ n > 0 => ~i
  /\ m = "on" => (n = 0 => i) /\ (n > 0 => e)
  /\ m = "off" => ~i /\ (n > 0 => ~e)

\* Hart c runs t, which has s to do; its scheduler has z to do; it owns the locks G; n, i
\* and e are its noff, its interrupt flag and its intena.
HartOK(c, t, s, z, G, n, i, e) ==
  /\ s \in Seq(Steps)
  /\ IsFiniteSet(G) /\ n = Cardinality(G) + (IF OpOf(s) \in Half THEN 1 ELSE 0)
  /\ OpOf(s) \in Half => LkOf(s) \in Lock
  /\ OpOf(s) = "spin" => LkOf(s) \notin G
  /\ \E m \in Mode : Good(t, RestOf(s), WillOwn(s, G), m) /\ IntrOK(n, i, e, m)
  /\ t \in Process => Good(c, z, {t}, "any")

\* ... and has no operation half done.
HartFree(c, t, s, z, G, n, i, e) == HartOK(c, t, s, z, G, n, i, e) /\ OpOf(s) \notin Half

\* Process p, which has s to do, waits for a hart, with v for its intena.
WaitOK(p, s, v) ==
  \E m \in Mode : /\ Good(p, s, {p}, m)
                  /\ m = "on" => v = TRUE
                  /\ m = "off" => v = FALSE

\* The script of a thread half way through acquire(l) or release(l).
Doing(h, l, r) == <<<<h, l>>>> \o r

LEMMA HalfSeq ==
  ASSUME NEW h \in Half, NEW l \in Lock, NEW r \in Seq(Ops)
  PROVE  /\ Doing(h, l, r) \in Seq(Steps) /\ OpOf(Doing(h, l, r)) = h
         /\ LkOf(Doing(h, l, r)) = l /\ RestOf(Doing(h, l, r)) = r
<1> DEFINE u == Doing(h, l, r)
<1>1. <<h, l>> \in Steps
  BY DEF Steps
<1>2. r \in Seq(Steps)
  BY DEF Steps
<1> DEFINE a == <<h, l>>
<1>3. a[1] = h /\ a[2] = l
  OBVIOUS
<1> HIDE DEF a
<1>4. u \in Seq(Steps) /\ u # <<>> /\ Head(u) = a /\ Tail(u) = r
  BY <1>1, <1>2, ConsSeq DEF a, Doing
<1> HIDE DEF u
<1>5. u \in Seq(Steps) /\ OpOf(u) = h /\ LkOf(u) = l /\ RestOf(u) = r
  BY <1>3, <1>4 DEF OpOf, LkOf, RestOf
<1> QED BY <1>5 DEF u

LEMMA WholeSeq ==
  ASSUME NEW r \in Seq(Ops), NEW G
  PROVE  /\ r \in Seq(Steps) /\ OpOf(r) \notin Half /\ RestOf(r) = r /\ WillOwn(r, G) = G
<1>1. r \in Seq(Steps)
  BY DEF Steps
<1>2. OpOf(r) \notin Half
  <2>1. CASE r = <<>>
    BY <2>1 DEF OpOf, Half
  <2>2. CASE r # <<>>
    <3>1. Head(r) \in Ops
      BY <2>2
    <3> QED BY <3>1, <2>2 DEF OpOf, Half, Ops, SretK, SretU
  <2> QED BY <2>1, <2>2
<1> QED BY <1>1, <1>2 DEF RestOf, WillOwn, Half

\* A hart that is about to do an operation that is not half done.
LEMMA WholeHart ==
  ASSUME NEW c, NEW t, NEW s, NEW z, NEW G, NEW n, NEW i, NEW e,
         HartOK(c, t, s, z, G, n, i, e), OpOf(s) \notin Half
  PROVE  /\ s \in Seq(Ops) /\ n = Cardinality(G) /\ Cardinality(G) \in Nat
         /\ \E m \in Mode : Good(t, s, G, m) /\ IntrOK(n, i, e, m)
<1>1. RestOf(s) = s /\ WillOwn(s, G) = G
  BY DEF RestOf, WillOwn, Half
<1>2. Cardinality(G) \in Nat /\ n = Cardinality(G)
  BY FS_CardinalityType DEF HartOK
<1>3. PICK m \in Mode : Good(t, s, G, m) /\ IntrOK(n, i, e, m)
  BY <1>1 DEF HartOK
<1> QED BY <1>2, <1>3 DEF Good

LEMMA HartPushOff ==
  ASSUME NEW c, NEW t, NEW s, NEW z, NEW G, NEW n, NEW i, NEW e, NEW l,
         HartOK(c, t, s, z, G, n, i, e), s # <<>>, Head(s) = Acq(l),
         n \in Nat, i \in BOOLEAN, e \in BOOLEAN
  PROVE  /\ l \in Lock /\ l \notin G
         /\ HartOK(c, t, Doing("spin", l, Tail(s)), z, G, n + 1, FALSE, IF n = 0 THEN i ELSE e)
<1> DEFINE u == Doing("spin", l, Tail(s))
<1>1. OpOf(s) \notin Half
  BY DEF OpOf, Half, Acq
<1>2. PICK m \in Mode : Good(t, s, G, m) /\ IntrOK(n, i, e, m)
  BY <1>1, WholeHart
<1>3. n = Cardinality(G) /\ s \in Seq(Ops)
  BY <1>1, WholeHart
<1>4. l \in Lock /\ l \notin G /\ Good(t, Tail(s), G \cup {l}, m)
  BY <1>2, AtAcquire
<1>5. Tail(s) \in Seq(Ops) /\ "spin" \in Half
  BY <1>4 DEF Good, Half
<1> HIDE DEF u
<1>6. u \in Seq(Steps) /\ OpOf(u) = "spin" /\ LkOf(u) = l /\ RestOf(u) = Tail(s)
  BY <1>4, <1>5, HalfSeq DEF u
<1>7. WillOwn(u, G) = G \cup {l}
  BY <1>6 DEF WillOwn
<1>8. IntrOK(n + 1, FALSE, IF n = 0 THEN i ELSE e, m)
  BY <1>2 DEF IntrOK
<1>9. n + 1 = Cardinality(G) + (IF OpOf(u) \in Half THEN 1 ELSE 0)
  BY <1>3, <1>5, <1>6
<1>10. HartOK(c, t, u, z, G, n + 1, FALSE, IF n = 0 THEN i ELSE e)
  BY <1>4, <1>6, <1>7, <1>8, <1>9 DEF HartOK
<1> QED BY <1>4, <1>10 DEF u

LEMMA HartTestAndSet ==
  ASSUME NEW c, NEW t, NEW s, NEW z, NEW G, NEW n, NEW i, NEW e, NEW l,
         HartOK(c, t, s, z, G, n, i, e), n \in Nat, i \in BOOLEAN, e \in BOOLEAN, s # <<>>,
         Head(s) = <<"spin", l>>
  PROVE  /\ l \in Lock
         /\ HartOK(c, t, Doing("own", l, Tail(s)), z, G, n, i, e)
<1> DEFINE u == Doing("own", l, Tail(s))
<1>1. OpOf(s) = "spin" /\ LkOf(s) = l /\ RestOf(s) = Tail(s) /\ "own" \in Half /\ "spin" \in Half
  BY DEF OpOf, LkOf, RestOf, Half
<1>2. PICK m \in Mode : Good(t, Tail(s), WillOwn(s, G), m) /\ IntrOK(n, i, e, m)
  BY <1>1 DEF HartOK
<1>3. l \in Lock /\ l \notin G /\ Tail(s) \in Seq(Ops)
  BY <1>1, <1>2 DEF HartOK, Good
<1> HIDE DEF u
<1>4. u \in Seq(Steps) /\ OpOf(u) = "own" /\ LkOf(u) = l /\ RestOf(u) = Tail(s)
  BY <1>1, <1>3, HalfSeq DEF u
<1>5. WillOwn(u, G) = WillOwn(s, G)
  BY <1>1, <1>4 DEF WillOwn
<1>6. HartOK(c, t, u, z, G, n, i, e)
  BY <1>1, <1>2, <1>3, <1>4, <1>5 DEF HartOK
<1> QED BY <1>3, <1>6 DEF u

LEMMA HartOwn ==
  ASSUME NEW c, NEW t, NEW s, NEW z, NEW G, NEW n, NEW i, NEW e, NEW l,
         HartOK(c, t, s, z, G, n, i, e), n \in Nat, i \in BOOLEAN, e \in BOOLEAN, s # <<>>,
         Head(s) = <<"own", l>>, l \notin G
  PROVE  l \in Lock /\ HartFree(c, t, Tail(s), z, G \cup {l}, n, i, e)
<1>1. OpOf(s) = "own" /\ LkOf(s) = l /\ RestOf(s) = Tail(s) /\ "own" \in Half
  BY DEF OpOf, LkOf, RestOf, Half
<1>2. WillOwn(s, G) = G \cup {l}
  BY <1>1 DEF WillOwn
<1>3. PICK m \in Mode : Good(t, Tail(s), G \cup {l}, m) /\ IntrOK(n, i, e, m)
  BY <1>1, <1>2 DEF HartOK
<1>4. Tail(s) \in Seq(Ops)
  BY <1>3 DEF Good
<1>5. /\ Tail(s) \in Seq(Steps) /\ OpOf(Tail(s)) \notin Half /\ RestOf(Tail(s)) = Tail(s)
      /\ WillOwn(Tail(s), G \cup {l}) = G \cup {l}
  BY <1>4, WholeSeq
<1>6. /\ IsFiniteSet(G \cup {l}) /\ Cardinality(G) \in Nat
      /\ Cardinality(G \cup {l}) = Cardinality(G) + 1
  BY FS_AddElement, FS_CardinalityType DEF HartOK
<1>7. n = Cardinality(G) + 1
  BY <1>1 DEF HartOK
<1>8. "spin" \in Half
  BY DEF Half
<1>9. n = Cardinality(G \cup {l}) + (IF OpOf(Tail(s)) \in Half THEN 1 ELSE 0)
  BY <1>5, <1>6, <1>7
<1> QED BY <1>1, <1>3, <1>5, <1>6, <1>8, <1>9 DEF HartOK, HartFree

LEMMA HartDisown ==
  ASSUME NEW c, NEW t, NEW s, NEW z, NEW G, NEW n, NEW i, NEW e, NEW l,
         HartOK(c, t, s, z, G, n, i, e), n \in Nat, i \in BOOLEAN, e \in BOOLEAN, s # <<>>,
         Head(s) = Rel(l)
  PROVE  /\ l \in Lock /\ l \in G
         /\ HartOK(c, t, Doing("unlock", l, Tail(s)), z, G \ {l}, n, i, e)
<1> DEFINE u == Doing("unlock", l, Tail(s))
<1>1. OpOf(s) \notin Half
  BY DEF OpOf, Half, Rel
<1>2. PICK m \in Mode : Good(t, s, G, m) /\ IntrOK(n, i, e, m)
  BY <1>1, WholeHart
<1>3. n = Cardinality(G) /\ s \in Seq(Ops)
  BY <1>1, WholeHart
<1>4. l \in Lock /\ l \in G /\ Good(t, Tail(s), G \ {l}, m)
  BY <1>2, AtRelease
<1>5. Tail(s) \in Seq(Ops) /\ "unlock" \in Half
  BY <1>4 DEF Good, Half
<1> HIDE DEF u
<1>6. u \in Seq(Steps) /\ OpOf(u) = "unlock" /\ LkOf(u) = l /\ RestOf(u) = Tail(s)
  BY <1>4, <1>5, HalfSeq DEF u
<1>7. WillOwn(u, G \ {l}) = G \ {l}
  BY <1>6 DEF WillOwn
<1>8. /\ IsFiniteSet(G \ {l}) /\ Cardinality(G) \in Nat
      /\ Cardinality(G \ {l}) = Cardinality(G) - 1
  BY <1>4, FS_RemoveElement, FS_CardinalityType DEF HartOK
<1>9. n = Cardinality(G \ {l}) + (IF OpOf(u) \in Half THEN 1 ELSE 0)
  BY <1>3, <1>5, <1>6, <1>8
<1>10. HartOK(c, t, u, z, G \ {l}, n, i, e)
  BY <1>2, <1>4, <1>6, <1>7, <1>8, <1>9 DEF HartOK
<1> QED BY <1>4, <1>10 DEF u

LEMMA HartUnlock ==
  ASSUME NEW c, NEW t, NEW s, NEW z, NEW G, NEW n, NEW i, NEW e, NEW l,
         HartOK(c, t, s, z, G, n, i, e), n \in Nat, i \in BOOLEAN, e \in BOOLEAN, s # <<>>,
         Head(s) = <<"unlock", l>>
  PROVE  /\ l \in Lock /\ n - 1 \in Nat
         /\ HartFree(c, t, Tail(s), z, G, n - 1, IF n = 1 /\ e THEN TRUE ELSE i, e)
<1>1. OpOf(s) = "unlock" /\ LkOf(s) = l /\ RestOf(s) = Tail(s) /\ "unlock" \in Half
  BY DEF OpOf, LkOf, RestOf, Half
<1>2. WillOwn(s, G) = G
  BY <1>1 DEF WillOwn
<1>3. PICK m \in Mode : Good(t, Tail(s), G, m) /\ IntrOK(n, i, e, m)
  BY <1>1, <1>2 DEF HartOK
<1>4. Tail(s) \in Seq(Ops) /\ l \in Lock
  BY <1>1, <1>3 DEF Good, HartOK
<1>5. /\ Tail(s) \in Seq(Steps) /\ OpOf(Tail(s)) \notin Half /\ RestOf(Tail(s)) = Tail(s)
      /\ WillOwn(Tail(s), G) = G
  BY <1>4, WholeSeq
<1>6. Cardinality(G) \in Nat /\ n = Cardinality(G) + 1
  BY <1>1, FS_CardinalityType DEF HartOK
<1>7. IntrOK(n - 1, IF n = 1 /\ e THEN TRUE ELSE i, e, m)
  BY <1>3, <1>6 DEF IntrOK, Mode
<1>8. n - 1 = Cardinality(G) + (IF OpOf(Tail(s)) \in Half THEN 1 ELSE 0) /\ n - 1 \in Nat
  BY <1>5, <1>6
<1>9. "spin" \in Half
  BY DEF Half
<1> QED BY <1>3, <1>4, <1>5, <1>7, <1>8, <1>9 DEF HartOK, HartFree

\* A hart whose thread has only whole operations to do.
LEMMA HartWhole ==
  ASSUME NEW c, NEW t, NEW s, NEW z, NEW G, NEW n, NEW i, NEW e, NEW m \in Mode,
         IsFiniteSet(G), n = Cardinality(G), Good(t, s, G, m), IntrOK(n, i, e, m),
         t \in Process => Good(c, z, {t}, "any")
  PROVE  HartFree(c, t, s, z, G, n, i, e)
<1>1. s \in Seq(Ops)
  BY DEF Good
<1>2. s \in Seq(Steps) /\ OpOf(s) \notin Half /\ RestOf(s) = s /\ WillOwn(s, G) = G
  BY <1>1, WholeSeq
<1>3. "spin" \in Half /\ n = Cardinality(G) + 0
  BY FS_CardinalityType DEF Half
<1> QED BY <1>2, <1>3 DEF HartOK, HartFree

LEMMA HartSret ==
  ASSUME NEW c, NEW t, NEW s, NEW z, NEW G, NEW n, NEW i, NEW e, NEW mode,
         HartOK(c, t, s, z, G, n, i, e), n \in Nat, i \in BOOLEAN, e \in BOOLEAN, s # <<>>,
         Head(s) = <<"sret", mode>>
  PROVE  HartFree(c, t, Tail(s), z, G, n, TRUE, e)
<1>1. OpOf(s) \notin Half
  BY DEF OpOf, Half
<1>2. PICK m \in Mode : Good(t, s, G, m) /\ IntrOK(n, i, e, m)
  BY <1>1, WholeHart
<1>3. /\ G = {}
      /\ \/ mode = "kernel" /\ m = "off" /\ Good(t, Tail(s), {}, Plain(t))
         \/ mode = "user" /\ t \in Process /\ m # "off" /\ Good(t, Tail(s), {}, "on")
  BY <1>2, AtSret
<1>4. n = Cardinality(G) /\ IsFiniteSet(G) /\ n = 0
  BY <1>1, <1>3, WholeHart, FS_EmptySet DEF HartOK
<1>5. PICK k \in {"on", "any"} : Good(t, Tail(s), G, k)
  BY <1>3 DEF Plain
<1>6. k \in Mode /\ IntrOK(n, TRUE, e, k)
  BY <1>4 DEF IntrOK, Mode
<1>7. t \in Process => Good(c, z, {t}, "any")
  BY DEF HartOK
<1> QED BY <1>4, <1>5, <1>6, <1>7, HartWhole

LEMMA HartSyscall ==
  ASSUME NEW c, NEW p, NEW s, NEW z, NEW G, NEW n, NEW i, NEW e, NEW ops,
         HartOK(c, p, s, z, G, n, i, e), s = <<>>, p \in Process, n \in Nat, i \in BOOLEAN,
         e \in BOOLEAN,
         ops \in {SysUptime, SleepOn(p), ExitOf(p)} \cup {KillOf(q) : q \in Process}
  PROVE  HartFree(c, p, ops, z, G, n, i, e)
<1>1. OpOf(<<>>) \notin Half
  BY DEF OpOf, Half
<1>2. PICK m \in Mode : Good(p, <<>>, G, m) /\ IntrOK(n, i, e, m)
  BY <1>1, WholeHart
<1>3. G = {} /\ m = "on"
  BY <1>2, AtEnd, PlainOf
<1>4. n = Cardinality(G) /\ IsFiniteSet(G)
  BY <1>1, WholeHart DEF HartOK
<1>5. Good(p, ops, G, m)
  BY <1>3, GoodSyscall
<1>6. Good(c, z, {p}, "any")
  BY DEF HartOK
<1> QED BY <1>2, <1>4, <1>5, <1>6, HartWhole

LEMMA HartLoop ==
  ASSUME NEW c, NEW s, NEW G, NEW n, NEW i, NEW e, NEW p, NEW j, HartOK(c, c, s, s, G, n, i, e),
         s = <<>>, c \in Cpu, n \in Nat, i \in BOOLEAN, e \in BOOLEAN, p \in Process, j \in BOOLEAN
  PROVE  HartFree(c, c, Visit(p), Visit(p), G, n, j, e)
<1>1. OpOf(<<>>) \notin Half
  BY DEF OpOf, Half
<1>2. PICK m \in Mode : Good(c, <<>>, G, m) /\ IntrOK(n, i, e, m)
  BY <1>1, WholeHart
<1>3. G = {} /\ m = "any"
  BY <1>2, AtEnd, PlainOf
<1>4. n = Cardinality(G) /\ IsFiniteSet(G) /\ n = 0
  BY <1>1, <1>3, WholeHart, FS_EmptySet DEF HartOK
<1>5. Good(c, Visit(p), G, m)
  BY <1>3, GoodVisit
<1>6. IntrOK(n, j, e, m)
  BY <1>3, <1>4 DEF IntrOK
<1>7. c \notin Process
  BY PlainOf
<1> QED BY <1>4, <1>5, <1>6, <1>7, HartWhole

\* A process that has no lock and does not know of interrupts is on its way to user mode,
\* and may as well know that they are on.
LEMMA GoodIdle ==
  ASSUME NEW t \in Thread, NEW s, NEW m \in Mode, Good(t, s, {}, m), m # "off"
  PROVE  Good(t, s, {}, Plain(t))
<1>1. CASE t \in Process
  <2>1. Plain(t) = "on"
    BY <1>1, PlainOf
  <2>2. CASE m = "any"
    <3>1. Fit(t, s, {}, m) /\ s \in Seq(Ops)
      BY GoodStep DEF Good
    <3>2. s # <<>>
      BY <1>1, <2>1, <2>2, <3>1 DEF Fit
    <3>3. Fits(t, Head(s), {}, m)
      BY <3>1, <3>2 DEF Fit
    <3>4. Head(s) = SretU
      <4>1. t \notin Cpu
        BY <1>1, PlainOf
      <4> QED BY <1>1, <2>2, <3>3, <4>1 DEF Fits
    <3>5. Good(t, Tail(s), {}, "on")
      <4>1. Head(s) = <<"sret", "user">>
        BY <3>4 DEF SretU
      <4> QED BY <3>2, <4>1, AtSret
    <3>6. Good(t, <<SretU>> \o Tail(s), {}, "on")
      BY <1>1, <3>5, ConsSret
    <3>7. s = <<SretU>> \o Tail(s)
      BY <3>1, <3>2, <3>4
    <3> QED BY <2>1, <3>6, <3>7
  <2>3. CASE m = "on"
    BY <2>1, <2>3
  <2> QED BY <2>2, <2>3 DEF Mode
<1>2. CASE t \notin Process
  <2>1. t \in Cpu /\ Plain(t) = "any"
    BY <1>2, PlainOf DEF Thread
  <2>2. m # "on"
    <3>1. Fit(t, s, {}, m)
      BY GoodStep
    <3> QED BY <1>2, <3>1 DEF Fit
  <2> QED BY <2>1, <2>2 DEF Mode
<1> QED BY <1>1, <1>2

LEMMA HartInterrupt ==
  ASSUME NEW c, NEW t, NEW s, NEW z, NEW G, NEW n, NEW i, NEW e, NEW q,
         HartOK(c, t, s, z, G, n, i, e), i = TRUE, c \in Cpu, t \in Thread, n \in Nat,
         e \in BOOLEAN, q \in Process
  PROVE  s \in Seq(Ops) /\ HartFree(c, t, Timer(c, t, q) \o s, z, G, n, FALSE, e)
<1>1. PICK m \in Mode : Good(t, RestOf(s), WillOwn(s, G), m) /\ IntrOK(n, i, e, m)
  BY DEF HartOK
<1>2. n = 0 /\ m # "off"
  BY <1>1 DEF IntrOK
<1>3. OpOf(s) \notin Half /\ Cardinality(G) = 0
  BY <1>2, FS_CardinalityType DEF HartOK
<1>4. IsFiniteSet(G) /\ G = {}
  BY <1>3, FS_EmptySet DEF HartOK
<1>5. RestOf(s) = s /\ WillOwn(s, G) = G
  BY <1>3 DEF RestOf, WillOwn, Half
<1>6. Good(t, s, {}, Plain(t))
  BY <1>1, <1>2, <1>4, <1>5, GoodIdle
<1>7. Good(t, Timer(c, t, q) \o s, G, "off")
  BY <1>4, <1>6, GoodTimer
<1>8. IntrOK(n, FALSE, e, "off") /\ "off" \in Mode /\ n = Cardinality(G)
  BY <1>2, <1>3 DEF IntrOK, Mode
<1>9. t \in Process => Good(c, z, {t}, "any")
  BY DEF HartOK
<1> QED BY <1>4, <1>6, <1>7, <1>8, <1>9, HartWhole DEF Good

LEMMA HartSched ==
  ASSUME NEW c, NEW t, NEW s, NEW z, NEW G, NEW n, NEW i, NEW e, NEW p,
         HartOK(c, t, s, z, G, n, i, e), c \in Cpu, n \in Nat, i \in BOOLEAN, e \in BOOLEAN,
         s # <<>>, Head(s) = <<"sched", p>>
  PROVE  /\ p = t /\ G = {p} /\ n = 1
         /\ HartFree(c, c, z, z, G, n, i, e) /\ WaitOK(p, Tail(s), e)
<1>1. OpOf(s) \notin Half
  BY DEF OpOf, Half
<1>2. PICK m \in Mode : Good(t, s, G, m) /\ IntrOK(n, i, e, m)
  BY <1>1, WholeHart
<1>3. t \in Process /\ p = t /\ G = {t} /\ Good(t, Tail(s), {t}, m)
  BY <1>2, AtSched
<1>4. n = Cardinality(G) /\ IsFiniteSet(G) /\ n = 1
  <2>1. n = Cardinality(G) /\ IsFiniteSet(G)
    BY <1>1, WholeHart DEF HartOK
  <2>2. Cardinality(G) = 1
    BY <1>3, FS_Singleton
  <2> QED BY <2>1, <2>2
<1>5. Good(c, z, G, "any") /\ c \notin Process
  BY <1>3, PlainOf DEF HartOK
<1>6. IntrOK(n, i, e, "any") /\ "any" \in Mode
  BY <1>2 DEF IntrOK, Mode
<1>7. HartFree(c, c, z, z, G, n, i, e)
  BY <1>4, <1>5, <1>6, HartWhole
<1>8. WaitOK(p, Tail(s), e)
  BY <1>2, <1>3, <1>4 DEF WaitOK, IntrOK
<1> QED BY <1>3, <1>4, <1>7, <1>8

LEMMA HartExit ==
  ASSUME NEW c, NEW t, NEW s, NEW z, NEW G, NEW n, NEW i, NEW e, NEW p,
         HartOK(c, t, s, z, G, n, i, e), c \in Cpu, n \in Nat, i \in BOOLEAN, e \in BOOLEAN,
         s # <<>>, Head(s) = <<"exit", p>>
  PROVE  /\ p = t /\ G = {p} /\ n = 1
         /\ HartFree(c, c, z, z, G, n, i, e) /\ WaitOK(p, Tail(s), None)
<1>1. OpOf(s) \notin Half
  BY DEF OpOf, Half
<1>2. PICK m \in Mode : Good(t, s, G, m) /\ IntrOK(n, i, e, m)
  BY <1>1, WholeHart
<1>3. t \in Process /\ p = t /\ G = {t} /\ Good(t, Tail(s), {t}, "any")
  BY <1>2, AtExit
<1>4. n = Cardinality(G) /\ IsFiniteSet(G) /\ n = 1
  <2>1. n = Cardinality(G) /\ IsFiniteSet(G)
    BY <1>1, WholeHart DEF HartOK
  <2>2. Cardinality(G) = 1
    BY <1>3, FS_Singleton
  <2> QED BY <2>1, <2>2
<1>5. Good(c, z, G, "any") /\ c \notin Process
  BY <1>3, PlainOf DEF HartOK
<1>6. IntrOK(n, i, e, "any") /\ "any" \in Mode
  BY <1>2 DEF IntrOK, Mode
<1>7. HartFree(c, c, z, z, G, n, i, e)
  BY <1>4, <1>5, <1>6, HartWhole
<1>8. WaitOK(p, Tail(s), None)
  BY <1>3, <1>6 DEF WaitOK
<1> QED BY <1>3, <1>4, <1>7, <1>8

LEMMA HartSwtch ==
  ASSUME NEW c, NEW t, NEW s, NEW z, NEW G, NEW n, NEW i, NEW e, NEW p,
         HartOK(c, t, s, z, G, n, i, e), c \in Cpu, n \in Nat, i \in BOOLEAN, e \in BOOLEAN,
         s # <<>>, Head(s) = <<"swtch", p>>
  PROVE  /\ t \in Cpu /\ p \in Process
         /\ HartFree(c, t, Tail(s), Tail(s), G, n, i, e)
         /\ t = c => \A w, v : WaitOK(p, w, v) =>
              HartFree(c, p, w, Tail(s), G, n, i, IF v # None THEN v ELSE e)
<1>1. OpOf(s) \notin Half
  BY DEF OpOf, Half
<1>2. PICK m \in Mode : Good(t, s, G, m) /\ IntrOK(n, i, e, m)
  BY <1>1, WholeHart
<1>3. t \in Cpu /\ m = "any" /\ p \in Process /\ G = {p} /\ Good(t, Tail(s), {p}, "any")
  BY <1>2, AtSwtch
<1>4. n = Cardinality(G) /\ IsFiniteSet(G) /\ n = 1
  <2>1. n = Cardinality(G) /\ IsFiniteSet(G)
    BY <1>1, WholeHart DEF HartOK
  <2>2. Cardinality(G) = 1
    BY <1>3, FS_Singleton
  <2> QED BY <2>1, <2>2
<1>5. t \notin Process
  BY <1>3, PlainOf
<1>6. HartFree(c, t, Tail(s), Tail(s), G, n, i, e)
  BY <1>2, <1>3, <1>4, <1>5, HartWhole
<1>7. ASSUME t = c, NEW w, NEW v, WaitOK(p, w, v)
      PROVE  HartFree(c, p, w, Tail(s), G, n, i, IF v # None THEN v ELSE e)
  <2>1. PICK k \in Mode : /\ Good(p, w, {p}, k)
                          /\ k = "on" => v = TRUE
                          /\ k = "off" => v = FALSE
    BY <1>7 DEF WaitOK
  <2>2. ~i
    BY <1>2, <1>4 DEF IntrOK
  <2>3. TRUE # None /\ FALSE # None
    BY SpinlockConstants DEF SpinlockAssumption
  <2>4. IntrOK(n, i, IF v # None THEN v ELSE e, k)
    <3>1. CASE k = "on"
      BY <3>1, <2>1, <2>2, <2>3, <1>4 DEF IntrOK
    <3>2. CASE k = "off"
      BY <3>2, <2>1, <2>2, <2>3, <1>4 DEF IntrOK
    <3>3. CASE k = "any"
      BY <3>3, <2>2 DEF IntrOK
    <3> QED BY <3>1, <3>2, <3>3 DEF Mode
  <2>5. Good(p, w, G, k) /\ Good(c, Tail(s), {p}, "any")
    BY <1>3, <1>7, <2>1
  <2> QED BY <1>4, <2>4, <2>5, HartWhole
<1> QED BY <1>3, <1>6, <1>7

-----------------------------------------------------------------------------
(* All harts                                                               *)

TypeOK ==
  /\ locked \in [Lock -> BOOLEAN] /\ owner \in [Lock -> Cpu \cup {None}]
  /\ intr \in [Cpu -> BOOLEAN] /\ noff \in [Cpu -> Nat] /\ intena \in [Cpu -> BOOLEAN]
  /\ running \in [Cpu -> Thread]
  /\ script \in [Thread -> Seq(Steps)]
  /\ saved \in [Process -> BOOLEAN \cup {None}]

\* No thread runs on two harts, and a scheduler on its own.
Apart ==
  /\ \A c \in Cpu : running[c] \in Process \/ running[c] = c
  /\ \A c, d \in Cpu : running[c] = running[d] => c = d

\* The lock that a hart has taken and does not yet own, or no longer owns, is taken, has
\* no owner, and is no other hart's.
Todo(c) == script[running[c]]
Claims(c, l) == OpOf(Todo(c)) \in {"own", "unlock"} /\ LkOf(Todo(c)) = l
ClaimOK ==
  \A l \in Lock :
    /\ owner[l] # None => locked[l]
    /\ \A c \in Cpu : Claims(c, l) => locked[l] /\ owner[l] = None
    /\ \A c, d \in Cpu : Claims(c, l) /\ Claims(d, l) => c = d

Owned(c) == {l \in Lock : owner[l] = c}
HartInv(c) ==
  HartOK(c, running[c], Todo(c), script[c], Owned(c), noff[c], intr[c], intena[c])
WaitInv(p) == (\A c \in Cpu : running[c] # p) => WaitOK(p, script[p], saved[p])

\* The inductive invariant.
SpinInv ==
  /\ TypeOK /\ Apart /\ ClaimOK
  /\ \A c \in Cpu : HartInv(c)
  /\ \A p \in Process : WaitInv(p)

\* At boot every hart is in its scheduler, which has nothing to do.
LEMMA SpinInitially == SpinInit => SpinInv
<1> SUFFICES ASSUME SpinInit PROVE SpinInv
  OBVIOUS
<1> USE DEF SpinInit
<1>1. \A p \in Process : Good(p, Forkret(p), {p}, "any") /\ Forkret(p) \in Seq(Steps)
  <2> TAKE p \in Process
  <2>1. Good(p, Forkret(p), {p}, "any") /\ Forkret(p) \in Seq(Ops)
    BY GoodForkret DEF Good
  <2> QED BY <2>1, WholeSeq
<1>2. \A c \in Cpu : None # c /\ None # Shared /\ c \notin Process
  BY SpinlockConstants DEF SpinlockAssumption
<1>3. TypeOK
  <2>1. script \in [Thread -> Seq(Steps)]
    <3>1. <<>> \in Seq(Steps)
      OBVIOUS
    <3>2. \A t \in Thread : (IF t \in Process THEN Forkret(t) ELSE <<>>) \in Seq(Steps)
      BY <1>1, <3>1
    <3> QED BY <3>2
  <2> QED BY <2>1 DEF TypeOK, Thread, Lock
<1>4. Apart
  BY DEF Apart
<1>5. \A c \in Cpu : Todo(c) = <<>> /\ script[c] = <<>>
  BY <1>2 DEF Todo, Thread
<1>6. ClaimOK
  BY <1>5 DEF ClaimOK, Claims, OpOf
<1>7. ASSUME NEW c \in Cpu PROVE HartInv(c)
  <2>1. Owned(c) = {}
    BY <1>2 DEF Owned
  <2>2. Good(c, <<>>, {}, "any")
    BY AtEnd, PlainOf
  <2>3. IntrOK(0, FALSE, FALSE, "any") /\ "any" \in Mode
    BY DEF IntrOK, Mode
  <2>4. IsFiniteSet({}) /\ Cardinality({}) = 0
    BY FS_EmptySet
  <2>5. HartOK(c, c, <<>>, <<>>, {}, 0, FALSE, FALSE)
    BY <1>2, <2>2, <2>3, <2>4, HartWhole DEF HartFree
  <2> QED BY <1>5, <2>1, <2>5 DEF HartInv
<1>8. ASSUME NEW p \in Process PROVE WaitInv(p)
  <2>1. script[p] = Forkret(p)
    BY DEF Thread
  <2> QED BY <1>1, <2>1 DEF WaitInv, WaitOK, Mode
<1> QED BY <1>3, <1>4, <1>6, <1>7, <1>8 DEF SpinInv

\* A step of one hart, for another hart.
LEMMA OtherHart ==
  ASSUME SpinInv, NEW c \in Cpu, NEW d \in Cpu, d # c,
         running'[d] = running[d],
         \A t \in Thread : t # running[c] => script'[t] = script[t],
         intr'[d] = intr[d], noff'[d] = noff[d], intena'[d] = intena[d],
         \A l \in Lock : owner'[l] = d <=> owner[l] = d
  PROVE  /\ HartInv(d)' /\ Todo(d)' = Todo(d)
         /\ \A l : Claims(d, l)' <=> Claims(d, l)
<1>1. running[d] # running[c] /\ running[d] \in Thread
  BY DEF SpinInv, Apart, TypeOK
<1>2. d # running[c] /\ d \in Thread
  BY PlainOf DEF SpinInv, Apart, Thread
<1>3. script'[running[d]] = script[running[d]] /\ script'[d] = script[d]
  BY <1>1, <1>2
<1>4. Todo(d)' = Todo(d)
  BY <1>3 DEF Todo
<1>5. Owned(d)' = Owned(d)
  BY DEF Owned
<1>6. HartInv(d)'
  BY <1>3, <1>4, <1>5 DEF SpinInv, HartInv
<1> QED BY <1>4, <1>6 DEF Claims

\* The scheduler's script does not matter to a hart that runs its scheduler.
LEMMA HartAny ==
  ASSUME NEW c, NEW t, NEW s, NEW z, NEW G, NEW n, NEW i, NEW e, HartOK(c, t, s, z, G, n, i, e),
         NEW y, t \notin Process \/ y = z
  PROVE  HartOK(c, t, s, y, G, n, i, e)
  BY DEF HartOK

\* A step of hart c that does not switch.
LEMMA Stays ==
  ASSUME SpinInv, NEW c, NEW u, c \in Cpu, script' = [script EXCEPT ![running[c]] = u],
         UNCHANGED <<running, saved>>,
         HartOK(c, running[c], u, script[c], Owned(c)', noff'[c], intr'[c], intena'[c]),
         \A d \in Cpu : d # c => /\ intr'[d] = intr[d] /\ noff'[d] = noff[d]
                                 /\ intena'[d] = intena[d]
                                 /\ \A l \in Lock : owner'[l] = d <=> owner[l] = d,
         locked' \in [Lock -> BOOLEAN], owner' \in [Lock -> Cpu \cup {None}],
         intr' \in [Cpu -> BOOLEAN], noff' \in [Cpu -> Nat], intena' \in [Cpu -> BOOLEAN]
  PROVE  /\ \A d \in Cpu : d # c => \A l : Claims(d, l)' <=> Claims(d, l)
         /\ ClaimOK' => SpinInv'
<1>1. /\ running[c] \in Thread /\ script \in [Thread -> Seq(Steps)] /\ c \in Thread
      /\ running[c] \in Process \/ running[c] = c
  BY DEF SpinInv, TypeOK, Apart, Thread
<1>2. /\ script'[running[c]] = u /\ u \in Seq(Steps)
      /\ \A t \in Thread : t # running[c] => script'[t] = script[t]
  BY <1>1 DEF HartOK
<1>3. Todo(c)' = u
  BY <1>2 DEF Todo
<1>4. ASSUME NEW d \in Cpu, d # c
      PROVE  HartInv(d)' /\ \A l : Claims(d, l)' <=> Claims(d, l)
  <2>1. /\ running'[d] = running[d]
        /\ intr'[d] = intr[d] /\ noff'[d] = noff[d] /\ intena'[d] = intena[d]
        /\ \A l \in Lock : owner'[l] = d <=> owner[l] = d
    BY <1>4
  <2> QED BY <1>2, <1>4, <2>1, OtherHart
<1>5. HartInv(c)'
  <2>1. running[c] \notin Process \/ script'[c] = script[c]
    BY <1>1, <1>2, PlainOf
  <2>2. HartOK(c, running[c], u, script'[c], Owned(c)', noff'[c], intr'[c], intena'[c])
    BY <2>1, HartAny
  <2> QED BY <2>2, <1>3 DEF HartInv
<1>6. TypeOK'
  BY <1>1, <1>2 DEF SpinInv, TypeOK
<1>7. Apart'
  BY DEF SpinInv, Apart
<1>8. ASSUME NEW p \in Process PROVE WaitInv(p)'
  <2> SUFFICES ASSUME \A d \in Cpu : running[d] # p PROVE WaitOK(p, script'[p], saved'[p])
    BY DEF WaitInv
  <2>1. script'[p] = script[p]
    BY <1>2 DEF Thread
  <2> QED BY <2>1 DEF SpinInv, WaitInv
<1> QED BY <1>3, <1>4, <1>5, <1>6, <1>7, <1>8 DEF SpinInv

\* A step of hart c that leaves the locks alone.
LEMMA ClaimsStay ==
  ASSUME SpinInv, NEW c \in Cpu, UNCHANGED locks, OpOf(Todo(c)') \notin Half,
         \A d \in Cpu : d # c => \A l : Claims(d, l)' <=> Claims(d, l)
  PROVE  ClaimOK'
<1>1. \A l : ~Claims(c, l)'
  BY DEF Claims, Half
<1> QED BY <1>1 DEF SpinInv, ClaimOK, locks

LEMMA OwnedBy ==
  ASSUME NEW c, NEW l \in Lock
  PROVE  l \in Owned(c) <=> owner[l] = c
  BY DEF Owned

LEMMA HartFacts ==
  ASSUME SpinInv, NEW c \in Cpu
  PROVE  /\ running[c] \in Thread /\ script \in [Thread -> Seq(Steps)]
         /\ running \in [Cpu -> Thread] /\ saved \in [Process -> BOOLEAN \cup {None}]
         /\ Todo(c) \in Seq(Steps) /\ noff[c] \in Nat /\ intr[c] \in BOOLEAN /\ intena[c] \in BOOLEAN
         /\ locked \in [Lock -> BOOLEAN] /\ owner \in [Lock -> Cpu \cup {None}]
         /\ intr \in [Cpu -> BOOLEAN] /\ noff \in [Cpu -> Nat] /\ intena \in [Cpu -> BOOLEAN]
         /\ HartOK(c, running[c], Todo(c), script[c], Owned(c), noff[c], intr[c], intena[c])
         /\ None \notin Cpu
  BY SpinlockConstants DEF SpinlockAssumption, SpinInv, TypeOK, Todo, HartInv

\* Becomes(c, <<>>) leaves the rest of the script.
LEMMA RestLeft ==
  ASSUME SpinInv, NEW c \in Cpu, Todo(c) # <<>>
  PROVE  <<>> \o Tail(script[running[c]]) = Tail(Todo(c))
<1>1. Tail(Todo(c)) \in Seq(Steps)
  BY HartFacts
<1> QED BY <1>1 DEF Todo

LEMMA DoingHead ==
  ASSUME NEW h, NEW l, NEW r \in Seq(Steps)
  PROVE  OpOf(Doing(h, l, r)) = h /\ LkOf(Doing(h, l, r)) = l
<1> DEFINE a == <<h, l>>
           v == <<a>> \o r
<1>1. v # <<>> /\ Head(v) = a
  OBVIOUS
<1>2. a[1] = h /\ a[2] = l
  OBVIOUS
<1>3. Doing(h, l, r) = v
  BY DEF Doing
<1> HIDE DEF a, v
<1> QED BY <1>1, <1>2, <1>3 DEF OpOf, LkOf

LEMMA StepPushOff ==
  ASSUME SpinInv, NEW c \in Cpu, NEW l \in Lock, PushOff(c, l)
  PROVE  SpinInv'
<1> DEFINE u == Doing("spin", l, Tail(Todo(c)))
<1>1. Todo(c) # <<>> /\ Head(Todo(c)) = Acq(l)
  BY DEF PushOff, At, Todo, Acq, Rel
<1>2. /\ l \notin Owned(c)
      /\ HartOK(c, running[c], u, script[c], Owned(c), noff[c] + 1, FALSE,
                IF noff[c] = 0 THEN intr[c] ELSE intena[c])
  <2>1. /\ noff[c] \in Nat /\ intr[c] \in BOOLEAN /\ intena[c] \in BOOLEAN
        /\ HartOK(c, running[c], Todo(c), script[c], Owned(c), noff[c], intr[c], intena[c])
    BY HartFacts
  <2> QED BY <1>1, <2>1, HartPushOff
<1>3. script' = [script EXCEPT ![running[c]] = u]
  BY DEF PushOff, Becomes, Todo, Doing
<1>4. /\ Owned(c)' = Owned(c) /\ noff'[c] = noff[c] + 1 /\ intr'[c] = FALSE
      /\ intena'[c] = IF noff[c] = 0 THEN intr[c] ELSE intena[c]
  BY HartFacts DEF PushOff, locks, Owned
<1>5. /\ locked' \in [Lock -> BOOLEAN] /\ owner' \in [Lock -> Cpu \cup {None}]
      /\ intr' \in [Cpu -> BOOLEAN] /\ noff' \in [Cpu -> Nat] /\ intena' \in [Cpu -> BOOLEAN]
  BY HartFacts DEF PushOff, locks
<1>6. \A d \in Cpu : d # c => /\ intr'[d] = intr[d] /\ noff'[d] = noff[d] /\ intena'[d] = intena[d]
                              /\ \A k \in Lock : owner'[k] = d <=> owner[k] = d
  BY HartFacts DEF PushOff, locks
<1> HIDE DEF u
<1>7. UNCHANGED <<running, saved>>
  BY DEF PushOff
<1>8. HartOK(c, running[c], u, script[c], Owned(c)', noff'[c], intr'[c], intena'[c])
  BY <1>2, <1>4 DEF HartFree
<1>9. Todo(c)' = u
  BY <1>3, <1>7, HartFacts DEF Todo
<1>10. ClaimOK' => SpinInv'
  BY <1>3, <1>5, <1>6, <1>7, <1>8, Stays
<1>11. \A d \in Cpu : d # c => \A k : Claims(d, k)' <=> Claims(d, k)
  BY <1>3, <1>5, <1>6, <1>7, <1>8, Stays
<1>12. ClaimOK'
  <2>1. OpOf(u) = "spin" /\ LkOf(u) = l
    <3>1. Tail(Todo(c)) \in Seq(Steps)
      BY <1>1, HartFacts
    <3> QED BY <3>1, DoingHead DEF u
  <2>2. \A k : ~Claims(c, k)'
    BY <1>9, <2>1 DEF Claims
  <2>3. UNCHANGED <<locked, owner>>
    BY DEF PushOff, locks
  <2> QED BY <1>11, <2>2, <2>3 DEF SpinInv, ClaimOK
<1> QED BY <1>10, <1>12

LEMMA StepTestAndSet ==
  ASSUME SpinInv, NEW c \in Cpu, NEW l \in Lock, TestAndSet(c, l)
  PROVE  SpinInv'
<1> DEFINE u == Doing("own", l, Tail(Todo(c)))
<1>1. Todo(c) # <<>> /\ Head(Todo(c)) = <<"spin", l>>
  BY DEF TestAndSet, At, Todo, Acq, Rel
<1>2. HartOK(c, running[c], u, script[c], Owned(c), noff[c], intr[c], intena[c])
  <2>1. /\ noff[c] \in Nat /\ intr[c] \in BOOLEAN /\ intena[c] \in BOOLEAN
        /\ HartOK(c, running[c], Todo(c), script[c], Owned(c), noff[c], intr[c], intena[c])
    BY HartFacts
  <2> QED BY <1>1, <2>1, HartTestAndSet
<1>3. script' = [script EXCEPT ![running[c]] = u]
  BY DEF TestAndSet, Becomes, Todo, Doing
<1>4. /\ Owned(c)' = Owned(c) /\ noff'[c] = noff[c] /\ intr'[c] = intr[c]
      /\ intena'[c] = intena[c]
  BY HartFacts DEF TestAndSet, harts, Owned
<1>5. /\ locked' \in [Lock -> BOOLEAN] /\ owner' \in [Lock -> Cpu \cup {None}]
      /\ intr' \in [Cpu -> BOOLEAN] /\ noff' \in [Cpu -> Nat] /\ intena' \in [Cpu -> BOOLEAN]
  BY HartFacts DEF TestAndSet, locks, harts
<1>6. \A d \in Cpu : d # c => /\ intr'[d] = intr[d] /\ noff'[d] = noff[d] /\ intena'[d] = intena[d]
                              /\ \A k \in Lock : owner'[k] = d <=> owner[k] = d
  BY HartFacts DEF TestAndSet, locks, harts
<1> HIDE DEF u
<1>7. UNCHANGED <<running, saved>>
  BY DEF TestAndSet
<1>8. HartOK(c, running[c], u, script[c], Owned(c)', noff'[c], intr'[c], intena'[c])
  BY <1>2, <1>4 DEF HartFree
<1>9. Todo(c)' = u
  BY <1>3, <1>7, HartFacts DEF Todo
<1>10. ClaimOK' => SpinInv'
  BY <1>3, <1>5, <1>6, <1>7, <1>8, Stays
<1>11. \A d \in Cpu : d # c => \A k : Claims(d, k)' <=> Claims(d, k)
  BY <1>3, <1>5, <1>6, <1>7, <1>8, Stays
<1>12. ClaimOK'
  <2>1. OpOf(u) = "own" /\ LkOf(u) = l
    <3>1. Tail(Todo(c)) \in Seq(Steps)
      BY <1>1, HartFacts
    <3> QED BY <3>1, DoingHead DEF u
  <2>2. \A k : Claims(c, k)' => k = l
    BY <1>9, <2>1 DEF Claims
  <2>3. owner' = owner /\ ~locked[l] /\ locked' = [locked EXCEPT ![l] = TRUE]
    BY DEF TestAndSet
  <2>4. owner[l] = None /\ \A d \in Cpu : ~Claims(d, l)
    BY <2>3 DEF SpinInv, ClaimOK
  <2>5. locked \in [Lock -> BOOLEAN]
    BY HartFacts
  <2> QED BY <1>11, <2>2, <2>3, <2>4, <2>5 DEF SpinInv, ClaimOK
<1> QED BY <1>10, <1>12

LEMMA StepOwn ==
  ASSUME SpinInv, NEW c \in Cpu, NEW l \in Lock, Own(c, l)
  PROVE  SpinInv'
<1> DEFINE u == Tail(Todo(c))
<1>1. Todo(c) # <<>> /\ Head(Todo(c)) = <<"own", l>>
  BY DEF Own, At, Todo, Acq, Rel
<1>0. Claims(c, l) /\ owner[l] = None /\ l \notin Owned(c)
  <2>1. Claims(c, l)
    BY <1>1 DEF Claims, OpOf, LkOf
  <2>2. owner[l] = None
    BY <2>1 DEF SpinInv, ClaimOK
  <2> QED BY <2>1, <2>2, HartFacts DEF Owned
<1>2. HartFree(c, running[c], u, script[c], Owned(c) \cup {l}, noff[c], intr[c], intena[c])
  <2>1. /\ noff[c] \in Nat /\ intr[c] \in BOOLEAN /\ intena[c] \in BOOLEAN
        /\ HartOK(c, running[c], Todo(c), script[c], Owned(c), noff[c], intr[c], intena[c])
    BY HartFacts
  <2> QED BY <1>1, <2>1, <1>0, HartOwn
<1>3. script' = [script EXCEPT ![running[c]] = u]
  BY <1>1, RestLeft DEF Own, Becomes, Todo, Doing
<1>4. /\ Owned(c)' = Owned(c) \cup {l} /\ noff'[c] = noff[c] /\ intr'[c] = intr[c]
      /\ intena'[c] = intena[c]
  BY HartFacts DEF Own, harts, Owned
<1>5. /\ locked' \in [Lock -> BOOLEAN] /\ owner' \in [Lock -> Cpu \cup {None}]
      /\ intr' \in [Cpu -> BOOLEAN] /\ noff' \in [Cpu -> Nat] /\ intena' \in [Cpu -> BOOLEAN]
  BY HartFacts DEF Own, locks, harts
<1>6. \A d \in Cpu : d # c => /\ intr'[d] = intr[d] /\ noff'[d] = noff[d] /\ intena'[d] = intena[d]
                              /\ \A k \in Lock : owner'[k] = d <=> owner[k] = d
  BY <1>0, HartFacts DEF Own, harts
<1> HIDE DEF u
<1>7. UNCHANGED <<running, saved>>
  BY DEF Own
<1>8. HartOK(c, running[c], u, script[c], Owned(c)', noff'[c], intr'[c], intena'[c])
  BY <1>2, <1>4 DEF HartFree
<1>9. Todo(c)' = u
  BY <1>3, <1>7, HartFacts DEF Todo
<1>10. ClaimOK' => SpinInv'
  BY <1>3, <1>5, <1>6, <1>7, <1>8, Stays
<1>11. \A d \in Cpu : d # c => \A k : Claims(d, k)' <=> Claims(d, k)
  BY <1>3, <1>5, <1>6, <1>7, <1>8, Stays
<1>12. ClaimOK'
  <2>1. \A k : ~Claims(c, k)'
    BY <1>2, <1>9 DEF Claims, HartFree, Half
  <2>2. locked' = locked /\ owner' = [owner EXCEPT ![l] = c] /\ owner \in [Lock -> Cpu \cup {None}]
    BY HartFacts DEF Own
  <2>3. locked[l] /\ \A d \in Cpu : Claims(d, l) => d = c
    BY <1>0 DEF SpinInv, ClaimOK
  <2> QED BY <1>11, <2>1, <2>2, <2>3 DEF SpinInv, ClaimOK
<1> QED BY <1>10, <1>12

LEMMA StepDisown ==
  ASSUME SpinInv, NEW c \in Cpu, NEW l \in Lock, Disown(c, l)
  PROVE  SpinInv'
<1> DEFINE u == Doing("unlock", l, Tail(Todo(c)))
<1>1. Todo(c) # <<>> /\ Head(Todo(c)) = Rel(l)
  BY DEF Disown, At, Todo, Acq, Rel
<1>2. HartOK(c, running[c], u, script[c], Owned(c) \ {l}, noff[c], intr[c], intena[c])
  <2>1. /\ noff[c] \in Nat /\ intr[c] \in BOOLEAN /\ intena[c] \in BOOLEAN
        /\ HartOK(c, running[c], Todo(c), script[c], Owned(c), noff[c], intr[c], intena[c])
    BY HartFacts
  <2> QED BY <1>1, <2>1, HartDisown
<1>3. script' = [script EXCEPT ![running[c]] = u]
  BY DEF Disown, Becomes, Todo, Doing
<1>4. /\ Owned(c)' = Owned(c) \ {l} /\ noff'[c] = noff[c] /\ intr'[c] = intr[c]
      /\ intena'[c] = intena[c]
  BY HartFacts DEF Disown, harts, Owned
<1>5. /\ locked' \in [Lock -> BOOLEAN] /\ owner' \in [Lock -> Cpu \cup {None}]
      /\ intr' \in [Cpu -> BOOLEAN] /\ noff' \in [Cpu -> Nat] /\ intena' \in [Cpu -> BOOLEAN]
  BY HartFacts DEF Disown, locks, harts
<1>6. \A d \in Cpu : d # c => /\ intr'[d] = intr[d] /\ noff'[d] = noff[d] /\ intena'[d] = intena[d]
                              /\ \A k \in Lock : owner'[k] = d <=> owner[k] = d
  BY HartFacts DEF Disown, Holding, harts
<1> HIDE DEF u
<1>7. UNCHANGED <<running, saved>>
  BY DEF Disown
<1>8. HartOK(c, running[c], u, script[c], Owned(c)', noff'[c], intr'[c], intena'[c])
  BY <1>2, <1>4 DEF HartFree
<1>9. Todo(c)' = u
  BY <1>3, <1>7, HartFacts DEF Todo
<1>10. ClaimOK' => SpinInv'
  BY <1>3, <1>5, <1>6, <1>7, <1>8, Stays
<1>11. \A d \in Cpu : d # c => \A k : Claims(d, k)' <=> Claims(d, k)
  BY <1>3, <1>5, <1>6, <1>7, <1>8, Stays
<1>12. ClaimOK'
  <2>1. OpOf(u) = "unlock" /\ LkOf(u) = l
    <3>1. Tail(Todo(c)) \in Seq(Steps)
      BY <1>1, HartFacts
    <3> QED BY <3>1, DoingHead DEF u
  <2>2. \A k : Claims(c, k)' => k = l
    BY <1>9, <2>1 DEF Claims
  <2>3. /\ locked' = locked /\ owner' = [owner EXCEPT ![l] = None] /\ owner[l] = c
        /\ owner \in [Lock -> Cpu \cup {None}] /\ c # None
    BY HartFacts DEF Disown, Holding
  <2>4. locked[l] /\ \A d \in Cpu : ~Claims(d, l)
    BY <2>3 DEF SpinInv, ClaimOK
  <2> QED BY <1>11, <2>2, <2>3, <2>4 DEF SpinInv, ClaimOK
<1> QED BY <1>10, <1>12

LEMMA StepUnlock ==
  ASSUME SpinInv, NEW c \in Cpu, NEW l \in Lock, Unlock(c, l)
  PROVE  SpinInv'
<1> DEFINE u == Tail(Todo(c))
<1>1. Todo(c) # <<>> /\ Head(Todo(c)) = <<"unlock", l>>
  BY DEF Unlock, At, Todo, Acq, Rel
<1>2. HartFree(c, running[c], u, script[c], Owned(c), noff[c] - 1,
                IF noff[c] = 1 /\ intena[c] THEN TRUE ELSE intr[c], intena[c])
  <2>1. /\ noff[c] \in Nat /\ intr[c] \in BOOLEAN /\ intena[c] \in BOOLEAN
        /\ HartOK(c, running[c], Todo(c), script[c], Owned(c), noff[c], intr[c], intena[c])
    BY HartFacts
  <2> QED BY <1>1, <2>1, HartUnlock
<1>3. script' = [script EXCEPT ![running[c]] = u]
  BY <1>1, RestLeft DEF Unlock, Becomes, Todo, Doing
<1>4. /\ Owned(c)' = Owned(c) /\ noff'[c] = noff[c] - 1 /\ intena'[c] = intena[c]
      /\ intr'[c] = IF noff[c] = 1 /\ intena[c] THEN TRUE ELSE intr[c]
  BY HartFacts DEF Unlock, Owned
<1>5. /\ locked' \in [Lock -> BOOLEAN] /\ owner' \in [Lock -> Cpu \cup {None}]
      /\ intr' \in [Cpu -> BOOLEAN] /\ noff' \in [Cpu -> Nat] /\ intena' \in [Cpu -> BOOLEAN]
  BY HartFacts DEF Unlock, locks
<1>6. \A d \in Cpu : d # c => /\ intr'[d] = intr[d] /\ noff'[d] = noff[d] /\ intena'[d] = intena[d]
                              /\ \A k \in Lock : owner'[k] = d <=> owner[k] = d
  BY HartFacts DEF Unlock, locks
<1> HIDE DEF u
<1>7. UNCHANGED <<running, saved>>
  BY DEF Unlock
<1>8. HartOK(c, running[c], u, script[c], Owned(c)', noff'[c], intr'[c], intena'[c])
  BY <1>2, <1>4 DEF HartFree
<1>9. Todo(c)' = u
  BY <1>3, <1>7, HartFacts DEF Todo
<1>10. ClaimOK' => SpinInv'
  BY <1>3, <1>5, <1>6, <1>7, <1>8, Stays
<1>11. \A d \in Cpu : d # c => \A k : Claims(d, k)' <=> Claims(d, k)
  BY <1>3, <1>5, <1>6, <1>7, <1>8, Stays
<1>12. ClaimOK'
  <2>1. \A k : ~Claims(c, k)'
    BY <1>2, <1>9 DEF Claims, HartFree, Half
  <2>2. Claims(c, l)
    BY <1>1 DEF Claims, OpOf, LkOf
  <2>3. owner[l] = None /\ \A d \in Cpu : Claims(d, l) => d = c
    BY <2>2 DEF SpinInv, ClaimOK
  <2>4. owner' = owner /\ locked' = [locked EXCEPT ![l] = FALSE] /\ locked \in [Lock -> BOOLEAN]
    BY HartFacts DEF Unlock
  <2> QED BY <1>11, <2>1, <2>3, <2>4 DEF SpinInv, ClaimOK
<1> QED BY <1>10, <1>12

\* A step of hart c that leaves the locks alone and does not switch.
LEMMA Goes ==
  ASSUME SpinInv, NEW c, NEW u, c \in Cpu, script' = [script EXCEPT ![running[c]] = u],
         UNCHANGED <<running, saved, locks, noff, intena>>,
         HartFree(c, running[c], u, script[c], Owned(c), noff[c], intr'[c], intena[c]),
         intr' \in [Cpu -> BOOLEAN], \A d \in Cpu : d # c => intr'[d] = intr[d]
  PROVE  SpinInv'
<1>1. /\ locked' \in [Lock -> BOOLEAN] /\ owner' \in [Lock -> Cpu \cup {None}]
      /\ noff' \in [Cpu -> Nat] /\ intena' \in [Cpu -> BOOLEAN]
  BY HartFacts DEF locks
<1>2. \A d \in Cpu : d # c => /\ intr'[d] = intr[d] /\ noff'[d] = noff[d] /\ intena'[d] = intena[d]
                              /\ \A k \in Lock : owner'[k] = d <=> owner[k] = d
  BY DEF locks
<1>3. Owned(c)' = Owned(c)
  BY DEF Owned, locks
<1>4. HartOK(c, running[c], u, script[c], Owned(c)', noff'[c], intr'[c], intena'[c])
  BY <1>3 DEF HartFree
<1>5. Todo(c)' = u
  BY HartFacts DEF Todo
<1>6. UNCHANGED <<running, saved>>
  OBVIOUS
<1>7. ClaimOK' => SpinInv'
  BY <1>1, <1>2, <1>4, <1>6, Stays
<1>8. \A d \in Cpu : d # c => \A k : Claims(d, k)' <=> Claims(d, k)
  BY <1>1, <1>2, <1>4, <1>6, Stays
<1>9. OpOf(Todo(c)') \notin Half
  BY <1>5 DEF HartFree
<1> QED BY <1>7, <1>8, <1>9, ClaimsStay

LEMMA StepSret ==
  ASSUME SpinInv, NEW c \in Cpu, NEW mode \in {"user", "kernel"}, Sret(c, mode)
  PROVE  SpinInv'
<1> DEFINE u == Tail(Todo(c))
<1>1. Todo(c) # <<>> /\ Head(Todo(c)) = <<"sret", mode>>
  BY DEF Sret, At, Todo
<1>2. HartFree(c, running[c], u, script[c], Owned(c), noff[c], TRUE, intena[c])
  <2>1. /\ noff[c] \in Nat /\ intr[c] \in BOOLEAN /\ intena[c] \in BOOLEAN
        /\ HartOK(c, running[c], Todo(c), script[c], Owned(c), noff[c], intr[c], intena[c])
    BY HartFacts
  <2> QED BY <1>1, <2>1, HartSret
<1>3. script' = [script EXCEPT ![running[c]] = u]
  BY <1>1, RestLeft DEF Sret, Becomes, Todo
<1>4. /\ intr'[c] = TRUE /\ intr' \in [Cpu -> BOOLEAN]
      /\ \A d \in Cpu : d # c => intr'[d] = intr[d]
  BY HartFacts DEF Sret
<1> HIDE DEF u
<1>5. HartFree(c, running[c], u, script[c], Owned(c), noff[c], intr'[c], intena[c])
  BY <1>2, <1>4
<1>6. UNCHANGED <<running, saved, locks, noff, intena>>
  BY DEF Sret
<1> QED BY <1>3, <1>4, <1>5, <1>6, Goes

LEMMA StepSyscall ==
  ASSUME SpinInv, NEW c \in Cpu, NEW p \in Process, Syscall(c, p)
  PROVE  SpinInv'
<1>1. PICK ops \in {SysUptime, SleepOn(p), ExitOf(p)} \cup {KillOf(q) : q \in Process} :
        script' = [script EXCEPT ![p] = ops]
  BY DEF Syscall
<1>2. running[c] = p /\ Todo(c) = <<>>
  BY DEF Syscall, Todo
<1>3. /\ noff[c] \in Nat /\ intr[c] \in BOOLEAN /\ intena[c] \in BOOLEAN
      /\ HartOK(c, p, Todo(c), script[c], Owned(c), noff[c], intr[c], intena[c])
  BY <1>2, HartFacts
<1>4. HartFree(c, p, ops, script[c], Owned(c), noff[c], intr[c], intena[c])
  BY <1>2, <1>3, HartSyscall
<1>5. UNCHANGED <<running, saved, locks, noff, intena>> /\ intr' = intr
  BY DEF Syscall, harts
<1>6. intr' \in [Cpu -> BOOLEAN] /\ \A d \in Cpu : d # c => intr'[d] = intr[d]
  BY <1>5, HartFacts
<1>7. /\ script' = [script EXCEPT ![running[c]] = ops]
      /\ HartFree(c, running[c], ops, script[c], Owned(c), noff[c], intr'[c], intena[c])
  BY <1>1, <1>2, <1>4, <1>5
<1> QED BY <1>5, <1>6, <1>7, Goes

LEMMA StepLoop ==
  ASSUME SpinInv, NEW c \in Cpu, Loop(c)
  PROVE  SpinInv'
<1>1. PICK p \in Process : script' = [script EXCEPT ![c] = Visit(p)]
  BY DEF Loop
<1>2. running[c] = c /\ Todo(c) = <<>> /\ script[c] = <<>> /\ c \notin Process
  BY PlainOf DEF Loop, Todo
<1>3. intr' \in [Cpu -> BOOLEAN] /\ \A d \in Cpu : d # c => intr'[d] = intr[d]
  BY HartFacts DEF Loop
<1>4. intr'[c] \in BOOLEAN
  BY <1>3
<1>5. /\ noff[c] \in Nat /\ intr[c] \in BOOLEAN /\ intena[c] \in BOOLEAN
      /\ HartOK(c, c, Todo(c), Todo(c), Owned(c), noff[c], intr[c], intena[c])
  BY <1>2, HartFacts
<1>6. HartFree(c, c, Visit(p), Visit(p), Owned(c), noff[c], intr'[c], intena[c])
  BY <1>2, <1>4, <1>5, HartLoop
<1>7. HartFree(c, c, Visit(p), script[c], Owned(c), noff[c], intr'[c], intena[c])
  BY <1>2, <1>6, HartAny DEF HartFree
<1>8. UNCHANGED <<running, saved, locks, noff, intena>>
  BY DEF Loop
<1>9. /\ script' = [script EXCEPT ![running[c]] = Visit(p)]
      /\ HartFree(c, running[c], Visit(p), script[c], Owned(c), noff[c], intr'[c], intena[c])
  BY <1>1, <1>2, <1>7
<1> QED BY <1>3, <1>8, <1>9, Goes

LEMMA StepInterrupt ==
  ASSUME SpinInv, NEW c \in Cpu, Interrupt(c)
  PROVE  SpinInv'
<1>1. PICK q \in Process :
        script' = [script EXCEPT ![running[c]] = Timer(c, running[c], q) \o @]
  BY DEF Interrupt
<1> DEFINE u == Timer(c, running[c], q) \o Todo(c)
<1>2. script' = [script EXCEPT ![running[c]] = u]
  BY <1>1 DEF Todo
<1>3. HartFree(c, running[c], u, script[c], Owned(c), noff[c], FALSE, intena[c])
  <2>1. /\ noff[c] \in Nat /\ intr[c] = TRUE /\ intena[c] \in BOOLEAN /\ running[c] \in Thread
        /\ HartOK(c, running[c], Todo(c), script[c], Owned(c), noff[c], intr[c], intena[c])
    BY HartFacts DEF Interrupt
  <2> QED BY <2>1, HartInterrupt
<1>4. /\ intr'[c] = FALSE /\ intr' \in [Cpu -> BOOLEAN]
      /\ \A d \in Cpu : d # c => intr'[d] = intr[d]
  BY HartFacts DEF Interrupt
<1> HIDE DEF u
<1>5. HartFree(c, running[c], u, script[c], Owned(c), noff[c], intr'[c], intena[c])
  BY <1>3, <1>4
<1>6. UNCHANGED <<running, saved, locks, noff, intena>>
  BY DEF Interrupt
<1> QED BY <1>2, <1>4, <1>5, <1>6, Goes

\* A step of hart c that leaves the locks alone and switches to t; the thread that ran
\* has u to do when it runs again.
SwitchTo(c, t, u) ==
  /\ t \in Process \/ t = c
  /\ \A d \in Cpu : running[d] # t
  /\ running' = [running EXCEPT ![c] = t] /\ script' = [script EXCEPT ![running[c]] = u]
  /\ UNCHANGED <<locks, intr, noff>>
  /\ intena' \in [Cpu -> BOOLEAN] /\ \A d \in Cpu : d # c => intena'[d] = intena[d]
  /\ saved' \in [Process -> BOOLEAN \cup {None}]
  /\ \A p \in Process : p # t /\ p # running[c] => saved'[p] = saved[p]
  /\ u \in Seq(Steps) /\ (running[c] \in Process => WaitOK(running[c], u, saved'[running[c]]))
  /\ HartFree(c, t, script'[t], script'[c], Owned(c), noff[c], intr[c], intena'[c])

LEMMA Switches ==
  ASSUME SpinInv, NEW c, NEW t, NEW u, c \in Cpu, SwitchTo(c, t, u)
  PROVE  SpinInv'
<1> USE DEF SwitchTo
<1>1. /\ running[c] \in Thread /\ script \in [Thread -> Seq(Steps)] /\ c \in Thread /\ t \in Thread
      /\ running \in [Cpu -> Thread]
  BY HartFacts DEF Thread
<1>2. /\ script'[running[c]] = u
      /\ \A k \in Thread : k # running[c] => script'[k] = script[k]
      /\ running'[c] = t /\ \A d \in Cpu : d # c => running'[d] = running[d]
  BY <1>1
<1>3. ASSUME NEW d \in Cpu, d # c
      PROVE  HartInv(d)' /\ \A l : Claims(d, l)' <=> Claims(d, l)
  <2>1. /\ running'[d] = running[d]
        /\ intr'[d] = intr[d] /\ noff'[d] = noff[d] /\ intena'[d] = intena[d]
        /\ \A l \in Lock : owner'[l] = d <=> owner[l] = d
    BY <1>2, <1>3 DEF locks
  <2> QED BY <1>2, <1>3, <2>1, OtherHart
<1>4. HartInv(c)' /\ Todo(c)' = script'[t]
  <2>1. Owned(c)' = Owned(c)
    BY DEF Owned, locks
  <2>2. Todo(c)' = script'[t]
    BY <1>2 DEF Todo
  <2> QED BY <1>2, <2>1, <2>2 DEF HartInv, HartFree
<1>5. TypeOK'
  <2>1. script' \in [Thread -> Seq(Steps)] /\ running' \in [Cpu -> Thread]
    BY <1>1
  <2> QED BY <2>1, HartFacts DEF TypeOK, locks
<1>6. Apart'
  BY <1>2 DEF SpinInv, Apart
<1>7. ASSUME NEW p \in Process PROVE WaitInv(p)'
  <2> SUFFICES ASSUME \A d \in Cpu : running'[d] # p PROVE WaitOK(p, script'[p], saved'[p])
    BY DEF WaitInv
  <2>1. p # t
    BY <1>2
  <2>2. CASE p = running[c]
    BY <2>2, <1>2
  <2>3. CASE p # running[c]
    <3>1. script'[p] = script[p] /\ saved'[p] = saved[p]
      BY <2>1, <2>3, <1>2 DEF Thread
    <3>2. \A d \in Cpu : running[d] # p
      BY <2>3, <1>2
    <3> QED BY <3>1, <3>2 DEF SpinInv, WaitInv
  <2> QED BY <2>2, <2>3
<1>8. ClaimOK'
  BY <1>3, <1>4, ClaimsStay DEF HartFree
<1> QED BY <1>3, <1>4, <1>5, <1>6, <1>7, <1>8 DEF SpinInv

\* A process is not the scheduler of a hart, and that one runs on no other hart.
LEMMA SchedulerFree ==
  ASSUME SpinInv, NEW c, c \in Cpu, running[c] \in Process
  PROVE  \A d \in Cpu : running[d] # c
  BY PlainOf DEF SpinInv, Apart

LEMMA StepSched ==
  ASSUME SpinInv, NEW c \in Cpu, NEW p \in Process, Sched(c, p)
  PROVE  SpinInv'
<1> DEFINE u == Tail(Todo(c))
<1>1. running[c] = p /\ Todo(c) # <<>> /\ Head(Todo(c)) = <<"sched", p>>
  BY DEF Sched, At, Todo
<1>2. /\ HartFree(c, c, script[c], script[c], Owned(c), noff[c], intr[c], intena[c])
      /\ WaitOK(p, u, intena[c])
  <2>1. /\ noff[c] \in Nat /\ intr[c] \in BOOLEAN /\ intena[c] \in BOOLEAN
        /\ HartOK(c, running[c], Todo(c), script[c], Owned(c), noff[c], intr[c], intena[c])
    BY HartFacts
  <2> QED BY <1>1, <2>1, HartSched
<1>3. script' = [script EXCEPT ![running[c]] = u] /\ u \in Seq(Steps)
  BY <1>1, RestLeft, HartFacts DEF Sched, Becomes, Todo
<1> HIDE DEF u
<1>4. script'[c] = script[c]
  <2>1. c # running[c] /\ c \in Thread
    BY <1>1, PlainOf DEF Thread
  <2> QED BY <2>1, <1>3, HartFacts
<1>5. \A d \in Cpu : running[d] # c
  BY <1>1, SchedulerFree
<1>6. UNCHANGED <<locks, intr, noff, intena>> /\ running' = [running EXCEPT ![c] = c]
  BY DEF Sched, harts
<1>7. /\ saved' \in [Process -> BOOLEAN \cup {None}] /\ saved'[p] = intena[c]
      /\ \A q \in Process : q # p => saved'[q] = saved[q]
  BY HartFacts DEF Sched
<1>8. intena' \in [Cpu -> BOOLEAN] /\ \A d \in Cpu : d # c => intena'[d] = intena[d]
  BY <1>6, HartFacts
<1>9. HartFree(c, c, script'[c], script'[c], Owned(c), noff[c], intr[c], intena'[c])
  BY <1>2, <1>4, <1>6
<1>10. /\ running[c] \in Process => WaitOK(running[c], u, saved'[running[c]])
       /\ \A q \in Process : q # c /\ q # running[c] => saved'[q] = saved[q]
  BY <1>1, <1>2, <1>7
<1>11. saved' \in [Process -> BOOLEAN \cup {None}]
  BY <1>7
<1>12. UNCHANGED <<locks, intr, noff>>
  BY <1>6
<1>13. SwitchTo(c, c, u)
  BY <1>3, <1>5, <1>6, <1>8, <1>9, <1>10, <1>11, <1>12 DEF SwitchTo
<1> QED BY <1>13, Switches

LEMMA StepExit ==
  ASSUME SpinInv, NEW c \in Cpu, NEW p \in Process, Exit(c, p)
  PROVE  SpinInv'
<1> DEFINE u == Tail(Todo(c))
<1>1. running[c] = p /\ Todo(c) # <<>> /\ Head(Todo(c)) = <<"exit", p>>
  BY DEF Exit, At, Todo
<1>2. /\ HartFree(c, c, script[c], script[c], Owned(c), noff[c], intr[c], intena[c])
      /\ WaitOK(p, u, None)
  <2>1. /\ noff[c] \in Nat /\ intr[c] \in BOOLEAN /\ intena[c] \in BOOLEAN
        /\ HartOK(c, running[c], Todo(c), script[c], Owned(c), noff[c], intr[c], intena[c])
    BY HartFacts
  <2> QED BY <1>1, <2>1, HartExit
<1>3. script' = [script EXCEPT ![running[c]] = u] /\ u \in Seq(Steps)
  BY <1>1, RestLeft, HartFacts DEF Exit, Becomes, Todo
<1> HIDE DEF u
<1>4. script'[c] = script[c]
  <2>1. c # running[c] /\ c \in Thread
    BY <1>1, PlainOf DEF Thread
  <2> QED BY <2>1, <1>3, HartFacts
<1>5. \A d \in Cpu : running[d] # c
  BY <1>1, SchedulerFree
<1>6. UNCHANGED <<locks, intr, noff, intena>> /\ running' = [running EXCEPT ![c] = c]
  BY DEF Exit, harts
<1>7. /\ saved' \in [Process -> BOOLEAN \cup {None}] /\ saved'[p] = None
      /\ \A q \in Process : q # p => saved'[q] = saved[q]
  BY HartFacts DEF Exit
<1>8. intena' \in [Cpu -> BOOLEAN] /\ \A d \in Cpu : d # c => intena'[d] = intena[d]
  BY <1>6, HartFacts
<1>9. HartFree(c, c, script'[c], script'[c], Owned(c), noff[c], intr[c], intena'[c])
  BY <1>2, <1>4, <1>6
<1>10. /\ running[c] \in Process => WaitOK(running[c], u, saved'[running[c]])
       /\ \A q \in Process : q # c /\ q # running[c] => saved'[q] = saved[q]
  BY <1>1, <1>2, <1>7
<1>11. saved' \in [Process -> BOOLEAN \cup {None}]
  BY <1>7
<1>12. UNCHANGED <<locks, intr, noff>>
  BY <1>6
<1>13. SwitchTo(c, c, u)
  BY <1>3, <1>5, <1>6, <1>8, <1>9, <1>10, <1>11, <1>12 DEF SwitchTo
<1> QED BY <1>13, Switches

LEMMA StepSwtch ==
  ASSUME SpinInv, NEW c \in Cpu, NEW p \in Process, Swtch(c, p)
  PROVE  SpinInv'
<1> DEFINE u == Tail(Todo(c))
<1>1. Todo(c) # <<>> /\ Head(Todo(c)) = <<"swtch", p>>
  BY DEF Swtch, At, Todo
<1>2. /\ noff[c] \in Nat /\ intr[c] \in BOOLEAN /\ intena[c] \in BOOLEAN
      /\ HartOK(c, running[c], Todo(c), script[c], Owned(c), noff[c], intr[c], intena[c])
  BY HartFacts
<1>3. running[c] \in Cpu
  BY <1>1, <1>2, HartSwtch
<1>4. running[c] = c /\ c \notin Process /\ c \in Thread
  BY <1>3, PlainOf DEF SpinInv, Apart, Thread
<1>5. /\ HartFree(c, c, u, u, Owned(c), noff[c], intr[c], intena[c])
      /\ \A w, v : WaitOK(p, w, v) =>
           HartFree(c, p, w, u, Owned(c), noff[c], intr[c], IF v # None THEN v ELSE intena[c])
  BY <1>1, <1>2, <1>4, HartSwtch
<1>6. script' = [script EXCEPT ![running[c]] = u] /\ u \in Seq(Steps)
  BY <1>1, RestLeft, HartFacts DEF Swtch, Becomes, Todo
<1> HIDE DEF u
<1>7. script'[c] = u /\ script'[p] = script[p]
  BY <1>4, <1>6, HartFacts DEF Thread
<1>8. UNCHANGED <<locks, intr, noff>>
  BY DEF Swtch
<1>9. CASE /\ p \notin {running[d] : d \in Cpu}
           /\ running' = [running EXCEPT ![c] = p]
           /\ intena' = IF saved[p] # None THEN [intena EXCEPT ![c] = saved[p]] ELSE intena
           /\ saved' = [saved EXCEPT ![p] = FALSE]
  <2>1. WaitOK(p, script[p], saved[p]) /\ \A d \in Cpu : running[d] # p
    BY <1>9 DEF SpinInv, WaitInv
  <2>2. /\ intena' \in [Cpu -> BOOLEAN] /\ \A d \in Cpu : d # c => intena'[d] = intena[d]
        /\ intena'[c] = IF saved[p] # None THEN saved[p] ELSE intena[c]
    <3>1. saved[p] \in BOOLEAN \cup {None} /\ intena \in [Cpu -> BOOLEAN]
      BY HartFacts
    <3>2. CASE saved[p] # None
      BY <1>9, <3>1, <3>2
    <3>3. CASE saved[p] = None
      BY <1>9, <3>1, <3>3
    <3> QED BY <3>2, <3>3
  <2>3. HartFree(c, p, script'[p], script'[c], Owned(c), noff[c], intr[c], intena'[c])
    BY <1>5, <1>7, <2>1, <2>2
  <2>4. /\ saved' \in [Process -> BOOLEAN \cup {None}]
        /\ \A q \in Process : q # p /\ q # running[c] => saved'[q] = saved[q]
    BY <1>9, HartFacts
  <2>5. running[c] \in Process => WaitOK(running[c], u, saved'[running[c]])
    BY <1>4
  <2>6. running' = [running EXCEPT ![c] = p] /\ \A d \in Cpu : running[d] # p
    BY <1>9, <2>1
  <2>7. intena' \in [Cpu -> BOOLEAN] /\ \A d \in Cpu : d # c => intena'[d] = intena[d]
    BY <2>2
  <2>8. SwitchTo(c, p, u)
    BY <1>6, <1>8, <2>3, <2>4, <2>5, <2>6, <2>7 DEF SwitchTo
  <2> QED BY <2>8, Switches
<1>10. CASE UNCHANGED <<running, intena, saved>>
  <2>1. HartFree(c, running[c], u, script[c], Owned(c), noff[c], intr'[c], intena[c])
    BY <1>4, <1>5, <1>8, HartAny DEF HartFree
  <2>2. intr' \in [Cpu -> BOOLEAN] /\ \A d \in Cpu : d # c => intr'[d] = intr[d]
    BY <1>8, HartFacts
  <2>3. UNCHANGED <<running, saved, locks, noff, intena>>
    BY <1>8, <1>10
  <2> QED BY <1>6, <2>1, <2>2, <2>3, Goes
<1> QED BY <1>9, <1>10 DEF Swtch

\* The invariant is inductive: one step of one hart, action by action.
LEMMA SpinStep ==
  ASSUME SpinInv, [SpinNext]_spinVars
  PROVE  SpinInv'
<1>1. CASE UNCHANGED spinVars
  <2> USE <1>1 DEF spinVars, locks, harts
  <2>1. TypeOK' /\ Apart'
    BY DEF SpinInv, TypeOK, Apart
  <2>2. ClaimOK'
    BY DEF SpinInv, ClaimOK, Claims, Todo
  <2>3. ASSUME NEW c \in Cpu PROVE HartInv(c)'
    <3>1. Todo(c)' = Todo(c) /\ Owned(c)' = Owned(c)
      BY DEF Todo, Owned
    <3> QED BY <3>1 DEF SpinInv, HartInv
  <2>4. ASSUME NEW p \in Process PROVE WaitInv(p)'
    BY DEF SpinInv, WaitInv
  <2> QED BY <2>1, <2>2, <2>3, <2>4 DEF SpinInv
<1>2. ASSUME NEW c \in Cpu, NEW l \in Lock,
             PushOff(c, l) \/ TestAndSet(c, l) \/ Own(c, l) \/ Disown(c, l) \/ Unlock(c, l)
      PROVE  SpinInv'
  BY <1>2, StepPushOff, StepTestAndSet, StepOwn, StepDisown, StepUnlock
<1>3. ASSUME NEW c \in Cpu, NEW p \in Process,
             Sched(c, p) \/ Exit(c, p) \/ Swtch(c, p) \/ Syscall(c, p)
      PROVE  SpinInv'
  BY <1>3, StepSched, StepExit, StepSwtch, StepSyscall
<1>4. ASSUME NEW c \in Cpu, Loop(c) \/ Interrupt(c)
      PROVE  SpinInv'
  BY <1>4, StepLoop, StepInterrupt
<1>5. ASSUME NEW c \in Cpu, NEW mode \in {"user", "kernel"}, Sret(c, mode)
      PROVE  SpinInv'
  BY <1>5, StepSret
<1> QED BY <1>1, <1>2, <1>3, <1>4, <1>5 DEF SpinNext

-----------------------------------------------------------------------------

\* What the invariant says of one hart is what LocksNest asks of it.
LEMMA NestOfOne ==
  ASSUME SpinInv, NEW c \in Cpu
  PROVE  /\ noff[c] = Has(c)
         /\ noff[c] > 0 \/ InHandler(running[c]) => ~intr[c]
         /\ running[c] \in Process /\ noff[c] = 0 /\ Op(c) # "sret" /\ ~InHandler(running[c]) => intr[c]
         /\ \A l \in Lock : /\ At(c, "acquire", l) => ~Holding(c, l)
                            /\ At(c, "release", l) => Holding(c, l)
         /\ Op(c) \in {"sched", "exit"} => noff[c] = 1 /\ Holding(c, running[c])
<1> DEFINE s == Todo(c)
           t == running[c]
           G == Owned(c)
<1>1. /\ HartOK(c, t, s, script[c], G, noff[c], intr[c], intena[c]) /\ s \in Seq(Steps)
      /\ noff[c] \in Nat /\ intr[c] \in BOOLEAN /\ intena[c] \in BOOLEAN /\ t \in Thread
  BY HartFacts
<1>2. Op(c) = OpOf(s) /\ (InHandler(t) <=> Occurs(SretK, s))
  BY DEF Op, OpOf, Todo, InHandler, Occurs, SretK
<1>3. \A l \in Lock : l \in G <=> owner[l] = c
  BY DEF Owned
<1> HIDE DEF s, t, G
<1>4. PICK m \in Mode : Good(t, RestOf(s), WillOwn(s, G), m) /\ IntrOK(noff[c], intr[c], intena[c], m)
  BY <1>1 DEF HartOK
<1>5. noff[c] = Has(c)
  <2>1. Has(c) = Cardinality(G) + (IF OpOf(s) \in Half THEN 1 ELSE 0)
    BY <1>2 DEF Has, Half, G, Owned
  <2> QED BY <1>1, <2>1 DEF HartOK
<1>6. Occurs(SretK, s) <=> m = "off"
  <2>1. Occurs(SretK, RestOf(s)) <=> m = "off"
    BY <1>4, GoodStep DEF Fit
  <2>2. CASE OpOf(s) \in Half
    <3>1. s # <<>> /\ Head(s) # SretK /\ Head(s) = s[1]
      BY <2>2, <1>1 DEF OpOf, Half, SretK
    <3>2. /\ RestOf(s) = Tail(s) /\ Len(Tail(s)) = Len(s) - 1
          /\ \A k \in 1..Len(Tail(s)) : Tail(s)[k] = s[k + 1]
      BY <2>2, <3>1, <1>1 DEF RestOf
    <3>3. ASSUME NEW k \in DOMAIN s, s[k] = SretK PROVE Occurs(SretK, Tail(s))
      <4>1. k \in 1..Len(s) /\ k # 1
        BY <3>1, <3>3, <1>1
      <4>2. k - 1 \in 1..Len(Tail(s)) /\ (k - 1) + 1 = k
        BY <4>1, <3>2, <1>1
      <4>3. k - 1 \in DOMAIN Tail(s) /\ Tail(s)[k - 1] = SretK
        BY <4>2, <3>2, <3>3, <1>1
      <4> QED BY <4>3 DEF Occurs
    <3>4. ASSUME NEW k \in DOMAIN Tail(s), Tail(s)[k] = SretK PROVE Occurs(SretK, s)
      <4>1. k \in 1..Len(Tail(s)) /\ k + 1 \in DOMAIN s
        BY <3>1, <3>2, <1>1
      <4> QED BY <4>1, <3>2, <3>4 DEF Occurs
    <3> QED BY <2>1, <3>2, <3>3, <3>4 DEF Occurs
  <2>3. CASE OpOf(s) \notin Half
    BY <2>1, <2>3 DEF RestOf
  <2> QED BY <2>2, <2>3
<1>7. noff[c] > 0 \/ InHandler(running[c]) => ~intr[c]
  BY <1>2, <1>4, <1>6 DEF IntrOK, t
<1>8. ASSUME running[c] \in Process, noff[c] = 0, Op(c) # "sret", ~InHandler(running[c])
      PROVE  intr[c]
  <2>1. m # "off"
    BY <1>2, <1>6, <1>8 DEF t
  <2>2. CASE m = "on"
    BY <2>2, <1>4, <1>8 DEF IntrOK
  <2>3. CASE m = "any"
    <3>1. OpOf(s) \notin Half /\ Cardinality(G) = 0
      BY <1>1, <1>8, FS_CardinalityType DEF HartOK
    <3>2. G = {} /\ RestOf(s) = s /\ WillOwn(s, G) = G
      BY <3>1, <1>1, FS_EmptySet DEF HartOK, RestOf, WillOwn, Half
    <3>3. Fit(t, s, {}, "any")
      BY <3>2, <2>3, <1>4, GoodStep
    <3>4. s # <<>> /\ t \in Process
      BY <3>3, <1>8, PlainOf DEF Fit, t
    <3>5. Fits(t, Head(s), {}, "any") /\ t \notin Cpu
      BY <3>3, <3>4, PlainOf DEF Fit
    <3>6. Head(s) = SretU
      BY <3>4, <3>5 DEF Fits
    <3> QED BY <3>4, <3>6, <1>2, <1>8 DEF OpOf, SretU
  <2> QED BY <2>1, <2>2, <2>3 DEF Mode
<1>9. ASSUME NEW l \in Lock
      PROVE  /\ At(c, "acquire", l) => ~Holding(c, l)
             /\ At(c, "release", l) => Holding(c, l)
  <2>1. ASSUME At(c, "acquire", l) PROVE ~Holding(c, l)
    <3>1. s # <<>> /\ Head(s) = Acq(l)
      BY <2>1 DEF At, s, Todo, Acq
    <3>2. l \notin G
      BY <3>1, <1>1, HartPushOff
    <3> QED BY <3>2, <1>3 DEF Holding
  <2>2. ASSUME At(c, "release", l) PROVE Holding(c, l)
    <3>1. s # <<>> /\ Head(s) = Rel(l)
      BY <2>2 DEF At, s, Todo, Rel
    <3>2. l \in G
      BY <3>1, <1>1, HartDisown
    <3>3. owner[l] = c /\ c # None
      BY <3>2, <1>3, HartFacts
    <3> QED BY <3>3 DEF Holding, SpinInv, ClaimOK
  <2> QED BY <2>1, <2>2
<1>10. ASSUME Op(c) \in {"sched", "exit"}
       PROVE  noff[c] = 1 /\ Holding(c, running[c])
  <2>1. s # <<>> /\ OpOf(s) \notin Half /\ Head(s)[1] \in {"sched", "exit"}
    BY <1>2, <1>10 DEF OpOf, Half
  <2>2. Good(t, s, G, m) /\ s \in Seq(Ops)
    BY <2>1, <1>4 DEF RestOf, WillOwn, Half, Good
  <2>3. Head(s) \in Ops
    BY <2>1, <2>2
  <2>4. PICK p \in Process : Head(s) = <<"sched", p>> \/ Head(s) = <<"exit", p>>
    BY <2>1, <2>3 DEF Ops, SretK, SretU
  <2>5. p = t /\ G = {p} /\ noff[c] = 1
    BY <2>1, <2>4, <1>1, HartSched, HartExit
  <2>6. p \in Lock /\ owner[p] = c /\ c # None
    BY <2>5, <1>3, HartFacts DEF Lock
  <2>7. locked[p]
    BY <2>6 DEF SpinInv, ClaimOK
  <2> QED BY <2>5, <2>6, <2>7 DEF Holding, t
<1> QED BY <1>5, <1>7, <1>8, <1>9, <1>10

\* acquire(), release(), push_off(), pop_off(), sched() and swtch(): on any number of harts,
\* with any number of processes, interrupts and locks fit together, and no panic() of
\* spinlock.c or of sched() is reached.
THEOREM LocksNestAlways == SpinSpec => []LocksNest
<1>1. SpinInv => LocksNest
  BY NestOfOne DEF LocksNest
<1> QED BY <1>1, SpinInitially, SpinStep, PTL DEF SpinSpec

=============================================================================
