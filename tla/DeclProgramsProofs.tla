------------------------- MODULE DeclProgramsProofs -------------------------
(***************************************************************************)
(* Proofs about DeclPrograms, for any applications, programs created at    *)
(* run time, names under which they are replaced, images, palettes and     *)
(* texts, in a process that creates one GL context: a draw runs the        *)
(* program it was asked for, and what GL holds is what the registry owns.  *)
(***************************************************************************)
EXTENDS DeclPrograms, FiniteSetTheorems, WellFoundedInduction, TLAPS

-----------------------------------------------------------------------------
(* The shapes of the records.                                              *)

Context(up, programs, doomed, current, units, active, objects) ==
  [up |-> up, programs |-> programs, doomed |-> doomed, current |-> current,
   units |-> units, active |-> active, objects |-> objects]

IsContext(g) ==
  g = Context(g.up, g.programs, g.doomed, g.current, g.units, g.active, g.objects)

Program(what, samplers, values) == [what |-> what, samplers |-> samplers, values |-> values]

IsProgram(p) == p = Program(p.what, p.samplers, p.values)

Held(id, what, made, enabled, stream, quads, indices) ==
  [id |-> id, what |-> what, made |-> made, enabled |-> enabled, stream |-> stream,
   quads |-> quads, indices |-> indices]

IsObject(o) == o = Held(o.id, o.what, o.made, o.enabled, o.stream, o.quads, o.indices)

LEMMA OverFacts ==
  ASSUME NEW f, NEW g
  PROVE  /\ DOMAIN Over(f, g) = DOMAIN f \cup DOMAIN g
         /\ \A k \in DOMAIN f : Over(f, g)[k] = f[k]
         /\ \A k \in DOMAIN g : k \notin DOMAIN f => Over(f, g)[k] = g[k]
BY DEF Over

(* What gl.useProgram leaves of a context.                                 *)
LEMMA UseProgramFacts ==
  ASSUME NEW g, IsContext(g), NEW id
  PROVE  LET h == UseProgram(g, id)
             freed == g.doomed \cap {g.current}
         IN h = Context(g.up, [p \in DOMAIN g.programs \ freed |-> g.programs[p]],
                        g.doomed \ freed, id, g.units, g.active, g.objects)
<1> DEFINE freed == g.doomed \cap {g.current}
           ps == [p \in DOMAIN g.programs \ freed |-> g.programs[p]]
           d == g.doomed \ freed
           g1 == [g EXCEPT !.current = id]
           g2 == [g1 EXCEPT !.doomed = d]
<1>1. UseProgram(g, id) = [g2 EXCEPT !.programs = ps]
  BY DEF UseProgram
<1> HIDE DEF ps, d
<1>2. g1 = Context(g.up, g.programs, g.doomed, id, g.units, g.active, g.objects)
  BY DEF IsContext, Context
<1> HIDE DEF g1
<1>3. g2 = Context(g.up, g.programs, d, id, g.units, g.active, g.objects)
  BY <1>2 DEF Context
<1> HIDE DEF g2
<1>4. [g2 EXCEPT !.programs = ps] = Context(g.up, ps, d, id, g.units, g.active, g.objects)
  BY <1>3 DEF Context
<1> QED BY <1>1, <1>4 DEF ps, d

(* What setting the uniforms of a draw tells the program and the units.    *)
On(what, list) == {i \in DOMAIN list : Active(what, list[i][1])}

UnitOf(on, i) == Cardinality({j \in on : j < i})

ToldUnits(what, list) ==
  LET on == On(what, list)
  IN [k \in {list[i][1] : i \in on} |-> UnitOf(on, CHOOSE i \in on : list[i][1] = k)]

ToldValues(what, s) == [k \in {k \in DOMAIN s.values : Active(what, k)} |-> s.values[k]]

UnitsAfter(units, what, list) ==
  LET on == On(what, list)
  IN [u \in Unit |-> IF \E i \in on : UnitOf(on, i) = u
                     THEN list[CHOOSE i \in on : UnitOf(on, i) = u][2] ELSE units[u]]

ActiveAfter(active, what, list) ==
  LET on == On(what, list) IN IF on = {} THEN active ELSE Cardinality(on) - 1

LEMMA SetUniformsFacts ==
  ASSUME NEW g, IsContext(g), g.current # None,
         g.current \in DOMAIN g.programs, NEW what, NEW s
  PROVE  SetUniforms(g, what, s) =
           Context(g.up, [g.programs EXCEPT ![g.current] =
                            Supplied(g.programs[g.current], ToldUnits(what, s.samplers),
                                     ToldValues(what, s))],
                   g.doomed, g.current, UnitsAfter(g.units, what, s.samplers),
                   ActiveAfter(g.active, what, s.samplers), g.objects)
<1> DEFINE to      == ToldUnits(what, s.samplers)
           values  == ToldValues(what, s)
           units   == UnitsAfter(g.units, what, s.samplers)
           active  == ActiveAfter(g.active, what, s.samplers)
           g1      == [g EXCEPT !.units = units]
           h       == [g1 EXCEPT !.active = active]
           ps      == [g.programs EXCEPT ![g.current] =
                         Supplied(g.programs[g.current], to, values)]
<1>1. SetUniforms(g, what, s) = [h EXCEPT !.programs[g.current] = Supplied(@, to, values)]
  BY DEF SetUniforms, On, UnitOf, ToldUnits, ToldValues, UnitsAfter, ActiveAfter
<1> HIDE DEF to, values, units, active
<1>2. g1 = Context(g.up, g.programs, g.doomed, g.current, units, g.active, g.objects)
  BY DEF IsContext, Context
<1> HIDE DEF g1
<1>3. h = Context(g.up, g.programs, g.doomed, g.current, units, active, g.objects)
  BY <1>2 DEF Context
<1> HIDE DEF h
<1>4. [h EXCEPT !.programs[g.current] = Supplied(@, to, values)]
        = Context(g.up, ps, g.doomed, g.current, units, active, g.objects)
  BY <1>3 DEF Context
<1>5. SetUniforms(g, what, s)
        = Context(g.up, ps, g.doomed, g.current, units, active, g.objects)
  BY <1>1, <1>4
<1> QED BY <1>5 DEF to, values, units, active

LEMMA SuppliedFacts ==
  ASSUME NEW p, IsProgram(p), NEW to, NEW values
  PROVE  Supplied(p, to, values) = Program(p.what, Over(to, p.samplers), Over(values, p.values))
<1> DEFINE a == Over(to, p.samplers)
           b == Over(values, p.values)
           q == [p EXCEPT !.samplers = a]
<1>1. Supplied(p, to, values) = [q EXCEPT !.values = b]
  BY DEF Supplied
<1> HIDE DEF a, b
<1>2. q = Program(p.what, a, p.values)
  BY DEF IsProgram, Program
<1> HIDE DEF q
<1>3. [q EXCEPT !.values = b] = Program(p.what, a, b)
  BY <1>2 DEF Program
<1> QED BY <1>1, <1>3 DEF a, b

(* What filling its buffers leaves of an object.                           *)
Names(what, list) == {i \in DOMAIN list : Active(what, list[i].attr)}

PlaceOf(what, list, k) == CHOOSE i \in Names(what, list) : list[i].attr = k

Pieces(what, list) == [i \in Names(what, list) |-> Piece(list, Names(what, list), i)]

OfStreams(what, list) ==
  [k \in {list[i].attr : i \in Names(what, list)} |->
     LET i == PlaceOf(what, list, k)
     IN [from |-> "stream", at |-> Pieces(what, list)[i].at, comps |-> list[i].comps]]

OfStatics(what, list) ==
  [k \in {list[i].attr : i \in Names(what, list)} |->
     LET i == PlaceOf(what, list, k)
     IN [from |-> "static", at |-> Storage(list[i]), comps |-> list[i].comps]]

Used(what, s) == Over(OfStreams(what, s.streams), OfStatics(what, s.statics))

StreamAfter(o, s) ==
  Written(IF \E i \in DOMAIN s.streams : Size(s.streams[i]) > 0 THEN {} ELSE o.stream,
          Pieces(o.what, s.streams))

QuadsAfter(o, s) == o.quads \cup {Storage(s.statics[i]) : i \in Names(o.what, s.statics)}

IndicesAfter(o, s) ==
  o.indices \cup (IF s.quad THEN {[data |-> s.indices.data, n |-> s.count]} ELSE {})

LEMMA SetArraysFacts ==
  ASSUME NEW o, IsObject(o), NEW s
  PROVE  SetArrays(o, s) = Held(o.id, o.what, TRUE, Used(o.what, s), StreamAfter(o, s),
                                QuadsAfter(o, s), IndicesAfter(o, s))
<1> DEFINE used    == Used(o.what, s)
           stream  == StreamAfter(o, s)
           quads   == QuadsAfter(o, s)
           indices == IndicesAfter(o, s)
           yes == TRUE
           o1 == [o EXCEPT !.made = yes]
           o2 == [o1 EXCEPT !.quads = quads]
           o3 == [o2 EXCEPT !.stream = stream]
           o4 == [o3 EXCEPT !.enabled = used]
<1>1. SetArrays(o, s) = [o4 EXCEPT !.indices = indices]
  BY DEF SetArrays, Names, PlaceOf, Pieces, Used, OfStreams, OfStatics, StreamAfter, QuadsAfter,
     IndicesAfter
<1> HIDE DEF quads, stream, indices, used, yes
<1>3. o1 = Held(o.id, o.what, yes, o.enabled, o.stream, o.quads, o.indices)
  BY DEF IsObject, Held
<1> HIDE DEF o1
<1>4. o2 = Held(o.id, o.what, yes, o.enabled, o.stream, quads, o.indices)
  BY <1>3 DEF Held
<1> HIDE DEF o2
<1>5. o3 = Held(o.id, o.what, yes, o.enabled, stream, quads, o.indices)
  BY <1>4 DEF Held
<1> HIDE DEF o3
<1>6. o4 = Held(o.id, o.what, yes, used, stream, quads, o.indices)
  BY <1>5 DEF Held
<1> HIDE DEF o4
<1>7. [o4 EXCEPT !.indices = indices] = Held(o.id, o.what, yes, used, stream, quads, indices)
  BY <1>6 DEF Held
<1>8. SetArrays(o, s) = Held(o.id, o.what, yes, used, stream, quads, indices)
  BY <1>1, <1>7
<1> QED BY <1>8 DEF used, stream, quads, indices, yes

-----------------------------------------------------------------------------
(* The programs GL holds and those of the registry.                        *)

IsWhat(what) ==
  \/ \E b \in Builtins : what = Builtin(b)
  \/ \E source \in DOMAIN Dynamics : what = Dynamic(source)

Registers(g, reg) ==
  /\ \A n \in DOMAIN reg :
       /\ IsObject(reg[n]) /\ IsWhat(reg[n].what)
       /\ reg[n].id \in DOMAIN g.programs /\ reg[n].id \notin g.doomed
       /\ g.programs[reg[n].id].what = reg[n].what
  /\ \A m, n \in DOMAIN reg : reg[m].id = reg[n].id => m = n

Keeps(g, reg) ==
  /\ \A p \in DOMAIN g.programs :
       /\ p \in Nat /\ IsProgram(g.programs[p])
       /\ p \in g.doomed \/ \E n \in DOMAIN reg : reg[n].id = p
  /\ g.doomed \subseteq {g.current} /\ g.doomed \subseteq DOMAIN g.programs
  /\ g.current \in DOMAIN g.programs \cup {None}

Agree(g, reg) == IsContext(g) /\ Registers(g, reg) /\ Keeps(g, reg)

LEMMA ContextFields ==
  ASSUME NEW up, NEW programs, NEW doomed, NEW current, NEW units, NEW active, NEW objects
  PROVE  LET g == Context(up, programs, doomed, current, units, active, objects)
         IN /\ IsContext(g) /\ g.up = up /\ g.programs = programs /\ g.doomed = doomed
            /\ g.current = current /\ g.units = units /\ g.active = active
            /\ g.objects = objects
BY DEF Context, IsContext

(* Using a program keeps the agreement: what was deleted while current goes. *)
LEMMA UseProgramAgrees ==
  ASSUME NEW g, NEW reg, Agree(g, reg), NEW name \in DOMAIN reg
  PROVE  LET h == UseProgram(g, reg[name].id)
         IN /\ Agree(h, reg) /\ h.current = reg[name].id
            /\ h.up = g.up /\ h.units = g.units /\ h.active = g.active
            /\ h.objects = g.objects
            /\ \A p \in DOMAIN h.programs : p \in DOMAIN g.programs /\ h.programs[p] = g.programs[p]
<1> DEFINE id == reg[name].id
           h  == UseProgram(g, id)
           ps == [p \in DOMAIN g.programs \ g.doomed |-> g.programs[p]]
<1>1. h = Context(g.up, ps, {}, id, g.units, g.active, g.objects)
  <2>1. g.doomed \cap {g.current} = g.doomed /\ g.doomed \ g.doomed = {}
    BY DEF Agree, Keeps
  <2>2. h = Context(g.up, [p \in DOMAIN g.programs \ (g.doomed \cap {g.current}) |-> g.programs[p]],
                    g.doomed \ (g.doomed \cap {g.current}), id, g.units, g.active, g.objects)
    BY UseProgramFacts DEF Agree
  <2> QED BY <2>1, <2>2
<1>2. /\ IsContext(h) /\ h.up = g.up /\ h.programs = ps /\ h.doomed = {}
      /\ h.current = id /\ h.units = g.units /\ h.active = g.active /\ h.objects = g.objects
  <2> HIDE DEF h, ps, id
  <2> QED BY <1>1, ContextFields
<1> HIDE DEF h
<1>3. Registers(h, reg)
  BY <1>2 DEF Agree, Registers
<1>4. Keeps(h, reg)
  BY <1>2 DEF Agree, Registers, Keeps
<1>5. \A p \in DOMAIN h.programs : p \in DOMAIN g.programs /\ h.programs[p] = g.programs[p]
  BY <1>2
<1> QED BY <1>2, <1>3, <1>4, <1>5 DEF Agree, h

(* Setting uniforms changes no program but what its samplers and values are. *)
LEMMA SetUniformsAgrees ==
  ASSUME NEW g, NEW reg, Agree(g, reg), NEW name \in DOMAIN reg, g.current = reg[name].id,
         None \notin Nat, NEW what, NEW s
  PROVE  LET h == SetUniforms(g, what, s)
         IN /\ Agree(h, reg) /\ h.current = g.current /\ h.up = g.up /\ h.objects = g.objects
<1> DEFINE c == g.current
           h == SetUniforms(g, what, s)
<1>1. /\ IsContext(g) /\ c # None /\ c \in DOMAIN g.programs /\ IsProgram(g.programs[c])
  BY DEF Agree, Registers, Keeps
<1> DEFINE to      == ToldUnits(what, s.samplers)
           values  == ToldValues(what, s)
           units   == UnitsAfter(g.units, what, s.samplers)
           active  == ActiveAfter(g.active, what, s.samplers)
<1>2. h = Context(g.up, [g.programs EXCEPT ![c] = Supplied(g.programs[c], to, values)],
                  g.doomed, c, units, active, g.objects)
  BY <1>1, SetUniformsFacts
<1> HIDE DEF to, values, units, active
<1> DEFINE new == Program(g.programs[c].what, Over(to, g.programs[c].samplers),
                          Over(values, g.programs[c].values))
           ps == [g.programs EXCEPT ![c] = new]
<1>3. h = Context(g.up, ps, g.doomed, c, units, active, g.objects)
  BY <1>1, <1>2, SuppliedFacts
<1>4. IsProgram(new) /\ new.what = g.programs[c].what
  BY DEF IsProgram, Program
<1> HIDE DEF new
<1>5. /\ IsContext(h) /\ h.up = g.up /\ h.programs = ps /\ h.doomed = g.doomed
      /\ h.current = c /\ h.objects = g.objects
  <2> HIDE DEF h, ps, c
  <2> QED BY <1>3, ContextFields
<1> HIDE DEF h
<1>6. Registers(h, reg)
  BY <1>1, <1>4, <1>5 DEF Agree, Registers
<1>7. Keeps(h, reg)
  BY <1>1, <1>4, <1>5 DEF Agree, Keeps
<1> QED BY <1>5, <1>6, <1>7 DEF Agree, h

-----------------------------------------------------------------------------
(* The streamed arrays of a draw lie one after the other.                  *)

(* A set of natural numbers that is not empty has a smallest member.       *)
LEMMA SmallestOf ==
  ASSUME NEW T \in SUBSET Nat, T # {}
  PROVE  \E t \in T : \A u \in T : t <= u
<1> DEFINE Less == {p \in Nat \X Nat : p[1] < p[2]}
<1>1. IsWellFoundedOn(Less, Nat)
  BY NatLessThanWellFounded DEF OpToRel
<1>2. PICK t \in T : \A u \in T : ~ (<<u, t>> \in Less)
  <2> HIDE DEF Less
  <2> QED BY <1>1, WFMin
<1>3. ASSUME NEW u \in T PROVE t <= u
  <2>1. t \in Nat /\ u \in Nat
    OBVIOUS
  <2>2. <<u, t>> \notin Less
    BY <1>2
  <2>3. ~ (u < t)
    BY <2>1, <2>2
  <2> QED BY <2>1, <2>3
<1> QED BY <1>3

(* The offsets are a running sum of the sizes: it exists, for every place  *)
(* it exists up to that place, and it never goes down.                     *)
LEMMA OffsetFacts ==
  ASSUME NEW list, NEW on \in SUBSET (Nat \ {0}), \A i \in on : Size(list[i]) \in Nat
  PROVE  /\ \A i \in on : OffsetOf(list, on, i) \in Nat
         /\ \A i, j \in on :
              i < j => OffsetOf(list, on, i) + Size(list[i]) <= OffsetOf(list, on, j)
<1> DEFINE Grows(k) == IF k \in on THEN Size(list[k]) ELSE 0
           Upto(h, k) == /\ h \in [0..k -> Nat] /\ h[0] = 0
                         /\ \A j \in 1..k : h[j] = h[j - 1] + Grows(j)
           Sum(k) == CHOOSE h : Upto(h, k)
           total  == [k \in Nat |-> Sum(k)[k]]
           end[k \in Nat] == IF k = 0 THEN 0
                             ELSE end[k - 1] + (IF k \in on THEN Size(list[k]) ELSE 0)
<1>1. ASSUME NEW k \in Nat PROVE Grows(k) \in Nat
  OBVIOUS
<1> HIDE DEF Grows
<1>2. ASSUME NEW k \in Nat PROVE \E h : Upto(h, k)
  <2> DEFINE Bad == {m \in Nat : ~ \E h : Upto(h, m)}
  <2>1. SUFFICES ASSUME Bad # {} PROVE FALSE
    OBVIOUS
  <2>2. PICK m \in Bad : \A n \in Bad : m <= n
    <3>1. Bad \in SUBSET Nat
      OBVIOUS
    <3> HIDE DEF Bad
    <3> QED BY <2>1, <3>1, SmallestOf
  <2>3. CASE m = 0
    <3>1. Upto([j \in 0..m |-> 0], m)
      BY <2>3
    <3> QED BY <2>2, <3>1
  <2>4. CASE m # 0
    <3>1. m \in Nat /\ m - 1 \in Nat /\ m - 1 \notin Bad
      <4> HIDE DEF Upto
      <4> QED BY <2>2, <2>4
    <3>2. PICK h : Upto(h, m - 1)
      BY <3>1
    <3> DEFINE next == [j \in 0..m |-> IF j = m THEN h[m - 1] + Grows(m) ELSE h[j]]
    <3>3. next \in [0..m -> Nat] /\ next[0] = 0
      <4>1. h[0] = 0 /\ \A j \in 0..(m - 1) : h[j] \in Nat
        BY <3>2
      <4>2. Grows(m) \in Nat
        BY <1>1, <3>1
      <4>3. h[m - 1] \in Nat
        BY <3>1, <4>1
      <4>4. \A j \in 0..m : j # m => j \in 0..(m - 1)
        BY <3>1
      <4> HIDE DEF Upto
      <4> QED BY <2>4, <3>1, <4>1, <4>2, <4>3, <4>4
    <3>4. ASSUME NEW j \in 1..m PROVE next[j] = next[j - 1] + Grows(j)
      BY <3>1, <3>2
    <3> HIDE DEF next
    <3>5. Upto(next, m)
      BY <3>3, <3>4
    <3> QED BY <2>2, <3>5
  <2> QED BY <2>3, <2>4
<1>3. ASSUME NEW k \in Nat, NEW m \in Nat, NEW g, NEW h, Upto(g, k), Upto(h, m), k <= m,
             NEW j \in 0..k
      PROVE  g[j] = h[j]
  <2> DEFINE Bad == {n \in 0..k : g[n] # h[n]}
  <2>1. SUFFICES ASSUME Bad # {} PROVE FALSE
    OBVIOUS
  <2>2. PICK n \in Bad : \A i \in Bad : n <= i
    <3>1. Bad \in SUBSET Nat
      OBVIOUS
    <3> HIDE DEF Bad
    <3> QED BY <2>1, <3>1, SmallestOf
  <2>3. n # 0 /\ n \in Nat /\ n \in 0..k
    BY <1>3, <2>2
  <2>4. n - 1 \in 0..k /\ n - 1 \notin Bad
    <3> HIDE DEF Upto
    <3> QED BY <2>2, <2>3
  <2>5. g[n] = g[n - 1] + Grows(n) /\ h[n] = h[n - 1] + Grows(n)
    BY <1>3, <2>3
  <2> QED BY <2>2, <2>4, <2>5
<1>4. ASSUME NEW k \in Nat PROVE Upto(Sum(k), k)
  <2> HIDE DEF Upto
  <2> QED BY <1>2
<1> HIDE DEF Sum
<1>5. total[0] = 0 /\ \A k \in Nat : total[k] \in Nat
  BY <1>4
<1>6. ASSUME NEW k \in Nat, k # 0 PROVE total[k] = total[k - 1] + Grows(k)
  <2>1. k - 1 \in Nat /\ k - 1 \in 0..(k - 1) /\ k - 1 <= k /\ k \in 1..k
    BY <1>6
  <2>2. Upto(Sum(k - 1), k - 1) /\ Upto(Sum(k), k)
    BY <1>4, <2>1
  <2>3. Sum(k - 1)[k - 1] = Sum(k)[k - 1]
    <3> HIDE DEF Upto
    <3> QED BY <1>3, <2>1, <2>2
  <2>4. Sum(k)[k] = Sum(k)[k - 1] + Grows(k)
    BY <2>1, <2>2
  <2> QED BY <2>1, <2>3, <2>4
<1>7. total = [k \in Nat |-> IF k = 0 THEN 0
                             ELSE total[k - 1] + (IF k \in on THEN Size(list[k]) ELSE 0)]
  <2>1. ASSUME NEW k \in Nat, k # 0
        PROVE  total[k] = total[k - 1] + (IF k \in on THEN Size(list[k]) ELSE 0)
    <3> HIDE DEF total
    <3> QED BY <1>6, <2>1 DEF Grows
  <2>2. total[0] = 0 /\ total = [k \in Nat |-> total[k]]
    BY <1>5
  <2> HIDE DEF total
  <2> QED BY <2>1, <2>2
<1>8. end = [k \in Nat |-> IF k = 0 THEN 0
                           ELSE end[k - 1] + (IF k \in on THEN Size(list[k]) ELSE 0)]
  <2> HIDE DEF total
  <2> QED BY <1>7
<1>9. \A i : OffsetOf(list, on, i) = end[i - 1]
  BY DEF OffsetOf
<1> HIDE DEF end, Upto, total
<1>10. end[0] = 0 /\ \A k \in Nat \ {0} : end[k] = end[k - 1] + Grows(k)
  <2>1. end[0] = 0
    BY <1>8
  <2>2. ASSUME NEW k \in Nat \ {0} PROVE end[k] = end[k - 1] + Grows(k)
    BY <1>8 DEF Grows
  <2> QED BY <2>1, <2>2
<1>11. \A k \in Nat : end[k] \in Nat
  <2> DEFINE Bad == {k \in Nat : end[k] \notin Nat}
  <2>1. SUFFICES ASSUME Bad # {} PROVE FALSE
    OBVIOUS
  <2>2. PICK k \in Bad : \A n \in Bad : k <= n
    <3>1. Bad \in SUBSET Nat
      OBVIOUS
    <3> HIDE DEF Bad
    <3> QED BY <2>1, <3>1, SmallestOf
  <2>3. k \in Nat \ {0}
    BY <1>10, <2>2
  <2>4. k - 1 \in Nat /\ k - 1 \notin Bad
    BY <2>2, <2>3
  <2> QED BY <1>1, <1>10, <2>2, <2>3, <2>4
<1>12. ASSUME NEW i \in Nat, NEW m \in Nat, i <= m PROVE end[i] <= end[m]
  <2> DEFINE Bad == {k \in Nat : i <= k /\ ~(end[i] <= end[k])}
  <2>1. SUFFICES ASSUME Bad # {} PROVE FALSE
    BY <1>12
  <2>2. PICK k \in Bad : \A n \in Bad : k <= n
    <3>1. Bad \in SUBSET Nat
      OBVIOUS
    <3> HIDE DEF Bad
    <3> QED BY <2>1, <3>1, SmallestOf
  <2>3. k \in Nat \ {0} /\ k # i
    BY <1>11, <2>2
  <2>4. k - 1 \in Nat /\ i <= k - 1 /\ k - 1 \notin Bad
    BY <2>2, <2>3
  <2>5. end[i] <= end[k - 1]
    BY <2>4
  <2>6. end[k] = end[k - 1] + Grows(k) /\ end[k - 1] \in Nat /\ Grows(k) \in Nat /\ end[i] \in Nat
    BY <1>1, <1>10, <1>11, <2>3, <2>4
  <2> QED BY <2>2, <2>5, <2>6
<1>13. ASSUME NEW i \in on PROVE OffsetOf(list, on, i) \in Nat
  BY <1>9, <1>11
<1>14. ASSUME NEW i \in on, NEW j \in on, i < j
       PROVE  OffsetOf(list, on, i) + Size(list[i]) <= OffsetOf(list, on, j)
  <2>1. i \in Nat \ {0} /\ j - 1 \in Nat /\ i <= j - 1
    BY <1>14
  <2>2. end[i] = end[i - 1] + Size(list[i])
    BY <1>10, <2>1 DEF Grows
  <2>3. end[i] <= end[j - 1]
    BY <1>12, <2>1
  <2> QED BY <1>9, <2>2, <2>3
<1> QED BY <1>13, <1>14

(* Every piece is still there when the last one is written: an attribute   *)
(* points to where the array it streams went.                              *)
LEMMA WrittenFacts ==
  ASSUME NEW what, NEW list, DOMAIN list \subseteq Nat \ {0},
         \A i \in DOMAIN list : Size(list[i]) \in Nat, NEW old,
         NEW i \in Names(what, list)
  PROVE  Pieces(what, list)[i] \in Written(old, Pieces(what, list))
<1> DEFINE on == Names(what, list)
           pieces == Pieces(what, list)
<1>1. on \in SUBSET (Nat \ {0}) /\ \A j \in on : Size(list[j]) \in Nat
  BY DEF Names
<1>2. ASSUME NEW j \in on, i < j PROVE Apart(pieces[i], pieces[j])
  <2>1. OffsetOf(list, on, i) + Size(list[i]) <= OffsetOf(list, on, j)
    BY <1>1, <1>2, OffsetFacts
  <2> QED BY <2>1 DEF Apart, Pieces, Piece
<1>3. DOMAIN pieces = on
  BY DEF Pieces
<1> QED BY <1>2, <1>3 DEF Written

-----------------------------------------------------------------------------
(* What is prepared can be drawn: at most as many textures as there are    *)
(* units, all of them textures, and arrays that have a size.               *)

Sound(what, s) ==
  /\ DOMAIN s.samplers \subseteq Nat /\ IsFiniteSet(On(what, s.samplers))
  /\ Cardinality(On(what, s.samplers)) <= 3
  /\ \A i \in DOMAIN s.samplers : s.samplers[i][2] \in Image \cup Palette
  /\ DOMAIN s.streams \subseteq Nat \ {0}
  /\ \A i \in DOMAIN s.streams : Size(s.streams[i]) \in Nat

LEMMA UnitFacts ==
  ASSUME NEW what, NEW s, Sound(what, s)
  PROVE  LET on == On(what, s.samplers)
         IN /\ \A i \in on : UnitOf(on, i) \in Unit
            /\ on # {} => Cardinality(on) - 1 \in Unit
<1> DEFINE on == On(what, s.samplers)
<1>1. on \in SUBSET Nat /\ IsFiniteSet(on) /\ Cardinality(on) \in Nat /\ Cardinality(on) <= 3
  <2>1. on \subseteq Nat /\ IsFiniteSet(on) /\ Cardinality(on) <= 3
    BY DEF Sound, On
  <2> QED BY <2>1, FS_CardinalityType
<1> HIDE DEF on
<1>2. ASSUME NEW i \in on PROVE UnitOf(on, i) \in Unit
  <2> DEFINE less == {j \in on : j < i}
             rest == on \ {i}
  <2>1. IsFiniteSet(rest) /\ Cardinality(rest) = Cardinality(on) - 1
    BY <1>1, FS_RemoveElement
  <2>2. less \subseteq rest
    BY <1>1
  <2>3. IsFiniteSet(less) /\ Cardinality(less) <= Cardinality(rest)
    BY <2>1, <2>2, FS_Subset
  <2>4. Cardinality(less) \in Nat
    BY <2>3, FS_CardinalityType
  <2> HIDE DEF less, rest
  <2>5. Cardinality(less) \in 0..2
    BY <1>1, <2>1, <2>3, <2>4
  <2> QED BY <2>5 DEF UnitOf, Unit, less
<1>3. on # {} => Cardinality(on) - 1 \in Unit
  BY <1>1, FS_EmptySet DEF Unit
<1> QED BY <1>2, <1>3 DEF on

Sampled(g) == \A p \in DOMAIN g.programs :
  \A k \in DOMAIN g.programs[p].samplers : g.programs[p].samplers[k] \in Unit

Lit(g) == g.units \in [Unit -> Image \cup Palette \cup {None}] /\ g.active \in Unit

LEMMA SetUniformsTypes ==
  ASSUME NEW g, IsContext(g), g.current # None, g.current \in DOMAIN g.programs,
         IsProgram(g.programs[g.current]), NEW what, NEW s, Sound(what, s), Sampled(g), Lit(g)
  PROVE  Sampled(SetUniforms(g, what, s)) /\ Lit(SetUniforms(g, what, s))
<1> DEFINE c == g.current
           h == SetUniforms(g, what, s)
           on == On(what, s.samplers)
           to      == ToldUnits(what, s.samplers)
           values  == ToldValues(what, s)
           units   == UnitsAfter(g.units, what, s.samplers)
           active  == ActiveAfter(g.active, what, s.samplers)
           new == Program(g.programs[c].what, Over(to, g.programs[c].samplers),
                          Over(values, g.programs[c].values))
           ps == [g.programs EXCEPT ![c] = new]
<1>1. h = Context(g.up, ps, g.doomed, c, units, active, g.objects)
  <2>1. h = Context(g.up, [g.programs EXCEPT ![c] = Supplied(g.programs[c], to, values)],
                    g.doomed, c, units, active, g.objects)
    BY SetUniformsFacts
  <2> HIDE DEF to, values, units, active
  <2> QED BY <2>1, SuppliedFacts
<1>2. h.programs = ps /\ h.units = units /\ h.active = active
  <2> HIDE DEF h, ps, c, units, active
  <2> QED BY <1>1, ContextFields
<1>3. (\A i \in on : UnitOf(on, i) \in Unit) /\ (on # {} => Cardinality(on) - 1 \in Unit)
  BY UnitFacts
<1>4. active \in Unit
  BY <1>3 DEF ActiveAfter, Lit
<1>5. units \in [Unit -> Image \cup Palette \cup {None}]
  <2>1. \A i \in on : s.samplers[i][2] \in Image \cup Palette
    BY DEF Sound, On
  <2>2. \A u \in Unit : g.units[u] \in Image \cup Palette \cup {None}
    BY DEF Lit
  <2>3. ASSUME NEW u \in Unit PROVE units[u] \in Image \cup Palette \cup {None}
    <3> HIDE DEF on
    <3>1. units[u] = IF \E i \in on : UnitOf(on, i) = u
                     THEN s.samplers[CHOOSE i \in on : UnitOf(on, i) = u][2] ELSE g.units[u]
      BY DEF UnitsAfter, on
    <3> QED BY <2>1, <2>2, <3>1
  <2>4. units = [u \in Unit |-> units[u]]
    BY DEF UnitsAfter
  <2> HIDE DEF units
  <2> QED BY <2>3, <2>4
<1>6. \A k \in DOMAIN to : to[k] \in Unit
  <2> HIDE DEF on
  <2>1. to = [k \in {s.samplers[i][1] : i \in on} |->
                UnitOf(on, CHOOSE i \in on : s.samplers[i][1] = k)]
    BY DEF ToldUnits, on
  <2> HIDE DEF to
  <2> QED BY <1>3, <2>1
<1> HIDE DEF to, values, units, active, on
<1>7. new.samplers = Over(to, g.programs[c].samplers)
  BY DEF Program
<1> DEFINE old == g.programs[c].samplers
<1>8. \A k \in DOMAIN new.samplers : new.samplers[k] \in Unit
  <2>1. \A k \in DOMAIN old : old[k] \in Unit
    BY DEF Sampled
  <2> HIDE DEF old, new
  <2>2. new.samplers = Over(to, old)
    BY <1>7 DEF old
  <2>3. /\ DOMAIN Over(to, old) = DOMAIN to \cup DOMAIN old
        /\ \A k \in DOMAIN to : Over(to, old)[k] = to[k]
        /\ \A k \in DOMAIN old : k \notin DOMAIN to => Over(to, old)[k] = old[k]
    BY OverFacts
  <2> QED BY <1>6, <2>1, <2>2, <2>3
<1> HIDE DEF new, h
<1>9. Sampled(h)
  BY <1>2, <1>8 DEF Sampled
<1>10. Lit(h)
  BY <1>2, <1>4, <1>5 DEF Lit
<1> QED BY <1>9, <1>10 DEF h

LEMMA SetArraysPoints ==
  ASSUME NEW o, IsObject(o), NEW s, Sound(o.what, s)
  PROVE  LET p == SetArrays(o, s)
         IN /\ IsObject(p) /\ p.id = o.id /\ p.what = o.what /\ Owned(o) \subseteq Owned(p)
            /\ \A k \in DOMAIN p.enabled : PointsInto(p, p.enabled[k])
<1> DEFINE p == SetArrays(o, s)
           used    == Used(o.what, s)
           stream  == StreamAfter(o, s)
           quads   == QuadsAfter(o, s)
           indices == IndicesAfter(o, s)
           pieces == Pieces(o.what, s.streams)
<1>1. p = Held(o.id, o.what, TRUE, used, stream, quads, indices)
  BY SetArraysFacts
<1>2. \A i \in Names(o.what, s.streams) : pieces[i] \in stream
  BY WrittenFacts DEF Sound, StreamAfter
<1>3. /\ o.quads \subseteq quads /\ o.indices \subseteq indices
      /\ \A i \in Names(o.what, s.statics) : Storage(s.statics[i]) \in quads
  BY DEF QuadsAfter, IndicesAfter
<1> DEFINE streams == OfStreams(o.what, s.streams)
           statics == OfStatics(o.what, s.statics)
<1>4. ASSUME NEW k \in DOMAIN used
      PROVE  \/ used[k].from = "stream" /\ used[k].at \in {x.at : x \in stream}
             \/ used[k].from = "static" /\ used[k].at \in quads
  <2> DEFINE both == Over(streams, statics)
  <2>1. k \in DOMAIN both /\ used[k] = both[k]
    BY DEF Used
  <2>2. /\ DOMAIN both = DOMAIN streams \cup DOMAIN statics
        /\ \A x \in DOMAIN streams : both[x] = streams[x]
        /\ \A x \in DOMAIN statics : x \notin DOMAIN streams => both[x] = statics[x]
    <3> HIDE DEF streams, statics
    <3> QED BY OverFacts
  <2> HIDE DEF stream, quads, pieces, used, both
  <2>3. CASE k \in DOMAIN streams
    <3> DEFINE i == PlaceOf(o.what, s.streams, k)
    <3>1. k \in {s.streams[j].attr : j \in Names(o.what, s.streams)}
      BY <2>3 DEF OfStreams
    <3>2. i \in Names(o.what, s.streams)
      BY <3>1 DEF PlaceOf
    <3>3. streams[k] = [from |-> "stream", at |-> pieces[i].at, comps |-> s.streams[i].comps]
      BY <3>1 DEF OfStreams, pieces
    <3> HIDE DEF i, streams
    <3> QED BY <1>2, <2>1, <2>2, <2>3, <3>2, <3>3
  <2>4. CASE k \notin DOMAIN streams
    <3> DEFINE i == PlaceOf(o.what, s.statics, k)
    <3>1. k \in {s.statics[j].attr : j \in Names(o.what, s.statics)}
      BY <2>1, <2>2, <2>4 DEF OfStatics
    <3>2. i \in Names(o.what, s.statics)
      BY <3>1 DEF PlaceOf
    <3>3. statics[k]
            = [from |-> "static", at |-> Storage(s.statics[i]), comps |-> s.statics[i].comps]
      BY <3>1 DEF OfStatics
    <3> HIDE DEF i, statics, streams
    <3> QED BY <1>3, <2>1, <2>2, <2>4, <3>2, <3>3
  <2> QED BY <2>3, <2>4
<1> HIDE DEF p, used, stream, quads, indices
<1>5. /\ IsObject(p) /\ p.id = o.id /\ p.what = o.what /\ p.made = TRUE
      /\ p.enabled = used /\ p.stream = stream /\ p.quads = quads /\ p.indices = indices
  BY <1>1 DEF Held, IsObject
<1>6. Owned(o) \subseteq Owned(p)
  <2>1. {<<o.id, "static", b>> : b \in o.quads} \subseteq {<<p.id, "static", b>> : b \in p.quads}
    BY <1>3, <1>5
  <2>2. {<<o.id, "index", b>> : b \in o.indices} \subseteq {<<p.id, "index", b>> : b \in p.indices}
    BY <1>3, <1>5
  <2>3. Shared(o) \subseteq Shared(p)
    BY <1>5 DEF Shared
  <2> QED BY <2>1, <2>2, <2>3 DEF Owned
<1>7. \A k \in DOMAIN p.enabled : PointsInto(p, p.enabled[k])
  BY <1>4, <1>5 DEF PointsInto
<1> QED BY <1>5, <1>6, <1>7 DEF p

-----------------------------------------------------------------------------
(* The rows of the built-in programs.                                      *)

IsRow(row) ==
  /\ Len(row.images) \in Nat /\ DOMAIN row.images = 1 .. Len(row.images)
  /\ Len(row.slots) \in Nat /\ DOMAIN row.slots = 1 .. Len(row.slots)
  /\ Len(row.images) + Len(row.slots) <= 3
  /\ DOMAIN row.streamed \subseteq Nat \ {0}
  /\ \A i \in DOMAIN row.streamed : row.streamed[i] \in DOMAIN row.need
  /\ \A k \in DOMAIN row.need : row.need[k] \in Nat \ {0}

LEMMA RowFacts == \A b \in Builtins \ {"textbox"} : IsRow(Rows[b])
<1>1. /\ IsRow(TriangleProgram) /\ IsRow(RectProgram) /\ IsRow(CircleProgram)
      /\ IsRow(RoundedRectProgram) /\ IsRow(PolyProgram) /\ IsRow(QuadProgram)
  BY DEF TriangleProgram, RectProgram, CircleProgram, RoundedRectProgram, PolyProgram,
         QuadProgram, IsRow, Shape, Row
<1>2. /\ IsRow(TextureProgram) /\ IsRow(TextureCroppedProgram)
      /\ IsRow(CenteredTextureProgram) /\ IsRow(CenteredCroppedTextureProgram)
  BY DEF TextureProgram, TextureCroppedProgram, CenteredTextureProgram,
         CenteredCroppedTextureProgram, IsRow, Textured, Row
<1>3. /\ IsRow(PaletteProgram) /\ IsRow(DefaultCompositorProgram)
      /\ IsRow(CompFadeProgram) /\ IsRow(ImgFadeProgram)
  BY DEF PaletteProgram, PaletteSlots, DefaultCompositorProgram, CompFadeProgram,
         ImgFadeProgram, IsRow, Compositor, Row
<1>4. /\ IsRow(AlphaMultProgram) /\ IsRow(ColorMultProgram) /\ IsRow(BlurHProgram)
      /\ IsRow(BlurVProgram) /\ IsRow(GBlurHProgram) /\ IsRow(GBlurVProgram)
      /\ IsRow(CrtProgram) /\ IsRow(FxaaProgram) /\ IsRow(OutlineProgram)
      /\ IsRow(PixilationProgram)
  BY DEF AlphaMultProgram, ColorMultProgram, BlurHProgram, BlurVProgram, GBlurHProgram,
         GBlurVProgram, CrtProgram, FxaaProgram, OutlineProgram, PixilationProgram, IsRow,
         Effect, Row
<1> QED
  BY <1>1, <1>2, <1>3, <1>4 DEF Builtins, Rows

(* What a call gives has a length.                                         *)
LEMMA CallFacts ==
  ASSUME NEW row, IsRow(row), NEW f \in Calls(row), NEW field \in DOMAIN f
  PROVE  f[field].len \in Int
<1> DEFINE IsField(x) == x = [kind |-> x.kind, len |-> x.len, val |-> x.val] /\ x.len \in Int
<1>1. ASSUME NEW v, NEW j PROVE IsField(Given(row, j, v))
  <2>1. CASE j \in DOMAIN row.need
    BY <2>1 DEF Given, Arr, IsRow
  <2>2. CASE j \notin DOMAIN row.need /\ j \in row.numbers
    <3> DEFINE kind == NumberKind(j)
               x == [Num(v) EXCEPT !.kind = kind]
    <3>1. Given(row, j, v) = [x EXCEPT !.len = 4]
      BY <2>2 DEF Given
    <3> HIDE DEF kind
    <3>2. x = [kind |-> kind, len |-> 1, val |-> v]
      BY DEF Num
    <3> HIDE DEF x
    <3>3. [x EXCEPT !.len = 4] = [kind |-> kind, len |-> 4, val |-> v]
      BY <3>2
    <3> QED BY <3>1, <3>3
  <2>3. CASE j \notin DOMAIN row.need /\ j \notin row.numbers
    BY <2>3 DEF Given, Arr
  <2> QED BY <2>1, <2>2, <2>3
<1>2. ASSUME NEW v, NEW image, NEW j \in DOMAIN FullCall(row, v, image)
      PROVE  IsField(FullCall(row, v, image)[j])
  <2> HIDE DEF IsField
  <2>1. \/ FullCall(row, v, image)[j] = Given(row, j, v)
        \/ FullCall(row, v, image)[j] = Str(image)
    BY DEF FullCall
  <2>2. IsField(Str(image))
    BY DEF IsField, Str
  <2> QED BY <1>1, <2>1, <2>2
<1> DEFINE full == FullCall(row, 1, CHOOSE image \in Image : TRUE)
<1>3. \A j \in DOMAIN full : IsField(full[j])
  <2> HIDE DEF IsField
  <2> QED BY <1>2
<1> DEFINE Full    == {FullCall(row, v, image) : v \in 1 .. 2, image \in Image}
           Partial == {[j \in DOMAIN full \ {k} |-> full[j]] : k \in DOMAIN full}
           Other   == {[full EXCEPT ![k].kind = "bool"] : k \in DOMAIN full}
           Sized   == {[full EXCEPT ![k].len = @ + n] : k \in DOMAIN row.need, n \in {-1, 2}}
           Short   == {[full EXCEPT ![k].len = 3] : k \in row.numbers \cap {"color"}}
<1>4. f \in Full \cup Partial \cup Other \cup Sized \cup Short
  <2>1. Calls(row) = Full \cup Partial \cup Other \cup Sized \cup Short
    BY SMTT(20) DEF Calls
  <2> HIDE DEF Full, Partial, Other, Sized, Short
  <2> QED BY <2>1
<1> HIDE DEF full
<1>5. CASE f \in Full
  BY <1>2, <1>5
<1>6. CASE f \in Partial
  BY <1>3, <1>6
<1>7. CASE f \in Other
  BY <1>3, <1>7
<1>8. CASE f \in Sized
  BY <1>3, <1>8
<1>9. CASE f \in Short
  BY <1>3, <1>9
<1> HIDE DEF Full, Partial, Other, Sized, Short
<1> QED BY <1>4, <1>5, <1>6, <1>7, <1>8, <1>9

LEMMA SlotFacts ==
  ASSUME NEW use \in Uses, NEW k \in DOMAIN use.slots
  PROVE  use.slots[k] \in Palette
<1>1. CASE use = Use("atomic", NoFields)
  BY <1>1 DEF Use, NoFields
<1>2. CASE use \in OnOne
  BY <1>2 DEF OnOne, Use
<1>3. CASE use \in OnTwo
  BY <1>3 DEF OnTwo, Use
<1> QED BY <1>1, <1>2, <1>3 DEF Uses

LEMMA SmallPlaces ==
  ASSUME NEW on, on \subseteq 1 .. 3
  PROVE  IsFiniteSet(on) /\ Cardinality(on) <= 3
<1>1. ASSUME NEW n \in Nat PROVE IsFiniteSet(1 .. n) /\ Cardinality(1 .. n) = n
  BY FS_Interval
<1>2. IsFiniteSet(1 .. 3) /\ Cardinality(1 .. 3) = 3
  BY <1>1
<1> QED BY <1>2, FS_Subset

(* What a built-in program prepares.                                       *)
LEMMA BuiltinSound ==
  ASSUME NEW row, IsRow(row), NEW f \in Calls(row), NEW use \in Uses, NEW loaded \in SUBSET Image,
         NEW what, PrepareBuiltin(row, f, use.slots, loaded).draw
  PROVE  Sound(what, PrepareBuiltin(row, f, use.slots, loaded))
<1> DEFINE slots == use.slots
           s == PrepareBuiltin(row, f, slots, loaded)
           n == Len(row.images)
           samplers == BuiltinSamplers(row, f, slots)
           streams  == [i \in DOMAIN row.streamed |->
                          StreamedOf(row, row.streamed[i], f[row.streamed[i]])]
<1>1. /\ Complete(row, f, loaded) /\ s.samplers = samplers /\ s.streams = streams
  <2>1. Complete(row, f, loaded)
    BY DEF PrepareBuiltin, Skip
  <2> QED BY <2>1 DEF PrepareBuiltin
<1>2. /\ DOMAIN samplers \subseteq 1 .. 3
      /\ \A i \in DOMAIN samplers : samplers[i][2] \in Image \cup Palette
  <2>1. DOMAIN samplers = 1 .. n \cup {n + j : j \in Slotted(row, slots)}
    BY DEF BuiltinSamplers
  <2>2. /\ Slotted(row, slots) \subseteq DOMAIN row.slots
        /\ \A j \in Slotted(row, slots) : row.slots[j] \in DOMAIN slots
    BY DEF Slotted
  <2>3. /\ n \in Nat /\ Len(row.slots) \in Nat /\ n + Len(row.slots) <= 3
        /\ DOMAIN row.slots = 1 .. Len(row.slots) /\ DOMAIN row.images = 1 .. n
    BY DEF IsRow
  <2>4. \A j \in Slotted(row, slots) : n + j \in 1 .. 3 /\ ~(n + j <= n) /\ (n + j) - n = j
    <3> HIDE DEF n
    <3>1. ASSUME NEW j \in Slotted(row, slots) PROVE j \in 1 .. Len(row.slots)
      BY <2>2, <2>3
    <3>2. ASSUME NEW j \in Slotted(row, slots)
          PROVE  n + j \in 1 .. 3 /\ ~(n + j <= n) /\ (n + j) - n = j
      BY <2>3, <3>1
    <3> QED BY <3>2
  <2>5. ASSUME NEW i \in 1 .. n PROVE i \in 1 .. 3 /\ samplers[i][2] \in Image \cup Palette
    <3>1. i \in 1 .. 3 /\ i \in DOMAIN samplers /\ i <= n
      <4> HIDE DEF n, samplers
      <4> QED BY <2>1, <2>3
    <3>2. samplers[i] = <<SamplerOf(row.images[i]), f[row.images[i]].val>>
      BY <2>1, <3>1 DEF BuiltinSamplers
    <3>3. f[row.images[i]].val \in loaded
      BY <1>1, <2>3 DEF Complete
    <3> QED BY <3>1, <3>2, <3>3
  <2>6. ASSUME NEW j \in Slotted(row, slots) PROVE samplers[n + j][2] \in Image \cup Palette
    <3>1. samplers[n + j] = <<SamplerOf(row.slots[j]), slots[row.slots[j]]>>
      BY <2>1, <2>4 DEF BuiltinSamplers
    <3>2. slots[row.slots[j]] \in Palette
      BY <2>2, SlotFacts
    <3> QED BY <3>1, <3>2
  <2> HIDE DEF samplers, n
  <2> QED BY <2>1, <2>4, <2>5, <2>6
<1>3. /\ DOMAIN streams \subseteq Nat \ {0}
      /\ \A i \in DOMAIN streams : Size(streams[i]) \in Nat
  <2>1. ASSUME NEW i \in DOMAIN row.streamed PROVE Size(streams[i]) \in Nat
    <3> DEFINE k == row.streamed[i]
    <3>1. k \in DOMAIN row.need /\ row.need[k] \in Nat \ {0}
      BY DEF IsRow
    <3>2. k \in DOMAIN f /\ f[k].len >= row.need[k]
      BY <1>1, <3>1 DEF Complete, Has, Suffices
    <3>3. f[k].len \in Int
      BY <3>2, CallFacts
    <3>4. f[k].len \in Nat /\ f[k].len \div 2 \in Nat
      BY <3>1, <3>2, <3>3
    <3>5. streams[i] = [attr |-> AttributeOf(k), comps |-> 2,
                        n |-> IF row.corners THEN 4 ELSE f[k].len \div 2,
                        data |-> [field |-> k, val |-> f[k].val]]
      BY DEF StreamedOf, Attribute
    <3> HIDE DEF k, streams
    <3> QED BY <3>4, <3>5 DEF Size
  <2> QED BY <2>1 DEF IsRow
<1>4. On(what, s.samplers) \subseteq 1 .. 3
  BY <1>1, <1>2 DEF On
<1> HIDE DEF s, samplers, streams
<1>5. Sound(what, s)
  BY <1>1, <1>2, <1>3, <1>4, SmallPlaces DEF Sound
<1> QED BY <1>5 DEF s

(* What the textbox program prepares.                                      *)
LEMMA TextSound ==
  ASSUME NEW f \in Texts, NEW known, NEW loaded \in SUBSET Image, NEW what,
         PrepareText(f, known, loaded).draw
  PROVE  Sound(what, PrepareText(f, known, loaded))
<1> DEFINE s == PrepareText(f, known, loaded)
           n == Len(MeshOf(f))
           atlas == Atlas[FontNames(f)[1]]
<1>1. /\ atlas \in loaded /\ s.samplers = << <<"tMap", atlas>> >>
      /\ s.streams = << Attribute("position", 2, 4 * n, MeshOf(f)),
                        Attribute("uv", 2, 4 * n, [i \in 1 .. n |-> [at |-> MeshOf(f)[i].at]]) >>
  BY DEF PrepareText, Skip
<1>2. n \in Nat
  BY TextsAssumption
<1> HIDE DEF s, n, atlas
<1>3. DOMAIN s.streams \subseteq Nat \ {0} /\ \A i \in DOMAIN s.streams : Size(s.streams[i]) \in Nat
  BY <1>1, <1>2 DEF Attribute, Size
<1>4. DOMAIN s.samplers = {1} /\ s.samplers[1][2] \in Image
  BY <1>1
<1>5. On(what, s.samplers) \subseteq 1 .. 3
  BY <1>4 DEF On
<1>6. Sound(what, s)
  BY <1>3, <1>4, <1>5, SmallPlaces DEF Sound
<1> QED BY <1>6 DEF s

(* What a program created at run time prepares.                            *)
LEMMA DynamicSound ==
  ASSUME NEW source \in DOMAIN Dynamics, NEW use \in Uses,
         NEW c \in Dynamics[source].calls, NEW loaded \in SUBSET Image,
         PrepareDynamic(Dynamics[source].declares, c.fields, use.slots, loaded).draw
  PROVE  Sound(Dynamic(source),
               PrepareDynamic(Dynamics[source].declares, c.fields, use.slots, loaded))
<1> DEFINE d == Dynamics[source].declares
           f == c.fields
           what == Dynamic(source)
           s == PrepareDynamic(d, f, use.slots, loaded)
           Applied(i) == ApplyUniform(d.uniforms[i], f, use.slots, loaded)
           places == {i \in DOMAIN d.attributes : d.attributes[i].kind # "static"}
<1>1. /\ DOMAIN s.samplers \subseteq DOMAIN d.uniforms
      /\ \A i \in DOMAIN s.samplers : /\ s.samplers[i] = <<d.uniforms[i].key, Applied(i).to>>
                                       /\ Applied(i).does = "texture"
      /\ \E count : s.streams = AttributesOf(d.attributes, places, f, count)
  <2> DEFINE applied == [i \in DOMAIN d.uniforms |-> Applied(i)]
             set == {i \in DOMAIN applied : applied[i].does = "texture"}
             explicit == LET r == Resolve(d.count, f)
                         IN IF r # <<>> /\ r[1].kind = "number" THEN r[1].val ELSE 0
             fixed == {i \in DOMAIN d.attributes : d.attributes[i].kind = "static"}
  <2>1. s.samplers = [i \in set |-> <<d.uniforms[i].key, applied[i].to>>]
    BY DEF PrepareDynamic, Skip
  <2>2. s.streams = AttributesOf(d.attributes, DOMAIN d.attributes \ fixed, f, explicit)
    BY DEF PrepareDynamic, Skip
  <2>3. DOMAIN d.attributes \ fixed = places
    OBVIOUS
  <2> HIDE DEF s, d, explicit, Applied
  <2> QED BY <2>1, <2>2, <2>3
<1>2. ASSUME NEW i \in DOMAIN d.uniforms, Applied(i).does = "texture"
      PROVE  Applied(i).to \in Image \cup Palette
  <2>1. Applied(i).to \in loaded \/ \E k \in DOMAIN use.slots : Applied(i).to = use.slots[k]
    BY <1>2 DEF ApplyUniform
  <2> QED BY <2>1, SlotFacts
<1>3. /\ DOMAIN d.attributes \subseteq Nat \ {0} /\ DOMAIN d.uniforms \subseteq Nat
      /\ IsFiniteSet({i \in DOMAIN d.uniforms : d.uniforms[i].key \in d.active})
      /\ Cardinality({i \in DOMAIN d.uniforms : d.uniforms[i].key \in d.active}) <= 3
      /\ \A k \in DOMAIN f : f[k].len \in Nat
  BY DynamicsAssumption
<1>4. /\ IsFiniteSet(On(what, s.samplers)) /\ Cardinality(On(what, s.samplers)) <= 3
  <2> DEFINE used == {i \in DOMAIN d.uniforms : d.uniforms[i].key \in d.active}
  <2>1. On(what, s.samplers) \subseteq used
    <3>1. \A name : Active(what, name) <=> name \in d.active
      BY DEF Active, Dynamic
    <3> HIDE DEF s, what, d
    <3> QED BY <1>1, <3>1 DEF On
  <2>2. Cardinality(On(what, s.samplers)) <= Cardinality(used) /\ IsFiniteSet(On(what, s.samplers))
        /\ Cardinality(On(what, s.samplers)) \in Nat /\ Cardinality(used) \in Nat
    <3> HIDE DEF s, what, d
    <3>1. IsFiniteSet(used)
      BY <1>3
    <3> HIDE DEF used
    <3> QED BY <2>1, <3>1, FS_Subset, FS_CardinalityType
  <2> HIDE DEF s, d, what
  <2> QED BY <1>3, <2>2
<1>5. PICK count : s.streams = AttributesOf(d.attributes, places, f, count)
  BY <1>1
<1> DEFINE streams == AttributesOf(d.attributes, places, f, count)
<1>6. DOMAIN streams \subseteq Nat \ {0} /\ \A i \in DOMAIN streams : Size(streams[i]) \in Nat
  <2>1. DOMAIN streams \subseteq places
    BY DEF AttributesOf
  <2>2. ASSUME NEW i \in DOMAIN streams PROVE Size(streams[i]) \in Nat
    <3> DEFINE m == d.attributes[i]
               v == Resolve(m, f)[1]
               comps == InferComponents(m.key, Numbers(v), count)
    <3>1. /\ streams[i] = Attribute(m.key, comps, Numbers(v) \div comps, v.val)
          /\ Resolve(m, f) # <<>> /\ m.kind # "static"
      BY <2>1 DEF AttributesOf
    <3>2. v \in {f[k] : k \in DOMAIN f}
      BY <3>1 DEF Resolve
    <3>3. Numbers(v) \in Nat
      <4> HIDE DEF v, f
      <4> QED BY <1>3, <3>2 DEF Numbers
    <3>4. comps \in 1 .. 4
      BY DEF InferComponents
    <3> HIDE DEF streams, m, v, comps
    <3>5. Numbers(v) \div comps \in Nat
      BY <3>3, <3>4
    <3>6. Size(streams[i]) = (Numbers(v) \div comps) * comps
      BY <3>1 DEF Attribute, Size
    <3> QED BY <3>4, <3>5, <3>6
  <2> QED BY <1>3, <2>1, <2>2
<1>7. Sound(what, s)
  <2> HIDE DEF s, d, what, streams, Applied
  <2>1. \A i \in DOMAIN s.samplers : s.samplers[i][2] \in Image \cup Palette
    BY <1>1, <1>2
  <2>2. s.streams = streams
    BY <1>5 DEF streams
  <2> QED BY <1>1, <1>3, <1>4, <1>6, <2>1, <2>2 DEF Sound
<1> QED BY <1>7

-----------------------------------------------------------------------------
(* The invariant.                                                          *)

Owns(g, reg) ==
  /\ \A x \in g.objects : \E n \in DOMAIN reg : x \in Owned(reg[n])
  /\ \A n \in DOMAIN reg : Owned(reg[n]) \subseteq g.objects

Points(reg) ==
  \A n \in DOMAIN reg : \A k \in DOMAIN reg[n].enabled : PointsInto(reg[n], reg[n].enabled[k])

Inputs ==
  /\ app \in Apps /\ images \subseteq Image /\ fonts \subseteq DOMAIN Atlas
  /\ contexts \in 0 .. MaxContexts

\* The program that is believed to be bound is bound.
Binding ==
  /\ gl.up => last = gl.current /\ contexts = 1
  /\ contexts = 0 => last = None
  /\ ~gl.up => gl = NoGl /\ registry = <<>>

Inv ==
  /\ Inputs /\ Agree(gl, registry) /\ Sampled(gl) /\ Lit(gl)
  /\ Owns(gl, registry) /\ Points(registry) /\ Binding /\ RunsItsOwnProgram

LEMMA ObjectsFacts ==
  ASSUME NEW g, IsContext(g), NEW objects
  PROVE  [g EXCEPT !.objects = objects]
           = Context(g.up, g.programs, g.doomed, g.current, g.units, g.active, objects)
BY DEF IsContext, Context

(* Binding the program of an object, which is the bound one or is told to GL. *)
LEMMA BindAgrees ==
  ASSUME NEW g, NEW reg, Agree(g, reg), Sampled(g), Lit(g), NEW name \in DOMAIN reg
  PROVE  LET h == IF Bound(reg[name].id, g.current) THEN g ELSE UseProgram(g, reg[name].id)
         IN /\ Agree(h, reg) /\ h.current = reg[name].id /\ h.up = g.up
            /\ h.objects = g.objects /\ Sampled(h) /\ Lit(h)
<1> DEFINE id == reg[name].id
           u == UseProgram(g, id)
           h == IF Bound(id, g.current) THEN g ELSE u
<1>1. CASE Bound(id, g.current)
  <2>1. h = g /\ g.current = id
    BY <1>1 DEF Bound
  <2> HIDE DEF h, id
  <2>2. Agree(h, reg) /\ h.current = id /\ h.up = g.up /\ h.objects = g.objects
    BY <2>1
  <2> QED BY <2>1, <2>2 DEF h, id
<1>2. CASE ~Bound(id, g.current)
  <2>1. /\ Agree(u, reg) /\ u.current = id
        /\ u.up = g.up /\ u.units = g.units /\ u.active = g.active /\ u.objects = g.objects
        /\ \A p \in DOMAIN u.programs : p \in DOMAIN g.programs /\ u.programs[p] = g.programs[p]
    BY UseProgramAgrees
  <2>2. h = u
    BY <1>2
  <2> HIDE DEF h, u, id
  <2>3. Sampled(u)
    BY <2>1 DEF Sampled
  <2>4. Lit(u)
    BY <2>1 DEF Lit
  <2>5. Agree(h, reg) /\ h.current = id /\ h.up = g.up /\ h.objects = g.objects
    BY <2>1, <2>2
  <2> QED BY <2>2, <2>3, <2>4, <2>5 DEF h, u, id
<1> QED BY <1>1, <1>2

LEMMA ProgramsFacts ==
  ASSUME NEW g, IsContext(g), NEW programs
  PROVE  [g EXCEPT !.programs = programs]
           = Context(g.up, programs, g.doomed, g.current, g.units, g.active, g.objects)
BY DEF IsContext, Context

(* A draw: whichever program was bound, its own is, and it keeps what the  *)
(* others had.                                                             *)
LEMMA DrawKeeps ==
  ASSUME Inv, gl.up, NEW name \in DOMAIN registry, NEW f, NEW slots, NEW s,
         Sound(registry[name].what, s), DrawPrepared(name, f, slots, s),
         UNCHANGED <<app, contexts, images, fonts>>
  PROVE  Inv'
<1> DEFINE o == registry[name]
           g == IF Bound(o.id, last) THEN gl ELSE UseProgram(gl, o.id)
           p == SetArrays(o, s)
           g2 == SetUniforms(g, o.what, s)
           h == [g2 EXCEPT !.objects = @ \cup Owned(p)]
<1>1. /\ gl' = h /\ last' = o.id /\ registry' = [registry EXCEPT ![name] = p]
      /\ drawn' = [what |-> o.what, fields |-> f, slots |-> slots, read |-> Reads(h, p, s)]
  BY DEF DrawPrepared
<1>2. /\ Agree(gl, registry) /\ Sampled(gl) /\ Lit(gl) /\ Owns(gl, registry) /\ Points(registry)
      /\ Binding /\ Inputs
  BY DEF Inv
<1>3. /\ Agree(g, registry) /\ g.current = o.id /\ g.up = gl.up /\ g.objects = gl.objects
      /\ Sampled(g) /\ Lit(g)
  <2> DEFINE u == IF Bound(o.id, gl.current) THEN gl ELSE UseProgram(gl, o.id)
  <2>1. Agree(gl, registry) /\ Sampled(gl) /\ Lit(gl)
    BY <1>2
  <2>2. g = u
    <3>1. gl.current = last
      BY <1>2 DEF Binding
    <3> QED BY <3>1
  <2>3. Agree(u, registry) /\ u.current = o.id /\ u.up = gl.up
    BY <2>1, BindAgrees
  <2>4. u.objects = gl.objects /\ Sampled(u) /\ Lit(u)
    BY <2>1, BindAgrees
  <2> HIDE DEF g, u, o
  <2> QED BY <2>2, <2>3, <2>4
<1> HIDE DEF g
<1>4. /\ IsContext(g) /\ IsObject(o) /\ g.current # None
      /\ g.current \in DOMAIN g.programs /\ IsProgram(g.programs[g.current])
  BY <1>3, AppsAssumption DEF Agree, Registers, Keeps
<1>5. /\ Agree(g2, registry) /\ g2.current = o.id /\ g2.up = gl.up /\ g2.objects = gl.objects
  BY <1>3, SetUniformsAgrees, AppsAssumption
<1>6. Sampled(g2) /\ Lit(g2)
  BY <1>3, <1>4, SetUniformsTypes
<1>7. /\ IsObject(p) /\ p.id = o.id /\ p.what = o.what /\ Owned(o) \subseteq Owned(p)
      /\ \A k \in DOMAIN p.enabled : PointsInto(p, p.enabled[k])
  BY <1>4, SetArraysPoints
<1> HIDE DEF g2, p
<1>8. /\ IsContext(h) /\ h.up = g2.up /\ h.programs = g2.programs /\ h.doomed = g2.doomed
      /\ h.current = g2.current /\ h.units = g2.units /\ h.active = g2.active
      /\ h.objects = g2.objects \cup Owned(p)
  <2> DEFINE objects == g2.objects \cup Owned(p)
  <2>1. h = [g2 EXCEPT !.objects = objects] /\ IsContext(g2)
    BY <1>5 DEF Agree
  <2> HIDE DEF objects, h
  <2>2. h = Context(g2.up, g2.programs, g2.doomed, g2.current, g2.units, g2.active, objects)
    BY <2>1, ObjectsFacts
  <2> QED BY <2>2, ContextFields DEF objects
<1> HIDE DEF h
<1>9. /\ DOMAIN registry' = DOMAIN registry /\ registry'[name] = p
      /\ \A n \in DOMAIN registry : n # name => registry'[n] = registry[n]
  BY <1>1
<1>10. \A n \in DOMAIN registry : /\ registry'[n].id = registry[n].id
                                  /\ registry'[n].what = registry[n].what
                                  /\ IsObject(registry'[n])
  BY <1>2, <1>7, <1>9 DEF Agree, Registers
<1>11. Agree(gl', registry')
  <2> HIDE DEF o
  <2>1. Registers(h, registry')
    BY <1>5, <1>8, <1>9, <1>10 DEF Agree, Registers
  <2>2. Keeps(h, registry')
    BY <1>5, <1>8, <1>9, <1>10 DEF Agree, Keeps
  <2> QED BY <1>1, <1>8, <2>1, <2>2 DEF Agree
<1>12. Sampled(gl') /\ Lit(gl')
  BY <1>1, <1>6, <1>8 DEF Sampled, Lit
<1>13. Owns(gl', registry')
  <2>1. \A x \in h.objects : \E n \in DOMAIN registry' : x \in Owned(registry'[n])
    BY <1>2, <1>5, <1>7, <1>8, <1>9 DEF Owns
  <2>2. \A n \in DOMAIN registry' : Owned(registry'[n]) \subseteq h.objects
    BY <1>2, <1>5, <1>8, <1>9 DEF Owns
  <2> QED BY <1>1, <2>1, <2>2 DEF Owns
<1>14. Points(registry')
  BY <1>2, <1>7, <1>9 DEF Points
<1>15. Binding' /\ Inputs'
  BY <1>1, <1>2, <1>5, <1>8 DEF Binding, Inputs
<1>16. RunsItsOwnProgram'
  <2>1. h.current # None /\ h.programs[h.current].what = o.what
    BY <1>3, <1>4, <1>5, <1>8 DEF Agree, Registers
  <2>2. Reads(h, p, s).what = o.what
    BY <2>1 DEF Reads
  <2> QED BY <1>1, <2>2 DEF RunsItsOwnProgram
<1> QED BY <1>11, <1>12, <1>13, <1>14, <1>15, <1>16 DEF Inv

LEMMA PrepareSound ==
  ASSUME NEW what, IsWhat(what), NEW use \in Uses, NEW f \in CallsOf(what, use.use),
         images \subseteq Image, Prepare(what, f, use.slots).draw
  PROVE  Sound(what, Prepare(what, f, use.slots))
<1>1. CASE \E source \in DOMAIN Dynamics : what = Dynamic(source)
  <2>1. PICK source \in DOMAIN Dynamics : what = Dynamic(source)
    BY <1>1
  <2>2. what.kind = "dynamic" /\ what.of = source
    BY <2>1 DEF Dynamic
  <2>3. PICK c \in Dynamics[source].calls : f = c.fields
    BY <2>2 DEF CallsOf
  <2>4. Prepare(what, f, use.slots)
          = PrepareDynamic(Dynamics[source].declares, c.fields, use.slots, images)
    BY <2>2, <2>3 DEF Prepare
  <2> QED BY <2>1, <2>4, DynamicSound
<1>2. CASE \E b \in Builtins : what = Builtin(b)
  <2>1. PICK b \in Builtins : what = Builtin(b)
    BY <1>2
  <2>2. what.kind = "builtin" /\ what.of = b
    BY <2>1 DEF Builtin
  <2>3. CASE b = "textbox"
    <3>1. f \in Texts
      BY <2>2, <2>3 DEF CallsOf
    <3>2. Prepare(what, f, use.slots) = PrepareText(f, fonts, images)
      BY <2>2, <2>3 DEF Prepare
    <3> QED BY <3>1, <3>2, TextSound
  <2>4. CASE b # "textbox"
    <3>1. IsRow(Rows[b])
      BY <2>4, RowFacts
    <3>2. f \in Calls(Rows[b])
      BY <2>2, <2>4 DEF CallsOf
    <3>3. Prepare(what, f, use.slots) = PrepareBuiltin(Rows[b], f, use.slots, images)
      BY <2>2, <2>4 DEF Prepare
    <3> QED BY <3>1, <3>2, <3>3, BuiltinSound
  <2> QED BY <2>3, <2>4
<1> QED BY <1>1, <1>2 DEF IsWhat

LEMMA RenderKeeps == Inv /\ Render => Inv'
<1> SUFFICES ASSUME Inv, Render PROVE Inv'
  OBVIOUS
<1>1. PICK name \in DOMAIN registry, use \in Uses :
        \E f \in CallsOf(registry[name].what, use.use) : Draw(name, f, use.slots)
  BY Zenon DEF Render
<1>2. PICK f \in CallsOf(registry[name].what, use.use) : Draw(name, f, use.slots)
  BY <1>1
<1>3. gl.up /\ UNCHANGED <<app, contexts, images, fonts>>
  BY DEF Render
<1> DEFINE what == registry[name].what
           s == Prepare(what, f, use.slots)
<1>4. CASE s.draw /\ DrawPrepared(name, f, use.slots, s)
  <2>1. IsWhat(what) /\ images \subseteq Image
    BY DEF Inv, Agree, Registers, Inputs
  <2>2. Sound(what, s)
    BY <1>4, <2>1, PrepareSound
  <2> HIDE DEF s
  <2> QED BY <1>3, <1>4, <2>2, DrawKeeps
<1>5. CASE drawn' = None /\ UNCHANGED <<registry, gl, last>>
  BY <1>3, <1>5 DEF Inv, Inputs, Agree, Registers, Keeps, Sampled, Lit, Owns, Points, Binding,
     RunsItsOwnProgram
<1> QED BY <1>2, <1>4, <1>5 DEF Draw

-----------------------------------------------------------------------------
(* Programs that are created, replaced and shut down.                      *)

LEMMA NewNameFacts ==
  ASSUME NEW names, GlName \ names # {}
  PROVE  NewName(names) \in Nat /\ NewName(names) \notin names
<1> DEFINE free == GlName \ names
<1>1. free \in SUBSET Nat
  BY AppsAssumption DEF GlName
<1>2. \E x \in free : \A y \in free : x <= y
  <2> HIDE DEF free
  <2> QED BY <1>1, SmallestOf DEF free
<1>3. NewName(names) \in free
  BY <1>2 DEF NewName, Min
<1> QED BY <1>1, <1>3

LEMMA BuiltFacts ==
  ASSUME NEW g, IsContext(g), NEW id, NEW what
  PROVE  Built(g, id, what)
           = Context(g.up, Over([p \in {id} |-> NewProgram(what)], g.programs), g.doomed,
                     g.current, g.units, g.active, g.objects)
<1> DEFINE ps == Over([p \in {id} |-> NewProgram(what)], g.programs)
<1>1. Built(g, id, what) = [g EXCEPT !.programs = ps]
  BY DEF Built
<1> HIDE DEF ps
<1>2. Built(g, id, what) = Context(g.up, ps, g.doomed, g.current, g.units, g.active, g.objects)
  BY <1>1 DEF IsContext, Context
<1> QED BY <1>2 DEF ps

LEMMA DestroyFacts ==
  ASSUME NEW g, IsContext(g), NEW o
  PROVE  Destroy(g, o) =
           IF g.current = o.id
           THEN Context(g.up, g.programs, g.doomed \cup {o.id}, g.current, g.units, g.active,
                        g.objects \ Owned(o))
           ELSE Context(g.up, [p \in DOMAIN g.programs \ {o.id} |-> g.programs[p]], g.doomed,
                        g.current, g.units, g.active, g.objects \ Owned(o))
<1> DEFINE objects == g.objects \ Owned(o)
           h == [g EXCEPT !.objects = objects]
           ps == [p \in DOMAIN g.programs \ {o.id} |-> g.programs[p]]
           doomed == g.doomed \cup {o.id}
<1>1. h = Context(g.up, g.programs, g.doomed, g.current, g.units, g.active, objects)
  <2> HIDE DEF objects
  <2> QED BY ObjectsFacts
<1>2. Destroy(g, o) = IF g.current = o.id THEN [h EXCEPT !.doomed = @ \cup {o.id}]
                      ELSE [h EXCEPT !.programs = [p \in DOMAIN @ \ {o.id} |-> @[p]]]
  BY DEF Destroy, Freed
<1> HIDE DEF objects, h
<1>3. [h EXCEPT !.doomed = @ \cup {o.id}]
        = Context(g.up, g.programs, doomed, g.current, g.units, g.active, objects)
  BY <1>1 DEF Context
<1>4. [h EXCEPT !.programs = [p \in DOMAIN @ \ {o.id} |-> @[p]]]
        = Context(g.up, ps, g.doomed, g.current, g.units, g.active, objects)
  BY <1>1 DEF Context
<1> QED BY <1>2, <1>3, <1>4 DEF objects

LEMMA OwnerFacts ==
  ASSUME NEW o, NEW x \in Owned(o)
  PROVE  x[1] = o.id
BY DEF Owned, Shared

LEMMA ObjectFacts ==
  ASSUME NEW id, NEW what
  PROVE  LET o == Object(id, what)
         IN /\ IsObject(o) /\ o.id = id /\ o.what = what
            /\ Owned(o) = {} /\ DOMAIN o.enabled = {}
BY DEF Object, IsObject, Held, Owned, Shared

(* A new program under a name: the one it replaces is deleted, at once or, *)
(* when it is the current one, once another is used.                       *)
LEMMA CreateAgrees ==
  ASSUME NEW g, NEW reg, Agree(g, reg), Sampled(g), Lit(g), Owns(g, reg), Points(reg),
         NEW id \in Nat, id \notin DOMAIN g.programs, None \notin Nat,
         NEW name, NEW what, IsWhat(what)
  PROVE  LET b == Built(g, id, what)
             h == IF name \in DOMAIN reg THEN Destroy(b, reg[name]) ELSE b
             r == Registered(reg, name, Object(id, what))
         IN /\ Agree(h, r) /\ Sampled(h) /\ Lit(h) /\ Owns(h, r) /\ Points(r)
            /\ h.up = g.up /\ h.current = g.current
<1> DEFINE new == NewProgram(what)
           ps  == Over([p \in {id} |-> new], g.programs)
           obj == Object(id, what)
           b   == Built(g, id, what)
           h   == IF name \in DOMAIN reg THEN Destroy(b, reg[name]) ELSE b
           r   == Registered(reg, name, obj)
<1>1. /\ DOMAIN ps = {id} \cup DOMAIN g.programs /\ ps[id] = new
      /\ \A p \in DOMAIN g.programs : ps[p] = g.programs[p]
  BY DEF Over
<1>2. IsProgram(new) /\ new.what = what /\ DOMAIN new.samplers = {}
  BY DEF NewProgram, IsProgram, Program
<1>3. /\ DOMAIN r = {name} \cup DOMAIN reg /\ r[name] = obj
      /\ \A n \in DOMAIN reg : n # name => r[n] = reg[n]
  BY DEF Registered, Over
<1>4. IsObject(obj) /\ obj.id = id /\ obj.what = what /\ Owned(obj) = {} /\ DOMAIN obj.enabled = {}
  BY ObjectFacts
<1>5. b = Context(g.up, ps, g.doomed, g.current, g.units, g.active, g.objects)
  BY BuiltFacts DEF Agree
<1> HIDE DEF new, ps, obj, b, r
<1>6. /\ IsContext(b) /\ b.up = g.up /\ b.programs = ps /\ b.doomed = g.doomed
      /\ b.current = g.current /\ b.units = g.units /\ b.active = g.active
      /\ b.objects = g.objects
  BY <1>5, ContextFields
<1>7. Points(r)
  BY <1>3, <1>4 DEF Points
<1>8. \A n \in DOMAIN r : IsObject(r[n]) /\ IsWhat(r[n].what)
  BY <1>3, <1>4 DEF Agree, Registers
<1>9. \A m, n \in DOMAIN r : r[m].id = r[n].id => m = n
  BY <1>3, <1>4 DEF Agree, Registers
<1>10. /\ \A p \in DOMAIN ps : p \in Nat /\ IsProgram(ps[p])
       /\ \A p \in DOMAIN ps : \A k \in DOMAIN ps[p].samplers : ps[p].samplers[k] \in Unit
  BY <1>1, <1>2 DEF Agree, Keeps, Sampled
<1>11. CASE name \notin DOMAIN reg
  <2>1. h = b
    BY <1>11
  <2> HIDE DEF h
  <2>2. Registers(h, r)
    BY <1>1, <1>2, <1>3, <1>4, <1>6, <1>8, <1>9, <1>11, <2>1 DEF Agree, Registers, Keeps
  <2>3. Keeps(h, r)
    BY <1>1, <1>3, <1>4, <1>6, <1>10, <1>11, <2>1 DEF Agree, Keeps
  <2>4. Owns(h, r)
    BY <1>3, <1>4, <1>6, <1>11, <2>1 DEF Owns
  <2>5. Sampled(h) /\ Lit(h)
    BY <1>6, <1>10, <2>1 DEF Sampled, Lit
  <2> QED BY <1>6, <1>7, <2>1, <2>2, <2>3, <2>4, <2>5 DEF Agree, h, r, b, obj
<1>12. CASE name \in DOMAIN reg
  <2> DEFINE old == reg[name]
  <2>1. h = Destroy(b, old)
    BY <1>12
  <2> HIDE DEF h
  <2>2. old.id \in DOMAIN g.programs /\ old.id \notin g.doomed /\ old.id # id /\ old.id \in Nat
    BY <1>12 DEF Agree, Registers, Keeps
  <2>3. \A n \in DOMAIN reg : n # name => reg[n].id # old.id
    BY <1>12 DEF Agree, Registers
  <2> HIDE DEF old
  <2>4. ASSUME h.objects = g.objects \ Owned(old)
        PROVE  Owns(h, r)
    <3>1. \A n \in DOMAIN reg : n # name => Owned(reg[n]) \subseteq h.objects
      <4>1. \A n \in DOMAIN reg : \A x \in Owned(reg[n]) : x[1] = reg[n].id
        BY OwnerFacts
      <4>2. \A x \in Owned(old) : x[1] = old.id
        BY OwnerFacts
      <4> QED BY <2>3, <2>4, <4>1, <4>2 DEF Owns
    <3>2. \A x \in h.objects : \E n \in DOMAIN reg : n # name /\ x \in Owned(reg[n])
      BY <1>12, <2>4 DEF Owns, old
    <3> QED BY <1>3, <1>4, <3>1, <3>2 DEF Owns
  <2>5. CASE g.current = old.id
    <3>1. h = Context(b.up, b.programs, b.doomed \cup {old.id}, b.current, b.units, b.active,
                      b.objects \ Owned(old))
      BY <1>6, <2>1, <2>5, DestroyFacts
    <3>2. h = Context(g.up, ps, g.doomed \cup {old.id}, g.current, g.units, g.active,
                      g.objects \ Owned(old))
      BY <1>6, <3>1
    <3>3. /\ IsContext(h) /\ h.up = g.up /\ h.programs = ps /\ h.doomed = g.doomed \cup {old.id}
          /\ h.current = g.current /\ h.units = g.units /\ h.active = g.active
          /\ h.objects = g.objects \ Owned(old)
      BY <3>2, ContextFields
    <3>4. Registers(h, r)
      BY <1>1, <1>2, <1>3, <1>4, <1>8, <1>9, <2>2, <2>3, <3>3 DEF Agree, Registers, Keeps
    <3>5. Keeps(h, r)
      <4>1. \A p \in DOMAIN h.programs : p \in h.doomed \/ \E n \in DOMAIN r : r[n].id = p
        BY <1>1, <1>3, <1>4, <3>3 DEF Agree, Keeps, old
      <4>2. h.doomed \subseteq {h.current} /\ h.doomed \subseteq DOMAIN h.programs
        BY <1>1, <2>2, <2>5, <3>3 DEF Agree, Keeps
      <4> QED BY <1>1, <1>10, <3>3, <4>1, <4>2 DEF Agree, Keeps
    <3>6. Sampled(h) /\ Lit(h)
      BY <1>10, <3>3 DEF Sampled, Lit
    <3> QED BY <1>7, <2>4, <3>3, <3>4, <3>5, <3>6 DEF Agree, h, r, b, obj
  <2>6. CASE g.current # old.id
    <3> DEFINE qs == [p \in DOMAIN ps \ {old.id} |-> ps[p]]
    <3>1. h = Context(b.up, [p \in DOMAIN b.programs \ {old.id} |-> b.programs[p]], b.doomed,
                      b.current, b.units, b.active, b.objects \ Owned(old))
      BY <1>6, <2>1, <2>6, DestroyFacts
    <3>2. h = Context(g.up, qs, g.doomed, g.current, g.units, g.active,
                      g.objects \ Owned(old))
      BY <1>6, <3>1
    <3>3. DOMAIN qs = DOMAIN ps \ {old.id} /\ \A p \in DOMAIN qs : qs[p] = ps[p]
      OBVIOUS
    <3> HIDE DEF qs
    <3>4. /\ IsContext(h) /\ h.up = g.up /\ h.programs = qs /\ h.doomed = g.doomed
          /\ h.current = g.current /\ h.units = g.units /\ h.active = g.active
          /\ h.objects = g.objects \ Owned(old)
      BY <3>2, ContextFields
    <3>5. Registers(h, r)
      BY <1>1, <1>2, <1>3, <1>4, <1>8, <1>9, <2>2, <2>3, <3>3, <3>4 DEF Agree, Registers, Keeps
    <3>6. Keeps(h, r)
      <4>1. \A p \in DOMAIN h.programs : p \in h.doomed \/ \E n \in DOMAIN r : r[n].id = p
        BY <1>1, <1>3, <1>4, <3>3, <3>4 DEF Agree, Keeps, old
      <4>2. h.doomed \subseteq {h.current} /\ h.doomed \subseteq DOMAIN h.programs
        BY <1>1, <2>2, <3>3, <3>4 DEF Agree, Keeps
      <4>3. h.current \in DOMAIN h.programs \cup {None}
        BY <1>1, <2>6, <3>3, <3>4 DEF Agree, Keeps
      <4> QED BY <1>10, <3>3, <3>4, <4>1, <4>2, <4>3 DEF Keeps
    <3>7. Sampled(h) /\ Lit(h)
      BY <1>10, <3>3, <3>4 DEF Sampled, Lit
    <3> QED BY <1>7, <2>4, <3>4, <3>5, <3>6, <3>7 DEF Agree, h, r, b, obj
  <2> QED BY <2>5, <2>6
<1> QED BY <1>11, <1>12

LEMMA CreateKeeps ==
  ASSUME Inv, NEW name \in DynamicName, NEW source \in app.creates, CreateProgram(name, source)
  PROVE  Inv'
<1>1. CASE UNCHANGED <<gl, registry>>
  BY <1>1 DEF CreateProgram, Inv, Inputs, Agree, Registers, Keeps, Sampled, Lit, Owns, Points,
     Binding, RunsItsOwnProgram
<1>2. CASE ~UNCHANGED <<gl, registry>>
  <2> DEFINE id == NewName(DOMAIN gl.programs)
             what == Dynamic(source)
             b == Built(gl, id, what)
             h == IF name \in DOMAIN registry THEN Destroy(b, registry[name]) ELSE b
             r == Registered(registry, name, Object(id, what))
  <2>1. gl.up /\ gl' = h /\ registry' = r /\ GlName \ DOMAIN gl.programs # {}
        /\ UNCHANGED <<app, last, contexts, images, fonts, drawn>>
    BY <1>2 DEF CreateProgram
  <2>2. id \in Nat /\ id \notin DOMAIN gl.programs
    BY <2>1, NewNameFacts
  <2>3. IsWhat(what)
    BY AppsAssumption DEF Inv, Inputs, IsWhat
  <2>4. /\ Agree(gl, registry) /\ Sampled(gl) /\ Lit(gl) /\ Owns(gl, registry)
        /\ Points(registry)
    BY DEF Inv
  <2> HIDE DEF id, what
  <2>5. /\ Agree(h, r) /\ Sampled(h) /\ Lit(h) /\ Owns(h, r) /\ Points(r)
        /\ h.up = gl.up /\ h.current = gl.current
    BY <2>2, <2>3, <2>4, AppsAssumption, CreateAgrees
  <2> HIDE DEF h, r
  <2>6. /\ Agree(gl', registry') /\ Sampled(gl') /\ Lit(gl') /\ Owns(gl', registry')
        /\ Points(registry')
    BY <2>1, <2>5
  <2>7. Binding' /\ Inputs' /\ RunsItsOwnProgram'
    BY <2>1, <2>5 DEF Inv, Binding, Inputs, RunsItsOwnProgram
  <2> QED BY <2>6, <2>7 DEF Inv
<1> QED BY <1>1, <1>2

LEMMA FreshFacts ==
  /\ FreshGl = Context(TRUE, <<>>, {}, None, [u \in Unit |-> None], 0, {})
  /\ NoGl = Context(FALSE, <<>>, {}, None, [u \in Unit |-> None], 0, {})
<1>1. FreshGl = Context(TRUE, <<>>, {}, None, [u \in Unit |-> None], 0, {})
  BY DEF FreshGl, Context
<1> DEFINE no == FALSE
           yes == TRUE
<1>2. NoGl = [FreshGl EXCEPT !.up = no]
  BY DEF NoGl
<1>3. FreshGl = Context(yes, <<>>, {}, None, [u \in Unit |-> None], 0, {})
  BY <1>1
<1> HIDE DEF no, yes
<1>4. NoGl = Context(no, <<>>, {}, None, [u \in Unit |-> None], 0, {})
  BY <1>2, <1>3 DEF Context
<1> QED BY <1>1, <1>4 DEF no

(* Without a context there is nothing to agree about.                      *)
LEMMA NothingAgrees ==
  /\ Agree(NoGl, <<>>) /\ Sampled(NoGl) /\ Lit(NoGl) /\ Owns(NoGl, <<>>) /\ Points(<<>>)
  /\ ~NoGl.up
<1> DEFINE off == [u \in Unit |-> None]
           no  == FALSE
<1>1. NoGl = Context(no, <<>>, {}, None, off, 0, {})
  BY FreshFacts
<1>2. off \in [Unit -> Image \cup Palette \cup {None}] /\ 0 \in Unit
  BY DEF Unit
<1> HIDE DEF off, no
<1>3. /\ IsContext(NoGl) /\ NoGl.up = no /\ NoGl.programs = <<>> /\ NoGl.doomed = {}
      /\ NoGl.current = None /\ NoGl.units = off /\ NoGl.active = 0 /\ NoGl.objects = {}
  BY <1>1, ContextFields
<1>4. Agree(NoGl, <<>>)
  BY <1>3 DEF Agree, Registers, Keeps
<1>5. Sampled(NoGl) /\ Lit(NoGl)
  BY <1>2, <1>3 DEF Sampled, Lit
<1>6. Owns(NoGl, <<>>) /\ Points(<<>>)
  BY <1>3 DEF Owns, Points
<1>7. ~NoGl.up
  BY <1>3 DEF no
<1> QED BY <1>4, <1>5, <1>6, <1>7

(* The programs of a context that starts: each under its name, with a name *)
(* of GL of its own.                                                       *)
LEMMA FirstPrograms ==
  ASSUME NEW names \in SUBSET Builtins, NEW n \in Nat, NEW id \in Injection(names, 1 .. n)
  PROVE  LET ps == [p \in Range(id) |-> NewProgram(Builtin(CHOOSE m \in names : id[m] = p))]
             g  == [FreshGl EXCEPT !.programs = ps]
             r  == [m \in names |-> Object(id[m], Builtin(m))]
         IN /\ Agree(g, r) /\ Sampled(g) /\ Lit(g) /\ Owns(g, r) /\ Points(r)
            /\ g.up = TRUE /\ g.current = None
<1> DEFINE ps == [p \in Range(id) |-> NewProgram(Builtin(CHOOSE m \in names : id[m] = p))]
           g  == [FreshGl EXCEPT !.programs = ps]
           r  == [m \in names |-> Object(id[m], Builtin(m))]
           off == [u \in Unit |-> None]
           yes == TRUE
           empty == <<>>
<1>1. /\ \A m \in names : id[m] \in Nat /\ id[m] \in Range(id)
      /\ \A l, m \in names : id[l] = id[m] => l = m
      /\ \A p \in Range(id) : \E m \in names : id[m] = p
  BY DEF Injection, IsInjective, Range
<1>2. \A m \in names : (CHOOSE l \in names : id[l] = id[m]) = m
  BY <1>1
<1>3. /\ DOMAIN ps = Range(id)
      /\ \A m \in names : ps[id[m]] = NewProgram(Builtin(m))
  BY <1>1, <1>2
<1>4. \A m \in names : /\ IsProgram(ps[id[m]]) /\ ps[id[m]].what = Builtin(m)
                        /\ DOMAIN ps[id[m]].samplers = {}
  <2>1. ASSUME NEW what
        PROVE  /\ IsProgram(NewProgram(what)) /\ NewProgram(what).what = what
               /\ DOMAIN NewProgram(what).samplers = {}
    BY DEF NewProgram, IsProgram, Program
  <2> HIDE DEF ps
  <2> QED BY <1>3, <2>1
<1>5. FreshGl = Context(yes, empty, {}, None, off, 0, {})
  BY FreshFacts
<1>6. off \in [Unit -> Image \cup Palette \cup {None}] /\ 0 \in Unit
  BY DEF Unit
<1> HIDE DEF ps, off, yes, empty
<1>7. g = Context(yes, ps, {}, None, off, 0, {})
  <2>1. /\ IsContext(FreshGl) /\ FreshGl.up = yes /\ FreshGl.doomed = {}
        /\ FreshGl.current = None /\ FreshGl.units = off /\ FreshGl.active = 0
        /\ FreshGl.objects = {}
    BY <1>5, ContextFields
  <2> QED BY <2>1, ProgramsFacts
<1> HIDE DEF g
<1>8. /\ IsContext(g) /\ g.up = yes /\ g.programs = ps /\ g.doomed = {}
      /\ g.current = None /\ g.units = off /\ g.active = 0 /\ g.objects = {}
  BY <1>7, ContextFields
<1>9. /\ DOMAIN r = names
      /\ \A m \in names : /\ IsObject(r[m]) /\ r[m].id = id[m] /\ r[m].what = Builtin(m)
                           /\ Owned(r[m]) = {} /\ DOMAIN r[m].enabled = {}
  BY ObjectFacts
<1> HIDE DEF r
<1>10. Registers(g, r)
  BY <1>1, <1>3, <1>4, <1>8, <1>9 DEF Registers, IsWhat
<1>11. Keeps(g, r)
  BY <1>1, <1>3, <1>4, <1>8, <1>9 DEF Keeps
<1>12. Sampled(g) /\ Lit(g)
  BY <1>1, <1>3, <1>4, <1>6, <1>8 DEF Sampled, Lit
<1>13. Owns(g, r) /\ Points(r)
  BY <1>8, <1>9 DEF Owns, Points
<1> QED BY <1>8, <1>10, <1>11, <1>12, <1>13 DEF Agree, g, r, ps, yes

LEMMA StartKeeps ==
  ASSUME Inv, MaxContexts = 1, StartGl
  PROVE  Inv'
<1> DEFINE names == {"palette"} \cup (app.lists \cap Builtins)
<1>1. /\ ~gl.up /\ contexts = 0 /\ contexts' = 1 /\ last = None
      /\ UNCHANGED <<app, last, images, fonts, drawn>>
  BY DEF StartGl, Inv, Inputs, Binding
<1>2. Inputs' /\ RunsItsOwnProgram'
  BY <1>1 DEF Inv, Inputs, RunsItsOwnProgram
<1>3. CASE UNCHANGED <<gl, registry>>
  BY <1>1, <1>2, <1>3 DEF Inv, Agree, Registers, Keeps, Sampled, Lit, Owns, Points, Binding
<1>4. CASE ~UNCHANGED <<gl, registry>>
  <2>1. PICK id \in Injection(names, 1 .. Cardinality(names)) :
          /\ gl' = [FreshGl EXCEPT !.programs =
                      [p \in Range(id) |-> NewProgram(Builtin(CHOOSE n \in names : id[n] = p))]]
          /\ registry' = [n \in names |-> Object(id[n], Builtin(n))]
    BY <1>4 DEF StartGl
  <2>2. names \in SUBSET Builtins
    BY DEF Builtins, Rows
  <2>3. Cardinality(names) \in Nat
    <3>1. IsFiniteSet(app.lists)
      BY AppsAssumption DEF Inv, Inputs
    <3>2. IsFiniteSet(app.lists \cap Builtins)
      BY <3>1, FS_Subset
    <3>3. IsFiniteSet(names)
      BY <3>2, FS_AddElement
    <3> QED BY <3>3, FS_CardinalityType
  <2> HIDE DEF names
  <2>4. /\ Agree(gl', registry') /\ Sampled(gl') /\ Lit(gl') /\ Owns(gl', registry')
        /\ Points(registry') /\ gl'.up = TRUE /\ gl'.current = None
    BY <2>1, <2>2, <2>3, FirstPrograms
  <2>5. Binding'
    BY <1>1, <2>4 DEF Binding
  <2> QED BY <1>2, <2>4, <2>5 DEF Inv
<1> QED BY <1>3, <1>4

LEMMA ShutdownKeeps ==
  ASSUME Inv, Shutdown
  PROVE  Inv'
<1>1. /\ gl.up /\ gl' = NoGl /\ registry' = <<>> /\ images' = {} /\ fonts' = {} /\ drawn' = None
      /\ UNCHANGED <<app, last, contexts>>
  BY DEF Shutdown
<1>2. /\ Agree(gl', registry') /\ Sampled(gl') /\ Lit(gl') /\ Owns(gl', registry')
      /\ Points(registry') /\ ~gl'.up
  BY <1>1, NothingAgrees
<1>3. Inputs' /\ RunsItsOwnProgram'
  BY <1>1 DEF Inv, Inputs, RunsItsOwnProgram
<1>4. Binding'
  <2>1. contexts = 1
    BY <1>1 DEF Inv, Binding
  <2> QED BY <1>1, <1>2, <2>1 DEF Binding
<1> QED BY <1>2, <1>3, <1>4 DEF Inv

(* Textures change what the units hold, and nothing else.                  *)
LEMMA UnitsFacts ==
  ASSUME NEW g, NEW reg, Agree(g, reg), Sampled(g), Owns(g, reg),
         NEW units \in [Unit -> Image \cup Palette \cup {None}], g.active \in Unit
  PROVE  LET h == [g EXCEPT !.units = units]
         IN /\ Agree(h, reg) /\ Sampled(h) /\ Lit(h) /\ Owns(h, reg)
            /\ h.up = g.up /\ h.current = g.current
<1> DEFINE h == [g EXCEPT !.units = units]
<1>1. h = Context(g.up, g.programs, g.doomed, g.current, units, g.active, g.objects)
  BY DEF Agree, IsContext, Context
<1> HIDE DEF h
<1>2. /\ IsContext(h) /\ h.up = g.up /\ h.programs = g.programs /\ h.doomed = g.doomed
      /\ h.current = g.current /\ h.units = units /\ h.active = g.active
      /\ h.objects = g.objects
  BY <1>1, ContextFields
<1>3. Agree(h, reg)
  BY <1>2 DEF Agree, Registers, Keeps
<1>4. Sampled(h) /\ Lit(h) /\ Owns(h, reg)
  BY <1>2 DEF Sampled, Lit, Owns
<1> QED BY <1>2, <1>3, <1>4 DEF h

LEMMA TextureKeeps ==
  ASSUME Inv, NEW i \in Image, TextureArrives(i) \/ TextureLeaves(i)
  PROVE  Inv'
<1>1. PICK units \in [Unit -> Image \cup Palette \cup {None}] : gl' = [gl EXCEPT !.units = units]
  <2>1. gl.units \in [Unit -> Image \cup Palette \cup {None}]
    BY DEF Inv, Lit
  <2>2. CASE TextureArrives(i)
    <3> DEFINE units == [gl.units EXCEPT ![gl.active] = None]
    <3>1. units \in [Unit -> Image \cup Palette \cup {None}]
      BY <2>1
    <3>2. gl' = [gl EXCEPT !.units = units]
      BY <2>2 DEF TextureArrives
    <3> QED BY <3>1, <3>2
  <2>3. CASE TextureLeaves(i)
    <3> DEFINE units == [u \in Unit |-> IF gl.units[u] = i THEN None ELSE gl.units[u]]
    <3>1. units \in [Unit -> Image \cup Palette \cup {None}]
      BY <2>1
    <3>2. gl' = [gl EXCEPT !.units = units]
      BY <2>3 DEF TextureLeaves
    <3> QED BY <3>1, <3>2
  <2> QED BY <2>2, <2>3
<1>2. /\ gl.up /\ images' \subseteq images \cup {i} /\ drawn' = None
      /\ UNCHANGED <<app, registry, last, contexts, fonts>>
  BY DEF TextureArrives, TextureLeaves
<1>3. /\ Agree(gl, registry) /\ Sampled(gl) /\ Owns(gl, registry) /\ gl.active \in Unit
  BY DEF Inv, Lit
<1> DEFINE h == [gl EXCEPT !.units = units]
<1>4. /\ Agree(h, registry) /\ Sampled(h) /\ Lit(h) /\ Owns(h, registry)
      /\ h.up = gl.up /\ h.current = gl.current
  BY <1>3, UnitsFacts
<1> HIDE DEF h
<1>5. gl' = h
  BY <1>1 DEF h
<1>6. /\ Agree(gl', registry') /\ Sampled(gl') /\ Lit(gl') /\ Owns(gl', registry')
  BY <1>2, <1>4, <1>5
<1>7. Points(registry') /\ Binding' /\ Inputs' /\ RunsItsOwnProgram'
  BY <1>2, <1>4, <1>5 DEF Inv, Points, Binding, Inputs, RunsItsOwnProgram
<1> QED BY <1>6, <1>7 DEF Inv

LEMMA FontKeeps ==
  ASSUME Inv, NEW x \in DOMAIN Atlas, FontArrives(x) \/ FontLeaves(x)
  PROVE  Inv'
<1>1. /\ fonts' \subseteq fonts \cup {x} /\ drawn' = None
      /\ UNCHANGED <<app, registry, gl, last, contexts, images>>
  BY DEF FontArrives, FontLeaves
<1> QED BY <1>1 DEF Inv, Inputs, Agree, Registers, Keeps, Sampled, Lit, Owns, Points, Binding,
        RunsItsOwnProgram

LEMMA InitKeeps == MaxContexts = 1 /\ Init => Inv
<1> SUFFICES ASSUME MaxContexts = 1, Init PROVE Inv
  OBVIOUS
<1>1. /\ app \in Apps /\ registry = <<>> /\ gl = NoGl /\ last = None /\ contexts = 0
      /\ images = {} /\ fonts = {} /\ drawn = None
  BY DEF Init
<1>2. /\ Agree(gl, registry) /\ Sampled(gl) /\ Lit(gl) /\ Owns(gl, registry)
      /\ Points(registry) /\ ~gl.up
  BY <1>1, NothingAgrees
<1>3. Inputs /\ Binding /\ RunsItsOwnProgram
  BY <1>1, <1>2 DEF Inputs, Binding, RunsItsOwnProgram
<1> QED BY <1>2, <1>3 DEF Inv

LEMMA NextKeeps == MaxContexts = 1 /\ Inv /\ [Next]_vars => Inv'
<1> SUFFICES ASSUME MaxContexts = 1, Inv, [Next]_vars PROVE Inv'
  OBVIOUS
<1>1. CASE StartGl
  BY <1>1, StartKeeps
<1>2. ASSUME NEW name \in DynamicName, NEW source \in app.creates, CreateProgram(name, source)
      PROVE  Inv'
  BY <1>2, CreateKeeps
<1>3. CASE Render
  BY <1>3, RenderKeeps
<1>4. CASE Shutdown
  BY <1>4, ShutdownKeeps
<1>5. ASSUME NEW i \in Image, TextureArrives(i) \/ TextureLeaves(i) PROVE Inv'
  BY <1>5, TextureKeeps
<1>6. ASSUME NEW x \in DOMAIN Atlas, FontArrives(x) \/ FontLeaves(x) PROVE Inv'
  BY <1>6, FontKeeps
<1>7. CASE UNCHANGED vars
  BY <1>7 DEF vars, Inv, Inputs, Agree, Registers, Keeps, Sampled, Lit, Owns, Points, Binding,
     RunsItsOwnProgram
<1> QED BY <1>1, <1>2, <1>3, <1>4, <1>5, <1>6, <1>7 DEF Next

(* What the invariant says of the objects.                                 *)
LEMMA InvOwns == Inv => OwnsGlObjects
<1> SUFFICES ASSUME Inv PROVE OwnsGlObjects
  OBVIOUS
<1>1. TypeOK
  <2>1. ASSUME NEW p \in Range(gl.programs) PROVE Range(p.samplers) \subseteq Unit
    <3>1. PICK q \in DOMAIN gl.programs : p = gl.programs[q]
      BY DEF Range
    <3> QED BY <3>1 DEF Inv, Sampled, Range
  <2> QED BY <2>1 DEF Inv, Inputs, Lit, TypeOK
<1>2. DOMAIN gl.programs = {registry[n].id : n \in DOMAIN registry} \cup gl.doomed
  BY DEF Inv, Agree, Registers, Keeps
<1>3. gl.doomed \subseteq {gl.current} /\ gl.current \in DOMAIN gl.programs \cup {None}
  BY DEF Inv, Agree, Keeps
<1>4. \A n \in DOMAIN registry :
        /\ gl.programs[registry[n].id].what = registry[n].what
        /\ \A k \in DOMAIN registry[n].enabled : PointsInto(registry[n], registry[n].enabled[k])
  BY DEF Inv, Agree, Registers, Points
<1>5. gl.objects = UNION {Owned(registry[n]) : n \in DOMAIN registry}
  BY DEF Inv, Owns
<1> QED BY <1>1, <1>2, <1>3, <1>4, <1>5 DEF OwnsGlObjects

(* A draw runs the shaders of the program it was asked for: although only  *)
(* a change of program is told to GL (program_base.cc:144-149), and        *)
(* programs are created over one another and deleted while current, the    *)
(* program that is remembered as bound is the current one.  A second       *)
(* context breaks this: the run of DeclPrograms_restart.cfg shows how.     *)
THEOREM DrawsRunTheirOwnProgram ==
  ASSUME MaxContexts = 1
  PROVE  Spec => []RunsItsOwnProgram
<1>1. Init => Inv
  BY InitKeeps
<1>2. Inv /\ [Next]_vars => Inv'
  BY NextKeeps
<1>3. Inv => RunsItsOwnProgram
  BY DEF Inv
<1> QED BY <1>1, <1>2, <1>3, PTL DEF Spec

(* The programs GL holds are those of the registry, and at most the        *)
(* current one if it was replaced; every buffer and vertex array belongs   *)
(* to an object of the registry, and its attributes point to arrays it     *)
(* holds (program_base.cc:46-62, program.cc:123-183).                      *)
THEOREM ObjectsAreOwned ==
  ASSUME MaxContexts = 1
  PROVE  Spec => []OwnsGlObjects
<1>1. Init => Inv
  BY InitKeeps
<1>2. Inv /\ [Next]_vars => Inv'
  BY NextKeeps
<1> QED BY <1>1, <1>2, InvOwns, PTL DEF Spec

-----------------------------------------------------------------------------
(* What the textures and arrays of a draw are read from.                   *)

(* No two samplers of a draw have the same unit.                           *)
LEMMA UnitsDiffer ==
  ASSUME NEW on \in SUBSET Nat, IsFiniteSet(on), NEW i \in on, NEW j \in on, i # j
  PROVE  UnitOf(on, i) # UnitOf(on, j)
<1>1. ASSUME NEW l \in on, NEW m \in on, l < m PROVE UnitOf(on, l) < UnitOf(on, m)
  <2> DEFINE below(n) == {k \in on : k < n}
             rest == below(m) \ {l}
  <2>1. IsFiniteSet(below(m)) /\ l \in below(m) /\ below(l) \subseteq rest
    <3>1. IsFiniteSet(below(m))
      BY FS_Subset
    <3>2. l \in Nat /\ m \in Nat /\ \A k \in on : k \in Nat
      OBVIOUS
    <3>3. l \in below(m)
      BY <1>1, <3>2
    <3>4. \A k \in below(l) : k \in below(m) /\ k # l
      BY <1>1, <3>2
    <3> QED BY <3>1, <3>3, <3>4
  <2>2. /\ IsFiniteSet(rest) /\ Cardinality(rest) = Cardinality(below(m)) - 1
        /\ Cardinality(below(m)) \in Nat
    <3> HIDE DEF below
    <3> QED BY <2>1, FS_RemoveElement, FS_CardinalityType
  <2>3. Cardinality(below(l)) <= Cardinality(rest) /\ IsFiniteSet(below(l))
    <3> HIDE DEF below, rest
    <3> QED BY <2>1, <2>2, FS_Subset
  <2>4. Cardinality(below(l)) \in Nat
    BY <2>3, FS_CardinalityType
  <2>5. UnitOf(on, l) = Cardinality(below(l)) /\ UnitOf(on, m) = Cardinality(below(m))
    BY DEF UnitOf
  <2> HIDE DEF below, rest
  <2> QED BY <2>2, <2>3, <2>4, <2>5
<1>2. \A l, m \in on : l < m => UnitOf(on, l) # UnitOf(on, m)
  <2>1. ASSUME NEW l \in on, NEW m \in on, l < m PROVE UnitOf(on, l) # UnitOf(on, m)
    <3>1. \A n \in on : UnitOf(on, n) \in Nat
      <4>1. ASSUME NEW n \in on PROVE UnitOf(on, n) \in Nat
        BY FS_Subset, FS_CardinalityType DEF UnitOf
      <4> QED BY <4>1
    <3> QED BY <1>1, <2>1, <3>1
  <2> QED BY <2>1
<1> QED BY <1>2

Differ(what, list) == \A i, j \in On(what, list) : list[i][1] = list[j][1] => i = j

\* Every sampler leads to a unit that has the texture it was given.
AreRead(what, s, old, units) ==
  LET on    == On(what, s.samplers)
      to    == Over(ToldUnits(what, s.samplers), old)
      after == UnitsAfter(units, what, s.samplers)
  IN /\ DOMAIN to = {s.samplers[i][1] : i \in on} \cup DOMAIN old
     /\ \A i \in on : after[to[s.samplers[i][1]]] = s.samplers[i][2]

(* So it is for the samplers of a draw, whatever they led to before.       *)
LEMMA SamplersRead ==
  ASSUME NEW what, NEW s, Sound(what, s), NEW old, NEW units, Differ(what, s.samplers)
  PROVE  AreRead(what, s, old, units)
<1> DEFINE list  == s.samplers
           on    == On(what, list)
           told  == ToldUnits(what, list)
           to    == Over(told, old)
           after == UnitsAfter(units, what, list)
<1>1. on \in SUBSET Nat /\ IsFiniteSet(on)
  BY DEF Sound, On
<1>2. \A i \in on : UnitOf(on, i) \in Unit
  BY UnitFacts
<1>3. \A i, j \in on : list[i][1] = list[j][1] => i = j
  BY DEF Differ
<1>4. \A i, j \in on : UnitOf(on, i) = UnitOf(on, j) => i = j
  BY <1>1, UnitsDiffer
<1>5. told = [k \in {list[i][1] : i \in on} |-> UnitOf(on, CHOOSE i \in on : list[i][1] = k)]
  BY DEF ToldUnits
<1>6. \A u \in Unit : after[u] = IF \E i \in on : UnitOf(on, i) = u
                                 THEN list[CHOOSE i \in on : UnitOf(on, i) = u][2] ELSE units[u]
  BY DEF UnitsAfter
<1> HIDE DEF on, told, after, list
<1>7. /\ DOMAIN to = DOMAIN told \cup DOMAIN old
      /\ \A k \in DOMAIN told : to[k] = told[k]
  BY OverFacts
<1> HIDE DEF to
<1>8. DOMAIN to = {list[i][1] : i \in on} \cup DOMAIN old
  BY <1>5, <1>7
<1>9. ASSUME NEW i \in on PROVE after[to[list[i][1]]] = list[i][2]
  <2>1. (CHOOSE j \in on : list[j][1] = list[i][1]) = i
    BY <1>3
  <2>2. to[list[i][1]] = UnitOf(on, i)
    BY <1>5, <1>7, <2>1
  <2>3. (CHOOSE j \in on : UnitOf(on, j) = UnitOf(on, i)) = i
    BY <1>4
  <2> QED BY <1>2, <1>6, <2>2, <2>3
<1> QED BY <1>8, <1>9 DEF AreRead, list, on, told, to, after

(* An array as GL reads it through an attribute.                           *)
IsRead(r, a) == r.data = a.data /\ r.comps = a.comps /\ r.n = Size(a) \div a.comps

\* The arrays of a draw, and no others, each behind the attribute it is for.
HasArrays(what, s, p) ==
  LET streamed == {s.streams[i].attr : i \in Names(what, s.streams)}
      static   == {s.statics[i].attr : i \in Names(what, s.statics)}
  IN /\ DOMAIN p.enabled = streamed \cup static
     /\ \A k \in streamed : \E i \in Names(what, s.streams) :
          s.streams[i].attr = k /\ IsRead(ReadArray(p, p.enabled[k]), s.streams[i])
     /\ \A k \in static \ streamed : \E i \in Names(what, s.statics) :
          s.statics[i].attr = k /\ IsRead(ReadArray(p, p.enabled[k]), s.statics[i])

(* The object has them after the draw, whatever it had before.             *)
LEMMA ArraysRead ==
  ASSUME NEW o, IsObject(o), NEW s, Sound(o.what, s),
         \A i \in Names(o.what, s.streams) : Size(s.streams[i]) > 0
  PROVE  HasArrays(o.what, s, SetArrays(o, s))
<1> DEFINE what == o.what
           list == s.streams
           on   == Names(what, list)
           pieces == Pieces(what, list)
           p == SetArrays(o, s)
           used   == Used(what, s)
           stream == StreamAfter(o, s)
           quads   == QuadsAfter(o, s)
           indices == IndicesAfter(o, s)
           yes == TRUE
           streams == OfStreams(what, s.streams)
           statics == OfStatics(what, s.statics)
<1>1. p = Held(o.id, what, yes, used, stream, quads, indices)
  BY SetArraysFacts
<1>2. /\ on \in SUBSET (Nat \ {0}) /\ \A i \in on : Size(list[i]) \in Nat /\ Size(list[i]) > 0
      /\ DOMAIN pieces = on
      /\ \A i \in on : pieces[i] = [at |-> OffsetOf(list, on, i), size |-> Size(list[i]),
                                    data |-> list[i].data]
  BY DEF Sound, Names, Pieces, Piece
<1>3. \A i, j \in on : OffsetOf(list, on, i) = OffsetOf(list, on, j) => i = j
  <2>1. /\ \A i \in on : OffsetOf(list, on, i) \in Nat
        /\ \A i, j \in on :
              i < j => OffsetOf(list, on, i) + Size(list[i]) <= OffsetOf(list, on, j)
    <3> HIDE DEF on, list
    <3> QED BY <1>2, OffsetFacts
  <2>2. ASSUME NEW i \in on, NEW j \in on, i < j
        PROVE  OffsetOf(list, on, i) # OffsetOf(list, on, j)
    <3> HIDE DEF on, list
    <3> QED BY <1>2, <2>1, <2>2
  <2> HIDE DEF on, list
  <2> QED BY <1>2, <2>2
<1>4. on # {} => stream = {pieces[i] : i \in on}
  <2> SUFFICES ASSUME on # {} PROVE stream = {pieces[i] : i \in on}
    OBVIOUS
  <2>1. \E i \in DOMAIN list : Size(list[i]) > 0
    BY <1>2 DEF Names
  <2>2. stream = Written({}, pieces)
    BY <2>1 DEF StreamAfter
  <2>3. \A i \in on : pieces[i] \in Written({}, pieces)
    BY WrittenFacts DEF Sound
  <2>4. \A x \in Written({}, pieces) : \E i \in on : x = pieces[i]
    BY <1>2 DEF Written
  <2> HIDE DEF stream, on, pieces
  <2> QED BY <2>2, <2>3, <2>4
<1> HIDE DEF pieces, used, stream, quads, indices, yes, p
<1>5. p.enabled = used /\ p.stream = stream
  BY <1>1 DEF Held
<1>6. /\ used = Over(streams, statics)
      /\ DOMAIN streams = {list[i].attr : i \in on}
      /\ DOMAIN statics = {s.statics[i].attr : i \in Names(what, s.statics)}
  BY DEF used, Used, OfStreams, OfStatics
<1>7. ASSUME NEW k \in DOMAIN streams
      PROVE  \E i \in on : list[i].attr = k /\ IsRead(ReadArray(p, streams[k]), list[i])
  <2> DEFINE i == PlaceOf(what, list, k)
  <2>1. i \in on /\ list[i].attr = k
    BY <1>6 DEF PlaceOf
  <2>2. streams[k] = [from |-> "stream", at |-> pieces[i].at, comps |-> list[i].comps]
    BY <1>6 DEF OfStreams, pieces
  <2> HIDE DEF i, streams
  <2>3. \A x \in stream : x.at = pieces[i].at => x = pieces[i]
    <3>1. ASSUME NEW j \in on, pieces[j].at = pieces[i].at PROVE j = i
      BY <1>2, <1>3, <2>1, <3>1
    <3> HIDE DEF on
    <3> QED BY <1>4, <2>1, <3>1
  <2> DEFINE q == streams[k]
  <2>4. (CHOOSE x \in p.stream : x.at = q.at) = pieces[i]
    <3>1. q.at = pieces[i].at /\ pieces[i] \in p.stream
      BY <1>4, <1>5, <2>1, <2>2
    <3>2. \A x \in p.stream : x.at = q.at => x = pieces[i]
      BY <1>5, <2>3, <3>1
    <3> HIDE DEF q
    <3> QED BY <3>1, <3>2
  <2>5. ReadArray(p, q)
          = [data |-> pieces[i].data, n |-> pieces[i].size \div list[i].comps,
             comps |-> list[i].comps]
    <3>1. q.from = "stream" /\ q.comps = list[i].comps
      BY <2>2
    <3> HIDE DEF q
    <3> QED BY <2>4, <3>1 DEF ReadArray
  <2> HIDE DEF on, list
  <2>6. IsRead(ReadArray(p, streams[k]), list[i])
    BY <1>2, <2>1, <2>5 DEF IsRead
  <2> QED BY <2>1, <2>6
<1>8. ASSUME NEW k \in DOMAIN statics
      PROVE  \E i \in Names(what, s.statics) :
               s.statics[i].attr = k /\ IsRead(ReadArray(p, statics[k]), s.statics[i])
  <2> DEFINE i == PlaceOf(what, s.statics, k)
             a == s.statics[i]
  <2>1. i \in Names(what, s.statics) /\ a.attr = k
    BY <1>6 DEF PlaceOf
  <2>2. statics[k] = [from |-> "static", at |-> Storage(a), comps |-> a.comps]
    BY <1>6 DEF OfStatics
  <2> HIDE DEF i, statics
  <2>3. ReadArray(p, statics[k]) = [data |-> a.data, n |-> Size(a) \div a.comps, comps |-> a.comps]
    BY <2>2 DEF ReadArray, Storage, Size
  <2>4. IsRead(ReadArray(p, statics[k]), a)
    BY <2>3 DEF IsRead
  <2> QED BY <2>1, <2>4
<1> HIDE DEF streams, statics, on, list
<1>9. /\ DOMAIN used = DOMAIN streams \cup DOMAIN statics
      /\ \A k \in DOMAIN streams : used[k] = streams[k]
      /\ \A k \in DOMAIN statics : k \notin DOMAIN streams => used[k] = statics[k]
  <2>1. /\ DOMAIN Over(streams, statics) = DOMAIN streams \cup DOMAIN statics
        /\ \A k \in DOMAIN streams : Over(streams, statics)[k] = streams[k]
        /\ \A k \in DOMAIN statics :
             k \notin DOMAIN streams => Over(streams, statics)[k] = statics[k]
    BY OverFacts
  <2> QED BY <1>6, <2>1
<1> QED BY <1>5, <1>6, <1>7, <1>8, <1>9 DEF HasArrays, p, on, list

(* What a draw is recorded to have read, and what it leaves of the         *)
(* programs: of its own, what it was told before and now, of the others    *)
(* what was there.                                                         *)
SamplersAfter(p, what, s) == Over(ToldUnits(what, s.samplers), p.samplers)

ValuesAfter(p, what, s) == Over(ToldValues(what, s), p.values)

ReadOf(g, o, s) ==
  LET to    == SamplersAfter(g.programs[o.id], o.what, s)
      after == UnitsAfter(g.units, o.what, s.samplers)
      p     == SetArrays(o, s)
  IN [what     |-> o.what,
      samplers |-> [k \in DOMAIN to |-> after[to[k]]],
      values   |-> ValuesAfter(g.programs[o.id], o.what, s),
      arrays   |-> [k \in DOMAIN p.enabled |-> ReadArray(p, p.enabled[k])],
      indices  |-> s.indices,
      count    |-> IF s.indexed THEN s.count ELSE VertexCount(s)]

LEMMA DrawnFacts ==
  ASSUME Inv, gl.up, NEW name \in DOMAIN registry, NEW f, NEW slots, NEW s,
         DrawPrepared(name, f, slots, s)
  PROVE  LET o   == registry[name]
             old == gl.programs[o.id]
         IN /\ drawn' = [what |-> o.what, fields |-> f, slots |-> slots, read |-> ReadOf(gl, o, s)]
            /\ IsObject(o) /\ IsWhat(o.what)
            /\ o.id \in DOMAIN gl.programs /\ old.what = o.what
            /\ \A q \in DOMAIN gl'.programs :
                 /\ q \in DOMAIN gl.programs
                 /\ q # o.id => gl'.programs[q] = gl.programs[q]
            /\ gl'.programs[o.id] = Program(o.what, SamplersAfter(old, o.what, s),
                                            ValuesAfter(old, o.what, s))
<1> DEFINE o   == registry[name]
           old == gl.programs[o.id]
           what == o.what
           g == IF Bound(o.id, last) THEN gl ELSE UseProgram(gl, o.id)
           p == SetArrays(o, s)
           g2 == SetUniforms(g, what, s)
           h == [g2 EXCEPT !.objects = @ \cup Owned(p)]
           to      == SamplersAfter(old, what, s)
           values  == ValuesAfter(old, what, s)
           after   == UnitsAfter(gl.units, what, s.samplers)
           active  == ActiveAfter(gl.active, what, s.samplers)
<1>1. /\ gl' = h
      /\ drawn' = [what |-> what, fields |-> f, slots |-> slots, read |-> Reads(h, p, s)]
  BY DEF DrawPrepared
<1>2. /\ IsObject(o) /\ IsWhat(what) /\ o.id \in DOMAIN gl.programs /\ o.id # None
      /\ old.what = what /\ IsProgram(old) /\ gl.current = last /\ Agree(gl, registry)
  BY AppsAssumption DEF Inv, Agree, Registers, Keeps, Binding
<1>3. /\ IsContext(g) /\ g.current = o.id /\ g.units = gl.units /\ g.active = gl.active
      /\ o.id \in DOMAIN g.programs
      /\ \A q \in DOMAIN g.programs : q \in DOMAIN gl.programs /\ g.programs[q] = gl.programs[q]
  <2>1. CASE Bound(o.id, last)
    <3>1. g = gl /\ gl.current = o.id
      BY <1>2, <2>1 DEF Bound
    <3> HIDE DEF g, o
    <3> QED BY <1>2, <3>1 DEF Agree
  <2>2. CASE ~Bound(o.id, last)
    <3> DEFINE u == UseProgram(gl, o.id)
    <3>1. /\ Agree(u, registry) /\ u.current = o.id /\ u.units = gl.units /\ u.active = gl.active
          /\ \A q \in DOMAIN u.programs : q \in DOMAIN gl.programs /\ u.programs[q] = gl.programs[q]
      BY <1>2, UseProgramAgrees
    <3>2. g = u
      BY <2>2
    <3> HIDE DEF g, u
    <3>3. IsContext(u) /\ o.id \in DOMAIN u.programs
      BY <3>1 DEF Agree, Registers
    <3> QED BY <3>1, <3>2, <3>3
  <2> QED BY <2>1, <2>2
<1>4. g.programs[o.id] = old
  BY <1>3
<1> HIDE DEF g
<1> DEFINE new == Program(what, to, values)
           ps == [g.programs EXCEPT ![o.id] = new]
<1>5. g2 = Context(g.up, ps, g.doomed, o.id, after, active, g.objects)
  <2> DEFINE t == ToldUnits(what, s.samplers)
             v == ToldValues(what, s)
  <2>1. g2 = Context(g.up, [g.programs EXCEPT ![g.current] = Supplied(g.programs[g.current], t, v)],
                     g.doomed, g.current, UnitsAfter(g.units, what, s.samplers),
                     ActiveAfter(g.active, what, s.samplers), g.objects)
    BY <1>2, <1>3, SetUniformsFacts
  <2>2. to = Over(t, old.samplers) /\ values = Over(v, old.values)
    BY DEF SamplersAfter, ValuesAfter
  <2> HIDE DEF t, v, o, old, to, values
  <2>3. Supplied(old, t, v) = Program(old.what, Over(t, old.samplers), Over(v, old.values))
    BY <1>2, SuppliedFacts
  <2>4. Supplied(old, t, v) = new
    BY <1>2, <2>2, <2>3
  <2> HIDE DEF g2, new
  <2> QED BY <1>3, <1>4, <2>1, <2>4
<1> DEFINE objects == g.objects \cup Owned(p)
<1>6. h = Context(g.up, ps, g.doomed, o.id, after, active, objects)
  <2> HIDE DEF ps, after, active, o
  <2>1. IsContext(g2) /\ g2.objects = g.objects
    BY <1>5, ContextFields
  <2>2. h = [g2 EXCEPT !.objects = objects]
    BY <2>1
  <2> HIDE DEF g2, objects, h
  <2>3. h = Context(g2.up, g2.programs, g2.doomed, g2.current, g2.units, g2.active, objects)
    BY <2>1, <2>2, ObjectsFacts
  <2>4. /\ g2.up = g.up /\ g2.programs = ps /\ g2.doomed = g.doomed /\ g2.current = o.id
        /\ g2.units = after /\ g2.active = active
    BY <1>5, ContextFields
  <2> QED BY <2>3, <2>4
<1> HIDE DEF h, after, active, objects
<1>7. h.programs = ps /\ h.current = o.id /\ h.units = after
  <2> HIDE DEF ps, o
  <2> QED BY <1>6, ContextFields
<1>8. ps[o.id] = new
  BY <1>3
<1>9. new.what = what /\ new.samplers = to /\ new.values = values
  BY DEF Program
<1>10. Reads(h, p, s) = ReadOf(gl, o, s)
  <2> HIDE DEF ps, new
  <2>1. h.programs[h.current] = new /\ h.current # None
    BY <1>2, <1>7, <1>8
  <2> DEFINE q == h.programs[h.current]
             old2 == q.samplers
  <2>2. Reads(h, p, s) =
          [what     |-> q.what,
           samplers |-> [k \in DOMAIN q.samplers |-> h.units[q.samplers[k]]],
           values   |-> q.values,
           arrays   |-> [k \in DOMAIN p.enabled |-> ReadArray(p, p.enabled[k])],
           indices  |-> s.indices,
           count    |-> IF s.indexed THEN s.count ELSE VertexCount(s)]
    BY <2>1 DEF Reads
  <2>3. q.what = what /\ q.samplers = to /\ q.values = values /\ h.units = after
    BY <1>7, <1>9, <2>1
  <2>4. [k \in DOMAIN q.samplers |-> h.units[q.samplers[k]]] = [k \in DOMAIN to |-> after[to[k]]]
    <3> HIDE DEF q, to
    <3> QED BY <2>3
  <2>5. ReadOf(gl, o, s) =
          [what     |-> what,
           samplers |-> [k \in DOMAIN to |-> after[to[k]]],
           values   |-> values,
           arrays   |-> [k \in DOMAIN p.enabled |-> ReadArray(p, p.enabled[k])],
           indices  |-> s.indices,
           count    |-> IF s.indexed THEN s.count ELSE VertexCount(s)]
    BY DEF ReadOf, after
  <2> DEFINE a == [k \in DOMAIN q.samplers |-> h.units[q.samplers[k]]]
             b == [k \in DOMAIN to |-> after[to[k]]]
             c == [k \in DOMAIN p.enabled |-> ReadArray(p, p.enabled[k])]
             n == IF s.indexed THEN s.count ELSE VertexCount(s)
  <2>6. a = b
    BY <2>4
  <2>7. Reads(h, p, s) = [what |-> q.what, samplers |-> a, values |-> q.values, arrays |-> c,
                          indices |-> s.indices, count |-> n]
    BY <2>2
  <2>8. ReadOf(gl, o, s) = [what |-> what, samplers |-> b, values |-> values, arrays |-> c,
                            indices |-> s.indices, count |-> n]
    BY <2>5
  <2> HIDE DEF a, b, c, n, q, to, values, o, p
  <2> QED BY <2>3, <2>6, <2>7, <2>8
<1>11. \A q \in DOMAIN gl'.programs :
         /\ q \in DOMAIN gl.programs
         /\ q # o.id => gl'.programs[q] = gl.programs[q]
  <2> HIDE DEF new
  <2> QED BY <1>1, <1>3, <1>7
<1>12. gl'.programs[o.id] = new
  BY <1>1, <1>7, <1>8
<1> QED BY <1>1, <1>2, <1>10, <1>11, <1>12

-----------------------------------------------------------------------------
(* What a program can have been told by its draws.                         *)

IsPlain(what) == what.kind = "builtin" /\ what.of # "textbox"

RowSamplers(row) ==
  {SamplerOf(row.images[i]) : i \in DOMAIN row.images} \cup
  {SamplerOf(row.slots[i]) : i \in DOMAIN row.slots}

RowValues(row) ==
  (DOMAIN row.need \ {row.streamed[i] : i \in DOMAIN row.streamed}) \cup row.numbers

TextureKeys(source) ==
  LET d == Dynamics[source].declares
  IN {d.uniforms[i].key : i \in
        {i \in DOMAIN d.uniforms : \E c \in Dynamics[source].calls, u \in Uses :
           u.use = c.use /\ i \in TextureUniforms(d, c.fields, u.slots)}}

Expected(p) ==
  /\ IsPlain(p.what) => /\ DOMAIN p.samplers \subseteq RowSamplers(Rows[p.what.of])
                        /\ DOMAIN p.values \subseteq RowValues(Rows[p.what.of])
  /\ p.what.kind = "dynamic" => DOMAIN p.samplers \subseteq TextureKeys(p.what.of)

Told(g) == \A q \in DOMAIN g.programs : Expected(g.programs[q])

LEMMA NewIsExpected ==
  ASSUME NEW what
  PROVE  Expected(NewProgram(what))
<1> DEFINE p == NewProgram(what)
<1>1. DOMAIN p.samplers = {} /\ DOMAIN p.values = {}
  BY DEF NewProgram
<1> HIDE DEF p
<1> QED BY <1>1 DEF Expected, p

LEMMA CreateTells ==
  ASSUME Inv, Told(gl), NEW name \in DynamicName, NEW source \in app.creates,
         CreateProgram(name, source)
  PROVE  Told(gl')
<1>1. CASE UNCHANGED gl
  BY <1>1 DEF Told
<1>2. CASE ~UNCHANGED gl
  <2> DEFINE id == NewName(DOMAIN gl.programs)
             what == Dynamic(source)
             ps == Over([p \in {id} |-> NewProgram(what)], gl.programs)
             b == Built(gl, id, what)
             old == registry[name]
             h == IF name \in DOMAIN registry THEN Destroy(b, old) ELSE b
  <2>1. gl' = h /\ IsContext(gl)
    BY <1>2 DEF CreateProgram, Inv, Agree
  <2>2. \A p \in DOMAIN ps : Expected(ps[p])
    <3>1. /\ DOMAIN ps = {id} \cup DOMAIN gl.programs /\ ps[id] = NewProgram(what)
          /\ \A p \in DOMAIN gl.programs : p # id => ps[p] = gl.programs[p]
      BY DEF Over
    <3> HIDE DEF ps, id, what
    <3> QED BY <3>1, NewIsExpected DEF Told
  <2>3. b = Context(gl.up, ps, gl.doomed, gl.current, gl.units, gl.active, gl.objects)
    BY <2>1, BuiltFacts
  <2> HIDE DEF ps, id, what, b, old
  <2>4. IsContext(b) /\ b.programs = ps
    BY <2>3, ContextFields
  <2>5. /\ DOMAIN Destroy(b, old).programs \subseteq DOMAIN ps
        /\ \A p \in DOMAIN Destroy(b, old).programs : Destroy(b, old).programs[p] = ps[p]
    <3> DEFINE D == Destroy(b, old)
               rest == [p \in DOMAIN b.programs \ {old.id} |-> b.programs[p]]
    <3>1. \/ D = Context(b.up, b.programs, b.doomed \cup {old.id}, b.current, b.units,
                         b.active, b.objects \ Owned(old))
          \/ D = Context(b.up, rest, b.doomed, b.current, b.units, b.active,
                         b.objects \ Owned(old))
      BY <2>4, DestroyFacts
    <3> HIDE DEF D, rest
    <3>2. D.programs = b.programs \/ D.programs = rest
      BY <3>1, ContextFields
    <3> QED BY <2>4, <3>2 DEF rest, D
  <2>6. Told(h)
    <3> DEFINE D == Destroy(b, old)
    <3>1. h = D \/ h = b
      OBVIOUS
    <3> HIDE DEF h, D
    <3> QED BY <2>2, <2>4, <2>5, <3>1 DEF Told, D
  <2> HIDE DEF h
  <2> QED BY <2>1, <2>6
<1> QED BY <1>1, <1>2

LEMMA StartTells ==
  ASSUME Told(gl), StartGl
  PROVE  Told(gl')
<1>1. CASE UNCHANGED gl
  BY <1>1 DEF Told
<1>2. CASE ~UNCHANGED gl
  <2> DEFINE names == {"palette"} \cup (app.lists \cap Builtins)
  <2>1. PICK id \in Injection(names, 1 .. Cardinality(names)) :
          gl' = [FreshGl EXCEPT !.programs =
                   [p \in Range(id) |-> NewProgram(Builtin(CHOOSE n \in names : id[n] = p))]]
    BY <1>2 DEF StartGl
  <2> DEFINE ps == [p \in Range(id) |-> NewProgram(Builtin(CHOOSE n \in names : id[n] = p))]
             off == [u \in Unit |-> None]
             yes == TRUE
             empty == <<>>
  <2>2. \A p \in DOMAIN ps : Expected(ps[p])
    BY NewIsExpected
  <2>3. FreshGl = Context(yes, empty, {}, None, off, 0, {})
    BY FreshFacts
  <2> HIDE DEF ps, off, yes, empty
  <2>4. IsContext(FreshGl)
    BY <2>3, ContextFields
  <2>5. gl' = Context(FreshGl.up, ps, FreshGl.doomed, FreshGl.current, FreshGl.units,
                      FreshGl.active, FreshGl.objects)
    BY <2>1, <2>4, ProgramsFacts DEF ps
  <2>6. gl'.programs = ps
    BY <2>5, ContextFields
  <2> QED BY <2>2, <2>6 DEF Told
<1> QED BY <1>1, <1>2

LEMMA TextureTells ==
  ASSUME Inv, Told(gl), NEW i \in Image, TextureArrives(i) \/ TextureLeaves(i)
  PROVE  Told(gl')
<1>1. \E units : gl' = [gl EXCEPT !.units = units]
  BY DEF TextureArrives, TextureLeaves
<1>2. PICK units : gl' = [gl EXCEPT !.units = units]
  BY <1>1
<1>3. gl'.programs = gl.programs
  BY <1>2 DEF Inv, Agree, IsContext, Context
<1> QED BY <1>3 DEF Told

LEMMA NothingIsTold == Told(NoGl)
<1> DEFINE off == [u \in Unit |-> None]
           no == FALSE
<1>1. NoGl = Context(no, <<>>, {}, None, off, 0, {})
  BY FreshFacts
<1> HIDE DEF off, no
<1>2. NoGl.programs = <<>>
  BY <1>1, ContextFields
<1> QED BY <1>2 DEF Told

-----------------------------------------------------------------------------
(* A draw of a built-in program reads its call.                            *)

\* The textures of a row: that of the call, those of the walker, or a mask as well.
TextureKinds ==
  { << <<>>, <<>> >>, << <<"texture">>, <<>> >>, << <<"mask">>, <<"t1", "t2">> >>,
    << <<>>, <<"texture">> >>, << <<>>, <<"t1", "t2">> >>, << <<>>, PaletteSlots >> }

\* The arrays of a row.
ArrayKinds ==
  { << <<"pos">>, <<>> >>, << <<>>, <<"position">> >>, << <<"pos">>, <<"texc">> >>,
    << <<"pos", "texc">>, <<>> >>, << <<"texc">>, <<"texc2">> >>, << <<>>, <<"texc">> >> }

IsDrawn(row) ==
  /\ <<row.images, row.slots>> \in TextureKinds
  /\ <<row.streamed, row.quads>> \in ArrayKinds
  /\ \A i \in DOMAIN row.streamed :
       LET k == row.streamed[i]
       IN /\ k \notin row.numbers
          /\ row.need[k] >= IF row.indexed /\ ~row.corners THEN 8 ELSE 2
  /\ row.indexed \in BOOLEAN /\ row.corners \in BOOLEAN /\ row.elements \in BOOLEAN
  /\ ~row.indexed => row.streamed = <<"pos">> /\ row.quads = <<>> /\ ~row.corners
  /\ "elem" \notin DOMAIN row.need \cup row.numbers
  /\ row.elements => row.images = <<>>

LEMMA RowsAreDrawn == \A b \in Builtins \ {"textbox"} : IsDrawn(Rows[b])
<1>1. /\ IsDrawn(TriangleProgram) /\ IsDrawn(RectProgram) /\ IsDrawn(CircleProgram)
      /\ IsDrawn(RoundedRectProgram) /\ IsDrawn(PolyProgram) /\ IsDrawn(QuadProgram)
  BY DEF TriangleProgram, RectProgram, CircleProgram, RoundedRectProgram, PolyProgram,
         QuadProgram, IsDrawn, Shape, Row, TextureKinds, ArrayKinds
<1>2. /\ IsDrawn(TextureProgram) /\ IsDrawn(TextureCroppedProgram)
      /\ IsDrawn(CenteredTextureProgram) /\ IsDrawn(CenteredCroppedTextureProgram)
  BY DEF TextureProgram, TextureCroppedProgram, CenteredTextureProgram,
         CenteredCroppedTextureProgram, IsDrawn, Textured, Row, TextureKinds, ArrayKinds
<1>3. /\ IsDrawn(PaletteProgram) /\ IsDrawn(DefaultCompositorProgram)
      /\ IsDrawn(CompFadeProgram) /\ IsDrawn(ImgFadeProgram)
  BY DEF PaletteProgram, PaletteSlots, DefaultCompositorProgram, CompFadeProgram,
         ImgFadeProgram, IsDrawn, Compositor, Row, TextureKinds, ArrayKinds
<1>4. /\ IsDrawn(AlphaMultProgram) /\ IsDrawn(ColorMultProgram) /\ IsDrawn(BlurHProgram)
      /\ IsDrawn(BlurVProgram) /\ IsDrawn(GBlurHProgram) /\ IsDrawn(GBlurVProgram)
      /\ IsDrawn(CrtProgram) /\ IsDrawn(FxaaProgram) /\ IsDrawn(OutlineProgram)
      /\ IsDrawn(PixilationProgram)
  BY DEF AlphaMultProgram, ColorMultProgram, BlurHProgram, BlurVProgram, GBlurHProgram,
         GBlurVProgram, CrtProgram, FxaaProgram, OutlineProgram, PixilationProgram, IsDrawn,
         Effect, Row, TextureKinds, ArrayKinds
<1> QED
  BY <1>1, <1>2, <1>3, <1>4 DEF Builtins, Rows

LEMMA PassedFacts ==
  ASSUME NEW use \in Uses
  PROVE  DOMAIN use.slots \in {{}, {"texture"}, {"fbo"}, {"t1", "t2"}}
<1>1. CASE use = Use("atomic", NoFields)
  BY <1>1 DEF Use, NoFields
<1>2. CASE use \in OnOne
  <2>1. PICK p \in Palette : use \in {Use("effect", [texture |-> p]), Use("palette", [fbo |-> p])}
    BY <1>2 DEF OnOne
  <2>2. CASE use = Use("effect", [texture |-> p])
    BY <2>2 DEF Use
  <2>3. CASE use = Use("palette", [fbo |-> p])
    BY <2>3 DEF Use
  <2> QED BY <2>1, <2>2, <2>3
<1>3. CASE use \in OnTwo
  <2>1. PICK p \in Palette : use \in {Use("composite", [t1 |-> p, t2 |-> q]) : q \in Palette \ {p}}
    BY <1>3 DEF OnTwo
  <2>2. PICK q \in Palette : use = Use("composite", [t1 |-> p, t2 |-> q])
    BY <2>1
  <2> QED BY <2>2 DEF Use
<1> QED BY <1>1, <1>2, <1>3 DEF Uses

(* The samplers of a draw are all different, they are those of its row for *)
(* which the call or the walker has a texture, and each has that texture.  *)
(* They are all those of its row if the walker passes what the row wants.  *)
LEMMA BuiltinTextures ==
  ASSUME NEW d, IsDrawn(Rows[d.what.of]), NEW use \in Uses, d.slots = use.slots
  PROVE  LET row  == Rows[d.what.of]
             list == BuiltinSamplers(row, d.fields, d.slots)
         IN /\ \A i, j \in DOMAIN list : list[i][1] = list[j][1] => i = j
            /\ {list[i][1] : i \in DOMAIN list} = DOMAIN AskedTextures(d)
            /\ DOMAIN AskedTextures(d) \subseteq RowSamplers(row)
            /\ IsFed(row, d.slots) => DOMAIN AskedTextures(d) = RowSamplers(row)
            /\ \A i \in DOMAIN list : AskedTextures(d)[list[i][1]] = list[i][2]
<1> DEFINE row   == Rows[d.what.of]
           list  == BuiltinSamplers(row, d.fields, d.slots)
           asked == AskedTextures(d)
           pic   == {row.images[i] : i \in DOMAIN row.images}
           given == DOMAIN d.slots \cap ToSet(row.slots)
           picked == {SamplerOf(k) : k \in pic}
           passed == {SamplerOf(k) : k \in given}
           slotted == Slotted(row, d.slots)
           n == Len(row.images)
           Goal == /\ \A i, j \in DOMAIN list : list[i][1] = list[j][1] => i = j
                   /\ {list[i][1] : i \in DOMAIN list} = DOMAIN asked
                   /\ DOMAIN asked \subseteq RowSamplers(row)
                   /\ IsFed(row, d.slots) => DOMAIN asked = RowSamplers(row)
                   /\ \A i \in DOMAIN list : asked[list[i][1]] = list[i][2]
<1>1. /\ DOMAIN asked = picked \cup passed
      /\ \A k \in pic : (\A l \in pic : SamplerOf(l) = SamplerOf(k) => l = k) =>
           asked[SamplerOf(k)] = d.fields[k].val
      /\ \A k \in given :
           SamplerOf(k) \notin picked /\ (\A l \in given : SamplerOf(l) = SamplerOf(k) => l = k) =>
           asked[SamplerOf(k)] = d.slots[k]
  <2> DEFINE ofPic == [s \in picked |-> d.fields[CHOOSE k \in pic : SamplerOf(k) = s].val]
             ofSlot == [s \in passed |-> d.slots[CHOOSE k \in given : SamplerOf(k) = s]]
             both == Over(ofPic, ofSlot)
  <2>1. asked = both
    BY DEF AskedTextures
  <2>2. /\ DOMAIN both = DOMAIN ofPic \cup DOMAIN ofSlot
        /\ \A k \in DOMAIN ofPic : both[k] = ofPic[k]
        /\ \A k \in DOMAIN ofSlot : k \notin DOMAIN ofPic => both[k] = ofSlot[k]
    <3> HIDE DEF ofPic, ofSlot
    <3> QED BY OverFacts
  <2> HIDE DEF both, asked, pic, given
  <2>3. ASSUME NEW k \in pic, \A l \in pic : SamplerOf(l) = SamplerOf(k) => l = k
        PROVE  asked[SamplerOf(k)] = d.fields[k].val
    <3>1. (CHOOSE l \in pic : SamplerOf(l) = SamplerOf(k)) = k
      BY <2>3
    <3>2. SamplerOf(k) \in picked
      OBVIOUS
    <3> HIDE DEF picked
    <3>3. SamplerOf(k) \in DOMAIN ofPic /\ ofPic[SamplerOf(k)] = d.fields[k].val
      BY <3>1, <3>2, Zenon
    <3> QED BY <2>1, <2>2, <3>3, Zenon
  <2>4. ASSUME NEW k \in given, SamplerOf(k) \notin picked,
               \A l \in given : SamplerOf(l) = SamplerOf(k) => l = k
        PROVE  asked[SamplerOf(k)] = d.slots[k]
    <3>1. (CHOOSE l \in given : SamplerOf(l) = SamplerOf(k)) = k
      BY <2>4
    <3>2. SamplerOf(k) \in passed /\ SamplerOf(k) \notin DOMAIN ofPic
      BY <2>4
    <3> HIDE DEF picked, passed
    <3>3. SamplerOf(k) \in DOMAIN ofSlot /\ ofSlot[SamplerOf(k)] = d.slots[k]
      BY <3>1, <3>2, Zenon
    <3> QED BY <2>1, <2>2, <3>2, <3>3, Zenon
  <2>5. DOMAIN asked = picked \cup passed
    BY <2>1, <2>2
  <2> QED BY <2>3, <2>4, <2>5
<1>2. /\ DOMAIN list = 1 .. n \cup {n + j : j \in slotted}
      /\ \A i \in DOMAIN list :
           list[i] = IF i <= n THEN <<SamplerOf(row.images[i]), d.fields[row.images[i]].val>>
                     ELSE <<SamplerOf(row.slots[i - n]), d.slots[row.slots[i - n]]>>
  BY Zenon DEF BuiltinSamplers
<1>3. RowSamplers(row) = picked \cup {SamplerOf(row.slots[i]) : i \in DOMAIN row.slots}
  BY DEF RowSamplers
<1>4. \A k : SamplerOf(k) = IF k \in {"t1", "t2", "mask"} THEN k ELSE "tex"
  BY DEF SamplerOf
<1>5. <<row.images, row.slots>> \in TextureKinds
  BY DEF IsDrawn
<1>6. DOMAIN d.slots \in {{}, {"texture"}, {"fbo"}, {"t1", "t2"}}
  BY PassedFacts
<1> HIDE DEF asked, list, row
<1>7. ASSUME given = {} PROVE Goal
  <2>1. slotted = {} /\ passed = {}
    BY <1>7 DEF Slotted, ToSet
  <2>2. IsFed(row, d.slots) => {SamplerOf(row.slots[i]) : i \in DOMAIN row.slots} = {}
    <3>1. IsFed(row, d.slots) => ToSet(row.slots) = {}
      BY <1>7 DEF IsFed, PaletteSlots, ToSet
    <3> QED BY <3>1, Zenon DEF ToSet
  <2> HIDE DEF passed, slotted
  <2>3. CASE row.images = <<>>
    <3>1. n = 0 /\ picked = {}
      BY <2>3
    <3>2. DOMAIN list = {} /\ DOMAIN asked = {}
      BY <1>1, <1>2, <2>1, <3>1
    <3> QED BY <1>3, <2>2, <3>1, <3>2
  <2>4. ASSUME NEW k \in {"texture", "mask"}, row.images = <<k>> PROVE Goal
    <3>1. n = 1 /\ pic = {k}
      BY <2>4
    <3> HIDE DEF n, pic
    <3>2. picked = {SamplerOf(k)} /\ asked[SamplerOf(k)] = d.fields[k].val
      BY <1>1, <3>1
    <3>3. DOMAIN list = {1} /\ list[1] = <<SamplerOf(k), d.fields[k].val>>
      BY <1>2, <2>1, <2>4, <3>1
    <3> HIDE DEF picked
    <3>4. DOMAIN asked = {SamplerOf(k)} /\ DOMAIN asked \subseteq RowSamplers(row)
      BY <1>1, <1>3, <2>1, <3>2
    <3>5. IsFed(row, d.slots) => DOMAIN asked = RowSamplers(row)
      BY <1>3, <2>2, <3>2, <3>4
    <3> QED BY <3>2, <3>3, <3>4, <3>5
  <2> QED BY <1>5, <2>3, <2>4 DEF TextureKinds
<1>8. ASSUME row.images = <<"mask">>, row.slots = <<"t1", "t2">>,
            DOMAIN d.slots = {"t1", "t2"}
      PROVE  Goal
  <2>2. n = 1 /\ pic = {"mask"} /\ given = {"t1", "t2"}
    BY <1>8 DEF PaletteSlots, ToSet
  <2>3. slotted = {1, 2}
    BY <1>8, <2>2 DEF Slotted, PaletteSlots
  <2> HIDE DEF pic, given, n, slotted
  <2>4. picked = {"mask"} /\ passed = {"t1", "t2"} /\ RowSamplers(row) = {"mask", "t1", "t2"}
    <3>1. picked = {"mask"} /\ passed = {"t1", "t2"}
      BY <1>4, <2>2
    <3>2. {SamplerOf(row.slots[i]) : i \in DOMAIN row.slots} = {"t1", "t2"}
      BY <1>4, <1>8 DEF PaletteSlots
    <3> QED BY <1>3, <3>1, <3>2
  <2> HIDE DEF picked, passed
  <2>5. DOMAIN list = {1, 2, 3}
    BY <1>2, <2>2, <2>3
  <2>6. list[1] = <<"mask", d.fields["mask"].val>> /\ asked["mask"] = d.fields["mask"].val
    <3>1. list[1] = <<"mask", d.fields["mask"].val>>
      <4>1. list[1] = <<SamplerOf(row.images[1]), d.fields[row.images[1]].val>>
        <5>1. 1 <= n /\ 1 \in DOMAIN list
          BY <2>2, <2>5
        <5> QED BY <1>2, <5>1
      <4>2. row.images[1] = "mask" /\ SamplerOf("mask") = "mask"
        BY <1>4, <1>8
      <4> QED BY <4>1, <4>2
    <3>2. asked["mask"] = d.fields["mask"].val
      BY <1>1, <1>4, <2>2, <2>4
    <3> QED BY <3>1, <3>2
  <2>7. list[2] = <<"t1", d.slots["t1"]>> /\ asked["t1"] = d.slots["t1"]
    <3>1. list[2] = <<"t1", d.slots["t1"]>>
      <4>1. list[2] = <<SamplerOf(row.slots[1]), d.slots[row.slots[1]]>>
        <5>1. 2 - n = 1 /\ ~(2 <= n) /\ 2 \in DOMAIN list
          BY <2>2, <2>5
        <5> QED BY <1>2, <5>1
      <4>2. row.slots[1] = "t1" /\ SamplerOf("t1") = "t1"
        BY <1>4, <1>8 DEF PaletteSlots
      <4> QED BY <4>1, <4>2
    <3>2. asked["t1"] = d.slots["t1"]
      BY <1>1, <1>4, <2>2, <2>4
    <3> QED BY <3>1, <3>2
  <2>8. list[3] = <<"t2", d.slots["t2"]>> /\ asked["t2"] = d.slots["t2"]
    <3>1. list[3] = <<"t2", d.slots["t2"]>>
      <4>1. list[3] = <<SamplerOf(row.slots[2]), d.slots[row.slots[2]]>>
        <5>1. 3 - n = 2 /\ ~(3 <= n) /\ 3 \in DOMAIN list
          BY <2>2, <2>5
        <5> QED BY <1>2, <5>1
      <4>2. row.slots[2] = "t2" /\ SamplerOf("t2") = "t2"
        BY <1>4, <1>8 DEF PaletteSlots
      <4> QED BY <4>1, <4>2
    <3>2. asked["t2"] = d.slots["t2"]
      BY <1>1, <1>4, <2>2, <2>4
    <3> QED BY <3>1, <3>2
  <2> QED BY <1>1, <2>4, <2>5, <2>6, <2>7, <2>8
<1>9. ASSUME row.images = <<>>, row.slots = <<"texture">>,
             DOMAIN d.slots = {"texture"}
       PROVE  Goal
  <2>2. n = 0 /\ pic = {} /\ given = {"texture"}
    BY <1>9 DEF PaletteSlots, ToSet
  <2>3. slotted = {1}
    BY <1>9, <2>2 DEF Slotted, PaletteSlots
  <2> HIDE DEF pic, given, n, slotted
  <2>4. picked = {} /\ passed = {"tex"} /\ RowSamplers(row) = {"tex"}
    <3>1. picked = {} /\ passed = {"tex"}
      BY <1>4, <2>2
    <3>2. {SamplerOf(row.slots[i]) : i \in DOMAIN row.slots} = {"tex"}
      BY <1>4, <1>9 DEF PaletteSlots
    <3> QED BY <1>3, <3>1, <3>2
  <2> HIDE DEF picked, passed
  <2>5. DOMAIN list = {1}
    BY <1>2, <2>2, <2>3
  <2>6. list[1] = <<"tex", d.slots["texture"]>> /\ asked["tex"] = d.slots["texture"]
    <3>1. list[1] = <<"tex", d.slots["texture"]>>
      <4>1. list[1] = <<SamplerOf(row.slots[1]), d.slots[row.slots[1]]>>
        <5>1. 1 - n = 1 /\ ~(1 <= n) /\ 1 \in DOMAIN list
          BY <2>2, <2>5
        <5> QED BY <1>2, <5>1
      <4>2. row.slots[1] = "texture" /\ SamplerOf("texture") = "tex"
        BY <1>4, <1>9 DEF PaletteSlots
      <4> QED BY <4>1, <4>2
    <3>2. asked["tex"] = d.slots["texture"]
      BY <1>1, <1>4, <2>2, <2>4
    <3> QED BY <3>1, <3>2
  <2> QED BY <1>1, <2>4, <2>5, <2>6
<1>10. ASSUME row.images = <<>>, row.slots = <<"t1", "t2">>,
             DOMAIN d.slots = {"t1", "t2"}
       PROVE  Goal
  <2>2. n = 0 /\ pic = {} /\ given = {"t1", "t2"}
    BY <1>10 DEF PaletteSlots, ToSet
  <2>3. slotted = {1, 2}
    BY <1>10, <2>2 DEF Slotted, PaletteSlots
  <2> HIDE DEF pic, given, n, slotted
  <2>4. picked = {} /\ passed = {"t1", "t2"} /\ RowSamplers(row) = {"t1", "t2"}
    <3>1. picked = {} /\ passed = {"t1", "t2"}
      BY <1>4, <2>2
    <3>2. {SamplerOf(row.slots[i]) : i \in DOMAIN row.slots} = {"t1", "t2"}
      BY <1>4, <1>10 DEF PaletteSlots
    <3> QED BY <1>3, <3>1, <3>2
  <2> HIDE DEF picked, passed
  <2>5. DOMAIN list = {1, 2}
    BY <1>2, <2>2, <2>3
  <2>6. list[1] = <<"t1", d.slots["t1"]>> /\ asked["t1"] = d.slots["t1"]
    <3>1. list[1] = <<"t1", d.slots["t1"]>>
      <4>1. list[1] = <<SamplerOf(row.slots[1]), d.slots[row.slots[1]]>>
        <5>1. 1 - n = 1 /\ ~(1 <= n) /\ 1 \in DOMAIN list
          BY <2>2, <2>5
        <5> QED BY <1>2, <5>1
      <4>2. row.slots[1] = "t1" /\ SamplerOf("t1") = "t1"
        BY <1>4, <1>10 DEF PaletteSlots
      <4> QED BY <4>1, <4>2
    <3>2. asked["t1"] = d.slots["t1"]
      BY <1>1, <1>4, <2>2, <2>4
    <3> QED BY <3>1, <3>2
  <2>7. list[2] = <<"t2", d.slots["t2"]>> /\ asked["t2"] = d.slots["t2"]
    <3>1. list[2] = <<"t2", d.slots["t2"]>>
      <4>1. list[2] = <<SamplerOf(row.slots[2]), d.slots[row.slots[2]]>>
        <5>1. 2 - n = 2 /\ ~(2 <= n) /\ 2 \in DOMAIN list
          BY <2>2, <2>5
        <5> QED BY <1>2, <5>1
      <4>2. row.slots[2] = "t2" /\ SamplerOf("t2") = "t2"
        BY <1>4, <1>10 DEF PaletteSlots
      <4> QED BY <4>1, <4>2
    <3>2. asked["t2"] = d.slots["t2"]
      BY <1>1, <1>4, <2>2, <2>4
    <3> QED BY <3>1, <3>2
  <2> QED BY <1>1, <2>4, <2>5, <2>6, <2>7
<1>11. ASSUME row.images = <<>>, row.slots = PaletteSlots,
             DOMAIN d.slots = {"fbo"}
       PROVE  Goal
  <2>2. n = 0 /\ pic = {} /\ given = {"fbo"}
    BY <1>11 DEF PaletteSlots, ToSet
  <2>3. slotted = {2}
    BY <1>11, <2>2 DEF Slotted, PaletteSlots
  <2> HIDE DEF pic, given, n, slotted
  <2>4. picked = {} /\ passed = {"tex"} /\ RowSamplers(row) = {"tex"}
    <3>1. picked = {} /\ passed = {"tex"}
      BY <1>4, <2>2
    <3>2. {SamplerOf(row.slots[i]) : i \in DOMAIN row.slots} = {"tex"}
      BY <1>4, <1>11 DEF PaletteSlots
    <3> QED BY <1>3, <3>1, <3>2
  <2> HIDE DEF picked, passed
  <2>5. DOMAIN list = {2}
    BY <1>2, <2>2, <2>3
  <2>6. list[2] = <<"tex", d.slots["fbo"]>> /\ asked["tex"] = d.slots["fbo"]
    <3>1. list[2] = <<"tex", d.slots["fbo"]>>
      <4>1. list[2] = <<SamplerOf(row.slots[2]), d.slots[row.slots[2]]>>
        <5>1. 2 - n = 2 /\ ~(2 <= n) /\ 2 \in DOMAIN list
          BY <2>2, <2>5
        <5> QED BY <1>2, <5>1
      <4>2. row.slots[2] = "fbo" /\ SamplerOf("fbo") = "tex"
        BY <1>4, <1>11 DEF PaletteSlots
      <4> QED BY <4>1, <4>2
    <3>2. asked["tex"] = d.slots["fbo"]
      BY <1>1, <1>4, <2>2, <2>4
    <3> QED BY <3>1, <3>2
  <2> QED BY <1>1, <2>4, <2>5, <2>6
<1>12. ASSUME row.images = <<>>, row.slots = PaletteSlots,
             DOMAIN d.slots = {"texture"}
       PROVE  Goal
  <2>2. n = 0 /\ pic = {} /\ given = {"texture"}
    BY <1>12 DEF PaletteSlots, ToSet
  <2>3. slotted = {3}
    BY <1>12, <2>2 DEF Slotted, PaletteSlots
  <2> HIDE DEF pic, given, n, slotted
  <2>4. picked = {} /\ passed = {"tex"} /\ RowSamplers(row) = {"tex"}
    <3>1. picked = {} /\ passed = {"tex"}
      BY <1>4, <2>2
    <3>2. {SamplerOf(row.slots[i]) : i \in DOMAIN row.slots} = {"tex"}
      BY <1>4, <1>12 DEF PaletteSlots
    <3> QED BY <1>3, <3>1, <3>2
  <2> HIDE DEF picked, passed
  <2>5. DOMAIN list = {3}
    BY <1>2, <2>2, <2>3
  <2>6. list[3] = <<"tex", d.slots["texture"]>> /\ asked["tex"] = d.slots["texture"]
    <3>1. list[3] = <<"tex", d.slots["texture"]>>
      <4>1. list[3] = <<SamplerOf(row.slots[3]), d.slots[row.slots[3]]>>
        <5>1. 3 - n = 3 /\ ~(3 <= n) /\ 3 \in DOMAIN list
          BY <2>2, <2>5
        <5> QED BY <1>2, <5>1
      <4>2. row.slots[3] = "texture" /\ SamplerOf("texture") = "tex"
        BY <1>4, <1>12 DEF PaletteSlots
      <4> QED BY <4>1, <4>2
    <3>2. asked["tex"] = d.slots["texture"]
      BY <1>1, <1>4, <2>2, <2>4
    <3> QED BY <3>1, <3>2
  <2> QED BY <1>1, <2>4, <2>5, <2>6
<1> HIDE DEF Goal
<1>13. Goal
  <2>1. given # {} =>
          \/ /\ DOMAIN d.slots = {"texture"}
             /\ row.slots = <<"texture">> \/ row.slots = PaletteSlots
          \/ DOMAIN d.slots = {"fbo"} /\ row.slots = PaletteSlots
          \/ DOMAIN d.slots = {"t1", "t2"} /\ row.slots = <<"t1", "t2">>
    BY <1>5, <1>6 DEF TextureKinds, PaletteSlots, ToSet
  <2>2. row.slots = <<"texture">> \/ row.slots = PaletteSlots => row.images = <<>>
    BY <1>5 DEF TextureKinds, PaletteSlots
  <2>3. row.slots = <<"t1", "t2">> => row.images = <<>> \/ row.images = <<"mask">>
    BY <1>5 DEF TextureKinds, PaletteSlots
  <2> HIDE DEF given
  <2> QED BY <1>7, <1>8, <1>9, <1>10, <1>11, <1>12, <2>1, <2>2, <2>3
<1> QED BY <1>13 DEF Goal, list, asked, row

\* What a record of a draw says.
SaysRead(r, g, o, s) ==
  LET to    == SamplersAfter(g.programs[o.id], o.what, s)
      after == UnitsAfter(g.units, o.what, s.samplers)
      p     == SetArrays(o, s)
  IN /\ r.what = o.what
     /\ r.samplers = [k \in DOMAIN to |-> after[to[k]]]
     /\ r.values = ValuesAfter(g.programs[o.id], o.what, s)
     /\ r.arrays = [k \in DOMAIN p.enabled |-> ReadArray(p, p.enabled[k])]
     /\ r.indices = s.indices
     /\ r.count = IF s.indexed THEN s.count ELSE VertexCount(s)

LEMMA ReadFields ==
  ASSUME NEW g, NEW o, NEW s
  PROVE  SaysRead(ReadOf(g, o, s), g, o, s)
<1> DEFINE to      == SamplersAfter(g.programs[o.id], o.what, s)
           after   == UnitsAfter(g.units, o.what, s.samplers)
           p       == SetArrays(o, s)
           a       == [k \in DOMAIN to |-> after[to[k]]]
           v       == ValuesAfter(g.programs[o.id], o.what, s)
           arrays  == [k \in DOMAIN p.enabled |-> ReadArray(p, p.enabled[k])]
           n       == IF s.indexed THEN s.count ELSE VertexCount(s)
<1>1. ReadOf(g, o, s) = [what |-> o.what, samplers |-> a, values |-> v, arrays |-> arrays,
                         indices |-> s.indices, count |-> n]
  BY DEF ReadOf
<1> HIDE DEF a, v, arrays, n
<1>2. LET r == ReadOf(g, o, s)
      IN /\ r.what = o.what /\ r.samplers = a /\ r.values = v /\ r.arrays = arrays
         /\ r.indices = s.indices /\ r.count = n
  BY <1>1
<1> QED BY <1>2 DEF SaysRead, a, v, arrays, n

PreparesBuiltin(s, row, f, slots, loaded) ==
  LET elem == row.elements /\ Has(f, "elem", "array")
  IN /\ Complete(row, f, loaded)
     /\ s.samplers = BuiltinSamplers(row, f, slots)
     /\ s.values = BuiltinValues(row, f)
     /\ s.statics = [i \in DOMAIN row.quads |-> QuadCorners(row.quads[i])]
     /\ s.streams = [i \in DOMAIN row.streamed |->
                       StreamedOf(row, row.streamed[i], f[row.streamed[i]])]
     /\ s.indexed <=> row.indexed \/ elem
     /\ ~row.indexed /\ elem => s.indices.data = f["elem"].val
     /\ ~row.indexed /\ ~elem => s.count = s.streams[1].n /\ s.indices.data = None

LEMMA BuiltinPrepared ==
  ASSUME NEW row, NEW f, NEW slots, NEW loaded, PrepareBuiltin(row, f, slots, loaded).draw
  PROVE  PreparesBuiltin(PrepareBuiltin(row, f, slots, loaded), row, f, slots, loaded)
<1> DEFINE s       == PrepareBuiltin(row, f, slots, loaded)
           elem    == row.elements /\ Has(f, "elem", "array")
           streams == [i \in DOMAIN row.streamed |->
                         StreamedOf(row, row.streamed[i], f[row.streamed[i]])]
           statics == [i \in DOMAIN row.quads |-> QuadCorners(row.quads[i])]
           yes     == TRUE
           indexed == row.indexed \/ elem
           indices == IF row.indexed THEN QuadIndices
                      ELSE IF elem THEN [data |-> f["elem"].val, n |-> f["elem"].len]
                      ELSE [data |-> None, n |-> 0]
           count   == IF row.indexed THEN 6 ELSE IF elem THEN f["elem"].len ELSE streams[1].n
           samplers == BuiltinSamplers(row, f, slots)
           values   == BuiltinValues(row, f)
<1>1. Complete(row, f, loaded)
  BY DEF PrepareBuiltin, Skip
<1>2. s = [draw |-> yes, samplers |-> samplers, values |-> values, statics |-> statics,
           streams |-> streams, indexed |-> indexed, quad |-> row.indexed, indices |-> indices,
           count |-> count]
  BY <1>1 DEF PrepareBuiltin
<1> DEFINE quad == row.indexed
<1>3. /\ ~row.indexed /\ elem => indices.data = f["elem"].val
      /\ ~row.indexed /\ ~elem => count = streams[1].n /\ indices.data = None
  OBVIOUS
<1> HIDE DEF s, streams, statics, indexed, indices, count, samplers, values, yes, elem
<1>4. /\ s.samplers = samplers /\ s.values = values /\ s.statics = statics
      /\ s.streams = streams /\ s.indexed = indexed /\ s.indices = indices /\ s.count = count
  BY <1>2
<1> QED BY <1>1, <1>3, <1>4
        DEF PreparesBuiltin, s, streams, statics, indexed, samplers, values, elem

LEMMA OverIsFunction ==
  ASSUME NEW f, NEW g
  PROVE  Over(f, g) = [k \in DOMAIN Over(f, g) |-> Over(f, g)[k]]
BY DEF Over

(* A draw of a built-in program gives every sampler the texture that the   *)
(* call has for it.  If it has one for every sampler of the row, no other  *)
(* sampler has been told a unit.                                           *)
SamplesBuiltin(d, samplers) ==
  LET asked == AskedTextures(d)
  IN /\ \A k \in DOMAIN asked : k \in DOMAIN samplers /\ samplers[k] = asked[k]
     /\ IsFed(Rows[d.what.of], d.slots) => DOMAIN samplers = DOMAIN asked

LEMMA BuiltinSamples ==
  ASSUME NEW d, IsPlain(d.what), IsDrawn(Rows[d.what.of]),
         NEW use \in Uses, d.slots = use.slots,
         NEW g, NEW o, o.what = d.what, NEW s, Sound(d.what, s),
         s.samplers = BuiltinSamplers(Rows[d.what.of], d.fields, d.slots),
         Expected(g.programs[o.id]), g.programs[o.id].what = d.what
  PROVE  /\ SamplesBuiltin(d, ReadOf(g, o, s).samplers)
         /\ DOMAIN SamplersAfter(g.programs[o.id], o.what, s) \subseteq RowSamplers(Rows[d.what.of])
<1> DEFINE old   == g.programs[o.id].samplers
           what  == d.what
           row   == Rows[d.what.of]
           list  == s.samplers
           on    == On(what, list)
           to    == Over(ToldUnits(what, list), old)
           after == UnitsAfter(g.units, what, list)
           asked == AskedTextures(d)
           fed   == IsFed(row, d.slots)
<1>1. /\ \A i, j \in DOMAIN list : list[i][1] = list[j][1] => i = j
      /\ {list[i][1] : i \in DOMAIN list} = DOMAIN asked
      /\ DOMAIN asked \subseteq RowSamplers(row)
      /\ fed => DOMAIN asked = RowSamplers(row)
      /\ \A i \in DOMAIN list : asked[list[i][1]] = list[i][2]
  <2> DEFINE l == BuiltinSamplers(row, d.fields, d.slots)
  <2>1. /\ \A i, j \in DOMAIN l : l[i][1] = l[j][1] => i = j
        /\ {l[i][1] : i \in DOMAIN l} = DOMAIN asked
        /\ DOMAIN asked \subseteq RowSamplers(row)
        /\ fed => DOMAIN asked = RowSamplers(row)
        /\ \A i \in DOMAIN l : asked[l[i][1]] = l[i][2]
    BY BuiltinTextures
  <2>2. list = l
    OBVIOUS
  <2> HIDE DEF l, list, asked
  <2> QED BY <2>1, <2>2
<1>2. on = DOMAIN list
  BY DEF On, Active, IsPlain
<1>3. DOMAIN old \subseteq RowSamplers(row)
  BY DEF Expected
<1>4. /\ DOMAIN to = {list[i][1] : i \in on} \cup DOMAIN old
      /\ \A i \in on : after[to[list[i][1]]] = list[i][2]
  <2>1. \A i, j \in on : list[i][1] = list[j][1] => i = j
    BY <1>1, <1>2
  <2>2. AreRead(what, s, old, g.units)
    <3> HIDE DEF old
    <3>1. Differ(what, s.samplers)
      BY <2>1 DEF Differ
    <3> QED BY <3>1, SamplersRead
  <2> QED BY <2>2, Zenon DEF AreRead
<1>5. to = SamplersAfter(g.programs[o.id], o.what, s)
  BY DEF SamplersAfter
<1>6. ReadOf(g, o, s).samplers = [k \in DOMAIN to |-> after[to[k]]]
  <2> DEFINE t == SamplersAfter(g.programs[o.id], o.what, s)
             a == UnitsAfter(g.units, o.what, s.samplers)
  <2>1. ReadOf(g, o, s).samplers = [k \in DOMAIN t |-> a[t[k]]]
    <3>1. SaysRead(ReadOf(g, o, s), g, o, s)
      BY ReadFields
    <3> QED BY <3>1, Zenon DEF SaysRead
  <2>2. t = to /\ a = after
    BY <1>5
  <2> HIDE DEF t, a, to, after
  <2> QED BY <2>1, <2>2
<1> HIDE DEF to, after, asked, fed, list, on, old, row
<1>7. /\ DOMAIN to = DOMAIN asked \cup DOMAIN old
      /\ DOMAIN to \subseteq RowSamplers(row)
      /\ fed => DOMAIN to = DOMAIN asked
  BY <1>1, <1>2, <1>3, <1>4
<1>8. ASSUME NEW k \in DOMAIN asked PROVE k \in DOMAIN to /\ after[to[k]] = asked[k]
  <2>1. PICK i \in on : list[i][1] = k
    BY <1>1, <1>2
  <2> QED BY <1>1, <1>2, <1>4, <1>7, <2>1
<1>9. SamplesBuiltin(d, ReadOf(g, o, s).samplers)
  <2> DEFINE r == ReadOf(g, o, s).samplers
  <2> HIDE DEF r
  <2>1. DOMAIN r = DOMAIN to /\ \A k \in DOMAIN to : r[k] = after[to[k]]
    BY <1>6 DEF r
  <2> QED BY <1>7, <1>8, <2>1 DEF SamplesBuiltin, asked, fed, row, r
<1> QED BY <1>5, <1>7, <1>9 DEF row

(* The numbers of a draw of a built-in program.                            *)
ReadsValues(d, values) ==
  \A k \in DOMAIN values :
    values[k] = IF k \in DOMAIN Rows[d.what.of].need \/ Usable(d.fields, k)
                THEN d.fields[k].val ELSE Default

LEMMA BuiltinReadsValues ==
  ASSUME NEW d, IsPlain(d.what), IsDrawn(Rows[d.what.of]),
         NEW g, NEW o, o.what = d.what, NEW s,
         s.values = BuiltinValues(Rows[d.what.of], d.fields),
         Expected(g.programs[o.id]), g.programs[o.id].what = d.what
  PROVE  LET values == ValuesAfter(g.programs[o.id], o.what, s)
         IN DOMAIN values = RowValues(Rows[d.what.of]) /\ ReadsValues(d, values)
<1> DEFINE old   == g.programs[o.id].values
           what  == d.what
           row   == Rows[d.what.of]
           f     == d.fields
           told  == ToldValues(what, s)
           values == Over(told, old)
           given  == DOMAIN row.need \ {row.streamed[i] : i \in DOMAIN row.streamed}
<1>1. s.values = [k \in RowValues(row) |->
                    IF k \in given \/ Usable(f, k) THEN f[k].val ELSE Default]
  BY DEF BuiltinValues, RowValues
<1>2. told = [k \in RowValues(row) |-> s.values[k]]
  BY <1>1 DEF ToldValues, Active, IsPlain
<1>3. DOMAIN old \subseteq RowValues(row)
  BY DEF Expected
<1>4. \A k \in RowValues(row) : k \in DOMAIN row.need => k \in given
  BY Zenon DEF RowValues, IsDrawn
<1>5. values = ValuesAfter(g.programs[o.id], o.what, s)
  BY DEF ValuesAfter
<1> HIDE DEF told, old, given, f, row
<1>6. DOMAIN values = DOMAIN told \cup DOMAIN old /\ \A k \in DOMAIN told : values[k] = told[k]
  BY OverFacts
<1> HIDE DEF values
<1>7. DOMAIN values = RowValues(row)
  BY <1>2, <1>3, <1>6
<1>8. ASSUME NEW k \in RowValues(row)
      PROVE  values[k] = IF k \in DOMAIN row.need \/ Usable(f, k) THEN f[k].val ELSE Default
  <2>1. values[k] = IF k \in given \/ Usable(f, k) THEN f[k].val ELSE Default
    BY <1>1, <1>2, <1>6
  <2>2. k \in given <=> k \in DOMAIN row.need
    BY <1>4 DEF given
  <2> QED BY <2>1, <2>2
<1> QED BY <1>5, <1>7, <1>8 DEF ReadsValues, row, f

\* In a row, an attribute is streamed for one field or is that of a quad.
OneEach(row) ==
  /\ \A i, j \in DOMAIN row.streamed :
       AttributeOf(row.streamed[i]) = AttributeOf(row.streamed[j]) => i = j
  /\ \A i \in DOMAIN row.streamed, j \in DOMAIN row.quads :
       AttributeOf(row.streamed[i]) # row.quads[j]

LEMMA RowsHaveOneEach ==
  ASSUME NEW row, IsDrawn(row)
  PROVE  OneEach(row)
<1> DEFINE st == row.streamed
           qu == row.quads
<1>1. <<st, qu>> \in ArrayKinds
  BY DEF IsDrawn
<1>2. AttributeOf("pos") = "position" /\ AttributeOf("texc") = "texc"
  BY DEF AttributeOf
<1> HIDE DEF st, qu
<1>3. \/ st = <<"pos">> /\ qu = <<>>
      \/ st = <<>> /\ qu = <<"position">>
      \/ st = <<"pos">> /\ qu = <<"texc">>
      \/ st = <<"pos", "texc">> /\ qu = <<>>
      \/ st = <<"texc">> /\ qu = <<"texc2">>
      \/ st = <<>> /\ qu = <<"texc">>
  BY <1>1 DEF ArrayKinds
<1>4. /\ \A i, j \in DOMAIN st : AttributeOf(st[i]) = AttributeOf(st[j]) => i = j
      /\ \A i \in DOMAIN st, j \in DOMAIN qu : AttributeOf(st[i]) # qu[j]
  <2>1. CASE st = <<"pos">> /\ qu = <<>>
    BY <1>2, <2>1
  <2>2. CASE st = <<>> /\ qu = <<"position">>
    BY <1>2, <2>2
  <2>3. CASE st = <<"pos">> /\ qu = <<"texc">>
    BY <1>2, <2>3
  <2>4. CASE st = <<"pos", "texc">> /\ qu = <<>>
    BY <1>2, <2>4
  <2>5. CASE st = <<"texc">> /\ qu = <<"texc2">>
    BY <1>2, <2>5
  <2>6. CASE st = <<>> /\ qu = <<"texc">>
    BY <1>2, <2>6
  <2> QED BY <1>3, <2>1, <2>2, <2>3, <2>4, <2>5, <2>6
<1> QED BY <1>4 DEF OneEach, st, qu

(* What a call of a built-in program asks to be streamed.                  *)
LEMMA AskedFacts ==
  ASSUME NEW d, OneEach(Rows[d.what.of])
  PROVE  LET row   == Rows[d.what.of]
             asked == AskedArrays(d)
         IN /\ DOMAIN asked = {row.quads[i] : i \in DOMAIN row.quads} \cup
                              {AttributeOf(row.streamed[i]) : i \in DOMAIN row.streamed}
            /\ \A i \in DOMAIN row.quads : asked[row.quads[i]] = "corners"
            /\ \A i \in DOMAIN row.streamed :
                 asked[AttributeOf(row.streamed[i])]
                   = [field |-> row.streamed[i], val |-> d.fields[row.streamed[i]].val]
            /\ asked = [k \in DOMAIN asked |-> asked[k]]
<1> DEFINE row   == Rows[d.what.of]
           asked == AskedArrays(d)
           st    == row.streamed
           fixed == [a \in ToSet(row.quads) |-> "corners"]
           Field(a) == CHOOSE k \in ToSet(st) : AttributeOf(k) = a
           given == [a \in {AttributeOf(st[i]) : i \in DOMAIN st} |->
                       [field |-> Field(a), val |-> d.fields[Field(a)].val]]
<1>1. asked = Over(fixed, given)
  BY DEF AskedArrays
<1>2. ASSUME NEW i \in DOMAIN st PROVE Field(AttributeOf(st[i])) = st[i]
  <2> HIDE DEF st
  <2>1. st[i] \in ToSet(st)
    BY DEF ToSet
  <2>2. ASSUME NEW k \in ToSet(st), AttributeOf(k) = AttributeOf(st[i]) PROVE k = st[i]
    <3>1. PICK j \in DOMAIN st : k = st[j]
      BY DEF ToSet
    <3> QED BY <2>2, <3>1 DEF OneEach, st
  <2> QED BY <2>1, <2>2
<1>3. /\ DOMAIN fixed = {row.quads[i] : i \in DOMAIN row.quads}
      /\ \A i \in DOMAIN row.quads : fixed[row.quads[i]] = "corners"
  BY DEF ToSet
<1>4. /\ DOMAIN given = {AttributeOf(st[i]) : i \in DOMAIN st}
      /\ \A i \in DOMAIN st :
           given[AttributeOf(st[i])] = [field |-> st[i], val |-> d.fields[st[i]].val]
  <2> HIDE DEF Field
  <2> QED BY <1>2, Zenon
<1> HIDE DEF fixed, given
<1>5. /\ DOMAIN Over(fixed, given) = DOMAIN fixed \cup DOMAIN given
      /\ \A k \in DOMAIN fixed : Over(fixed, given)[k] = fixed[k]
      /\ \A k \in DOMAIN given : k \notin DOMAIN fixed => Over(fixed, given)[k] = given[k]
  BY OverFacts
<1>6. asked = [k \in DOMAIN asked |-> asked[k]]
  BY <1>1, OverIsFunction
<1>7. \A i \in DOMAIN st : AttributeOf(st[i]) \notin DOMAIN fixed
  BY <1>3 DEF OneEach
<1> HIDE DEF asked, st
<1>8. \A i \in DOMAIN st :
        asked[AttributeOf(st[i])] = [field |-> st[i], val |-> d.fields[st[i]].val]
  BY <1>1, <1>4, <1>5, <1>7
<1>9. DOMAIN asked = {row.quads[i] : i \in DOMAIN row.quads} \cup
                     {AttributeOf(st[i]) : i \in DOMAIN st}
  BY <1>1, <1>3, <1>4, <1>5, Zenon
<1>10. \A i \in DOMAIN row.quads : asked[row.quads[i]] = "corners"
  BY <1>1, <1>3, <1>5, Zenon
<1> QED BY <1>6, <1>8, <1>9, <1>10, Zenon DEF asked, st

(* What a complete call streams: enough corners, all from its own fields.  *)
StreamFits(a, row, f, k) ==
  /\ a.attr = AttributeOf(k) /\ a.comps = 2 /\ a.n \in Nat
  /\ a.data = [field |-> k, val |-> f[k].val]
  /\ a.n >= IF row.indexed THEN 4 ELSE 1
  /\ Size(a) > 0 /\ Size(a) \div 2 = a.n

LEMMA StreamFacts ==
  ASSUME NEW row, IsRow(row), IsDrawn(row), NEW f \in Calls(row), NEW loaded,
         Complete(row, f, loaded), NEW i \in DOMAIN row.streamed
  PROVE  LET k == row.streamed[i]
         IN StreamFits(StreamedOf(row, k, f[k]), row, f, k)
<1> DEFINE k == row.streamed[i]
           a == StreamedOf(row, k, f[k])
           n == IF row.corners THEN 4 ELSE f[k].len \div 2
<1>1. k \in DOMAIN row.need /\ row.need[k] \in Nat \ {0}
  BY DEF IsRow
<1>2. row.need[k] >= IF row.indexed /\ ~row.corners THEN 8 ELSE 2
  BY DEF IsDrawn
<1>3. k \in DOMAIN f /\ f[k].len >= row.need[k]
  BY <1>1 DEF Complete, Has, Suffices
<1>4. f[k].len \in Int
  BY <1>3, CallFacts
<1>5. a = [attr |-> AttributeOf(k), comps |-> 2, n |-> n, data |-> [field |-> k, val |-> f[k].val]]
  BY DEF StreamedOf, Attribute
<1> HIDE DEF a, k
<1>6. n \in Nat /\ n >= IF row.indexed THEN 4 ELSE 1
  <2>1. CASE row.corners
    BY <2>1
  <2>2. CASE ~row.corners
    <3>1. n = f[k].len \div 2
      BY <2>2
    <3>2. row.indexed => f[k].len >= 8
      BY <1>1, <1>2, <1>3, <1>4, <2>2
    <3>3. f[k].len >= 2
      BY <1>1, <1>2, <1>3, <1>4
    <3> HIDE DEF n
    <3> QED BY <1>4, <3>1, <3>2, <3>3
  <2> QED BY <2>1, <2>2
<1> HIDE DEF n
<1>7. a.attr = AttributeOf(k) /\ a.comps = 2 /\ a.n = n /\ a.data = [field |-> k, val |-> f[k].val]
  BY <1>5
<1>8. Size(a) = n * 2
  BY <1>7 DEF Size
<1>9. Size(a) > 0 /\ Size(a) \div 2 = n
  BY <1>6, <1>8
<1> QED BY <1>6, <1>7, <1>9 DEF StreamFits, a, k

(* The element array of a call is not the mark of a draw without one.      *)
LEMMA ElementFacts ==
  ASSUME NEW row, IsDrawn(row), row.elements, NEW f \in Calls(row), Has(f, "elem", "array")
  PROVE  f["elem"].val # None
<1> DEFINE full == FullCall(row, 1, CHOOSE image \in Image : TRUE)
           Full    == {FullCall(row, v, image) : v \in 1 .. 2, image \in Image}
           Partial == {[j \in DOMAIN full \ {k} |-> full[j]] : k \in DOMAIN full}
           Other   == {[full EXCEPT ![k].kind = "bool"] : k \in DOMAIN full}
           Sized   == {[full EXCEPT ![k].len = @ + n] : k \in DOMAIN row.need, n \in {-1, 2}}
           Short   == {[full EXCEPT ![k].len = 3] : k \in row.numbers \cap {"color"}}
<1>1. ASSUME NEW v \in 1 .. 2, NEW image PROVE FullCall(row, v, image)["elem"] = Arr(3, v)
  <2>1. "elem" \notin {row.images[i] : i \in DOMAIN row.images}
    BY DEF IsDrawn
  <2>2. "elem" \notin DOMAIN row.need /\ "elem" \notin row.numbers
    BY DEF IsDrawn
  <2> QED BY <2>1, <2>2 DEF FullCall, Given
<1>2. f \in Full \cup Partial \cup Other \cup Sized \cup Short
  <2>1. Calls(row) = Full \cup Partial \cup Other \cup Sized \cup Short
    BY SMTT(20) DEF Calls
  <2> HIDE DEF Full, Partial, Other, Sized, Short
  <2> QED BY <2>1
<1>3. full["elem"] = [kind |-> "array", len |-> 3, val |-> 1] /\ "elem" \in DOMAIN f
  BY <1>1 DEF Arr, Has
<1> SUFFICES f["elem"].val \in Nat
  BY AppsAssumption
<1> HIDE DEF full
<1>4. CASE f \in Full
  <2>1. PICK v \in 1 .. 2, image \in Image : f = FullCall(row, v, image)
    BY <1>4
  <2> QED BY <1>1, <2>1 DEF Arr
<1>5. CASE f \in Partial
  <2>1. PICK k \in DOMAIN full : f = [j \in DOMAIN full \ {k} |-> full[j]]
    BY <1>5
  <2>2. f["elem"] = full["elem"]
    BY <1>3, <2>1
  <2> QED BY <1>3, <2>2
<1>6. CASE f \in Other
  BY <1>3, <1>6
<1>7. CASE f \in Sized
  BY <1>3, <1>7
<1>8. CASE f \in Short
  BY <1>3, <1>8
<1> HIDE DEF Full, Partial, Other, Sized, Short
<1> QED BY <1>2, <1>4, <1>5, <1>6, <1>7, <1>8

ReadsArrays(d, r) ==
  LET row == Rows[d.what.of]
  IN /\ [a \in DOMAIN r.arrays |-> r.arrays[a].data] = AskedArrays(d)
     /\ \A a \in DOMAIN r.arrays :
          r.arrays[a].n >= IF row.indexed THEN 4
                           ELSE IF r.indices.data = None THEN r.count ELSE 1

(* A draw of a built-in program reads the arrays of its call, in full.     *)
LEMMA BuiltinReadsArrays ==
  ASSUME NEW d, IsPlain(d.what), IsRow(Rows[d.what.of]), IsDrawn(Rows[d.what.of]),
         d.fields \in Calls(Rows[d.what.of]), NEW loaded,
         NEW s, s = PrepareBuiltin(Rows[d.what.of], d.fields, d.slots, loaded), s.draw,
         NEW o, IsObject(o), o.what = d.what, Sound(d.what, s), NEW g
  PROVE  ReadsArrays(d, ReadOf(g, o, s))
<1> DEFINE row  == Rows[d.what.of]
           what == d.what
           f    == d.fields
           st   == row.streamed
           qu   == row.quads
           r    == ReadOf(g, o, s)
           p    == SetArrays(o, s)
           elem == row.elements /\ Has(f, "elem", "array")
           least == IF row.indexed THEN 4 ELSE IF r.indices.data = None THEN r.count ELSE 1
           asked == AskedArrays(d)
           streamed == {AttributeOf(st[i]) : i \in DOMAIN st}
           static   == {qu[i] : i \in DOMAIN qu}
<1>1. /\ Complete(row, f, loaded)
      /\ s.statics = [i \in DOMAIN qu |-> QuadCorners(qu[i])]
      /\ s.streams = [i \in DOMAIN st |-> StreamedOf(row, st[i], f[st[i]])]
      /\ s.indexed <=> row.indexed \/ elem
      /\ ~row.indexed /\ elem => s.indices.data = f["elem"].val
      /\ ~row.indexed /\ ~elem => s.count = s.streams[1].n /\ s.indices.data = None
  <2>1. PreparesBuiltin(s, row, f, d.slots, loaded)
    BY BuiltinPrepared
  <2> QED BY <2>1, Zenon DEF PreparesBuiltin
<1>2. \A i \in DOMAIN st : StreamFits(s.streams[i], row, f, st[i])
  <2> HIDE DEF row, f, st
  <2>1. IsRow(row) /\ IsDrawn(row) /\ f \in Calls(row) /\ st = row.streamed
    BY DEF row, f, st
  <2>2. \A i \in DOMAIN st : StreamFits(StreamedOf(row, st[i], f[st[i]]), row, f, st[i])
    BY <1>1, <2>1, StreamFacts
  <2>3. s.streams = [i \in DOMAIN st |-> StreamedOf(row, st[i], f[st[i]])]
    BY <1>1, Zenon
  <2> QED BY <2>2, <2>3, Zenon
<1>3. \A i \in DOMAIN qu :
        LET a == s.statics[i]
        IN a.attr = qu[i] /\ a.comps = 2 /\ a.data = "corners" /\ Size(a) \div 2 = 4
  <2> HIDE DEF qu, row, f, st, elem
  <2>1. s.statics = [i \in DOMAIN qu |-> QuadCorners(qu[i])]
    BY <1>1
  <2>2. ASSUME NEW i \in DOMAIN qu
        PROVE  LET a == s.statics[i]
               IN a.attr = qu[i] /\ a.comps = 2 /\ a.data = "corners" /\ Size(a) \div 2 = 4
    <3>1. s.statics[i] = [attr |-> qu[i], comps |-> 2, n |-> 4, data |-> "corners"]
      <4>1. s.statics[i] = QuadCorners(qu[i])
        BY <2>1, Zenon
      <4> QED BY <4>1 DEF QuadCorners, Attribute
    <3>2. Size(s.statics[i]) = 8
      BY <3>1 DEF Size
    <3> QED BY <3>1, <3>2
  <2> QED BY <2>2
<1>4. DOMAIN s.streams = DOMAIN st /\ DOMAIN s.statics = DOMAIN qu
  BY <1>1, Zenon
<1>5. Names(what, s.streams) = DOMAIN st /\ Names(what, s.statics) = DOMAIN qu
  BY <1>4 DEF Names, Active, IsPlain
<1>6. HasArrays(what, s, p)
  <2>1. \A i \in Names(o.what, s.streams) : Size(s.streams[i]) > 0
    BY <1>2, <1>5, Zenon DEF StreamFits
  <2> QED BY <2>1, ArraysRead
<1>7. r.arrays = [k \in DOMAIN p.enabled |-> ReadArray(p, p.enabled[k])]
  <2>1. SaysRead(r, g, o, s)
    BY ReadFields
  <2> QED BY <2>1, Zenon DEF SaysRead
<1>8. r.indices = s.indices /\ r.count = IF s.indexed THEN s.count ELSE VertexCount(s)
  <2>1. SaysRead(r, g, o, s)
    BY ReadFields
  <2> QED BY <2>1, Zenon DEF SaysRead
<1>9. OneEach(row)
  BY RowsHaveOneEach
<1>10. /\ DOMAIN asked = static \cup streamed
       /\ \A i \in DOMAIN qu : asked[qu[i]] = "corners"
       /\ \A i \in DOMAIN st :
            asked[AttributeOf(st[i])] = [field |-> st[i], val |-> f[st[i]].val]
       /\ asked = [k \in DOMAIN asked |-> asked[k]]
  BY <1>9, AskedFacts, Zenon
<1>11. ~row.indexed => st = <<"pos">> /\ qu = <<>>
  BY DEF IsDrawn
<1>12. elem => f["elem"].val # None
  BY ElementFacts
<1> HIDE DEF st, qu, f, row, asked, r, p, elem
<1>13. /\ DOMAIN p.enabled = streamed \cup static
       /\ \A k \in streamed : \E i \in DOMAIN st :
            AttributeOf(st[i]) = k /\ IsRead(ReadArray(p, p.enabled[k]), s.streams[i])
       /\ \A k \in static \ streamed : \E i \in DOMAIN qu :
            qu[i] = k /\ IsRead(ReadArray(p, p.enabled[k]), s.statics[i])
  <2>1. \A i \in DOMAIN st : s.streams[i].attr = AttributeOf(st[i])
    BY <1>2, Zenon DEF StreamFits
  <2>2. \A i \in DOMAIN qu : s.statics[i].attr = qu[i]
    BY <1>3
  <2>3. {s.streams[i].attr : i \in DOMAIN st} = streamed
    BY <2>1
  <2>4. {s.statics[i].attr : i \in DOMAIN qu} = static
    BY <2>2
  <2> DEFINE on  == Names(what, s.streams)
             at  == Names(what, s.statics)
             names == {s.streams[i].attr : i \in on}
             fixed == {s.statics[i].attr : i \in at}
  <2>5. /\ DOMAIN p.enabled = names \cup fixed
        /\ \A k \in names : \E i \in on :
             s.streams[i].attr = k /\ IsRead(ReadArray(p, p.enabled[k]), s.streams[i])
        /\ \A k \in fixed \ names : \E i \in at :
             s.statics[i].attr = k /\ IsRead(ReadArray(p, p.enabled[k]), s.statics[i])
    BY <1>6, Zenon DEF HasArrays
  <2>6. on = DOMAIN st /\ at = DOMAIN qu
    BY <1>5
  <2> HIDE DEF on, at
  <2>7. names = streamed /\ fixed = static
    BY <2>3, <2>4, <2>6
  <2> HIDE DEF streamed, static, names, fixed
  <2>8. DOMAIN p.enabled = streamed \cup static
    BY <2>5, <2>7
  <2>9. \A k \in streamed : \E i \in DOMAIN st :
          AttributeOf(st[i]) = k /\ IsRead(ReadArray(p, p.enabled[k]), s.streams[i])
    BY <2>1, <2>5, <2>6, <2>7
  <2>10. \A k \in static \ streamed : \E i \in DOMAIN qu :
           qu[i] = k /\ IsRead(ReadArray(p, p.enabled[k]), s.statics[i])
    BY <2>2, <2>5, <2>6, <2>7
  <2> QED BY <2>8, <2>9, <2>10
<1>14. DOMAIN r.arrays = streamed \cup static /\
       \A k \in streamed \cup static : r.arrays[k] = ReadArray(p, p.enabled[k])
  <2> HIDE DEF streamed, static
  <2> QED BY <1>7, <1>13
<1>15. ASSUME NEW k \in streamed
       PROVE  /\ r.arrays[k].data = asked[k]
              /\ \E i \in DOMAIN st : r.arrays[k].n = s.streams[i].n
  <2>1. PICK i \in DOMAIN st : AttributeOf(st[i]) = k /\ IsRead(r.arrays[k], s.streams[i])
    BY <1>13, <1>14
  <2>2. /\ r.arrays[k].data = s.streams[i].data
        /\ r.arrays[k].n = Size(s.streams[i]) \div s.streams[i].comps
    BY <2>1 DEF IsRead
  <2>3. /\ s.streams[i].comps = 2 /\ Size(s.streams[i]) \div 2 = s.streams[i].n
        /\ s.streams[i].data = [field |-> st[i], val |-> f[st[i]].val]
    BY <1>2, Zenon DEF StreamFits
  <2>4. asked[k] = [field |-> st[i], val |-> f[st[i]].val]
    BY <1>10, <2>1
  <2> QED BY <2>2, <2>3, <2>4
<1>16. ASSUME NEW k \in static \ streamed
       PROVE  r.arrays[k].data = asked[k] /\ r.arrays[k].n = 4
  <2>1. PICK i \in DOMAIN qu : qu[i] = k /\ IsRead(r.arrays[k], s.statics[i])
    BY <1>13, <1>14
  <2>2. /\ r.arrays[k].data = s.statics[i].data
        /\ r.arrays[k].n = Size(s.statics[i]) \div s.statics[i].comps
    BY <2>1 DEF IsRead
  <2>3. /\ s.statics[i].comps = 2 /\ Size(s.statics[i]) \div 2 = 4
        /\ s.statics[i].data = "corners"
    BY <1>3
  <2>4. asked[k] = "corners"
    BY <1>10, <2>1
  <2> QED BY <2>2, <2>3, <2>4
<1>17. [a \in DOMAIN r.arrays |-> r.arrays[a].data] = asked
  <2>1. DOMAIN asked = DOMAIN r.arrays
    BY <1>10, <1>14
  <2>2. \A k \in DOMAIN r.arrays : r.arrays[k].data = asked[k]
    BY <1>14, <1>15, <1>16
  <2> HIDE DEF streamed, static
  <2> QED BY <1>10, <2>1, <2>2
<1>18. ASSUME NEW i \in DOMAIN st PROVE s.streams[i].n >= least
  <2>1. CASE row.indexed
    BY <1>2, <2>1, Zenon DEF StreamFits
  <2>2. CASE ~row.indexed
    <3>1. st = <<"pos">> /\ i = 1
      BY <1>11, <2>2
    <3>2. s.streams[1].n \in Nat /\ s.streams[1].n >= 1
      BY <1>2, <2>2, <3>1, Zenon DEF StreamFits
    <3>3. CASE elem
      <4>1. least = 1
        BY <1>1, <1>8, <1>12, <2>2, <3>3
      <4> QED BY <3>1, <3>2, <4>1
    <3>4. CASE ~elem
      <4>1. s.count = s.streams[1].n /\ ~s.indexed /\ s.indices.data = None
        BY <1>1, <2>2, <3>4
      <4>2. s.count # 0
        BY <3>2, <4>1
      <4>3. VertexCount(s) = s.count
        BY <4>2, Zenon DEF VertexCount
      <4>4. r.count = s.streams[1].n /\ r.indices.data = None
        BY <1>8, <4>1, <4>3
      <4>5. least = s.streams[1].n
        BY <2>2, <4>4, Zenon
      <4> HIDE DEF least
      <4> QED BY <3>1, <3>2, <4>5
    <3> QED BY <3>3, <3>4
  <2> QED BY <2>1, <2>2
<1>19. static # {} => row.indexed
  BY <1>11
<1>20. \A a \in DOMAIN r.arrays : r.arrays[a].n >= least
  <2>1. ASSUME NEW a \in static \ streamed PROVE r.arrays[a].n >= least
    <3>1. r.arrays[a].n = 4 /\ least = 4
      BY <1>16, <1>19
    <3> QED BY <3>1
  <2>2. ASSUME NEW a \in streamed PROVE r.arrays[a].n >= least
    <3> HIDE DEF least, streamed
    <3> QED BY <1>15, <1>18
  <2> HIDE DEF least, streamed, static
  <2> QED BY <1>14, <2>1, <2>2
<1> QED BY <1>17, <1>20, Zenon DEF ReadsArrays, asked, r, row

-----------------------------------------------------------------------------
(* A draw of a program created at run time reads its call.                 *)

LEMMA Dividing ==
  ASSUME NEW w \in 1 .. 4, NEW k \in Nat \ {0}
  PROVE  w * k \in Nat /\ (w * k) % k = 0 /\ (w * k) \div k = w /\ (w * k) \div w = k
<1>1. CASE w = 1
  BY <1>1
<1>2. CASE w = 2
  BY <1>2
<1>3. CASE w = 3
  BY <1>3
<1>4. CASE w = 4
  BY <1>4
<1> QED BY <1>1, <1>2, <1>3, <1>4

Explicit(d, f) ==
  LET r == Resolve(d.count, f) IN IF r # <<>> /\ r[1].kind = "number" THEN r[1].val ELSE 0

ElementCount(d, f) ==
  LET r == Resolve(d.elements, f) IN IF r = <<>> THEN 0 ELSE Numbers(r[1])

Fixed(d) == {i \in DOMAIN d.attributes : d.attributes[i].kind = "static"}

PreparesDynamic(s, d, f, slots, loaded) ==
  LET Applied(i) == ApplyUniform(d.uniforms[i], f, slots, loaded)
      vals == {i \in DOMAIN d.uniforms : Applied(i).does = "value"}
      n == ElementCount(d, f)
  IN /\ s.values = [k \in {d.uniforms[i].key : i \in vals} |->
                      Applied(CHOOSE i \in vals : d.uniforms[i].key = k).to]
     /\ s.samplers = [i \in {i \in DOMAIN d.uniforms : Applied(i).does = "texture"} |->
                        <<d.uniforms[i].key, Applied(i).to>>]
     /\ \A i \in DOMAIN d.uniforms : Applied(i).does # "skip"
     /\ s.statics = AttributesOf(d.attributes, Fixed(d), f, Explicit(d, f))
     /\ s.streams = AttributesOf(d.attributes, DOMAIN d.attributes \ Fixed(d), f, Explicit(d, f))
     /\ s.indexed <=> n > 0
     /\ n # 0 => s.indices.data = Resolve(d.elements, f)[1].val
     /\ n = 0 => s.count = Explicit(d, f)

LEMMA DynamicPrepared ==
  ASSUME NEW d, NEW f, NEW slots, NEW loaded, PrepareDynamic(d, f, slots, loaded).draw
  PROVE  PreparesDynamic(PrepareDynamic(d, f, slots, loaded), d, f, slots, loaded)
<1> DEFINE s == PrepareDynamic(d, f, slots, loaded)
           Applied(i) == ApplyUniform(d.uniforms[i], f, slots, loaded)
           applied == [i \in DOMAIN d.uniforms |-> Applied(i)]
           sets(w) == {i \in DOMAIN applied : applied[i].does = w}
           vals    == sets("value")
           set     == sets("texture")
           r       == Resolve(d.count, f)
           explicit == IF r # <<>> /\ r[1].kind = "number" THEN r[1].val ELSE 0
           fixed   == {i \in DOMAIN d.attributes : d.attributes[i].kind = "static"}
           statics == AttributesOf(d.attributes, fixed, f, explicit)
           streams == AttributesOf(d.attributes, DOMAIN d.attributes \ fixed, f, explicit)
           elem    == Resolve(d.elements, f)
           n       == IF elem = <<>> THEN 0 ELSE Numbers(elem[1])
           count   == IF n = 0 THEN explicit
                      ELSE IF explicit > 0 /\ explicit < n THEN explicit ELSE n
           yes     == TRUE
           no      == FALSE
           indexed == n > 0
           indices == IF n = 0 THEN [data |-> None, n |-> 0] ELSE [data |-> elem[1].val, n |-> n]
           samplers == [i \in set |-> <<d.uniforms[i].key, applied[i].to>>]
           values   == [k \in {d.uniforms[i].key : i \in vals} |->
                          applied[CHOOSE i \in vals : d.uniforms[i].key = k].to]
           none    == sets("skip") # {} \/ (statics = <<>> /\ streams = <<>> /\ count <= 0)
           full    == [draw |-> yes, samplers |-> samplers, values |-> values, statics |-> statics,
                       streams |-> streams, indexed |-> indexed, quad |-> no, indices |-> indices,
                       count |-> count]
<1>1. s = IF none THEN Skip ELSE full
  BY Zenon DEF PrepareDynamic
<1>2. ~none /\ s = full
  <2> HIDE DEF none, full
  <2>1. ~Skip.draw
    BY DEF Skip
  <2> QED BY <1>1, <2>1
<1>3. sets("skip") = {}
  BY <1>2, Zenon
<1>4. \A i \in DOMAIN d.uniforms : Applied(i).does # "skip"
  <2> HIDE DEF Applied
  <2> QED BY <1>3
<1>5. set = {i \in DOMAIN d.uniforms : Applied(i).does = "texture"}
  <2> HIDE DEF Applied
  <2> QED OBVIOUS
<1>6. samplers = [i \in set |-> <<d.uniforms[i].key, Applied(i).to>>]
  <2>1. \A i \in set : applied[i] = Applied(i)
    <3> HIDE DEF Applied
    <3> QED OBVIOUS
  <2> HIDE DEF Applied, applied, set
  <2> QED BY <2>1
<1>7. /\ n # 0 => indices.data = elem[1].val
      /\ n = 0 => count = explicit
  <2> HIDE DEF n, elem
  <2> QED OBVIOUS
<1>8. n = ElementCount(d, f) /\ explicit = Explicit(d, f) /\ fixed = Fixed(d)
  BY DEF ElementCount, Explicit, Fixed
<1>9. statics = AttributesOf(d.attributes, Fixed(d), f, Explicit(d, f))
  BY <1>8
<1>10. streams = AttributesOf(d.attributes, DOMAIN d.attributes \ Fixed(d), f, Explicit(d, f))
  BY <1>8
<1> HIDE DEF s, samplers, values, statics, streams, indexed, indices, count, yes, no, n, explicit,
       none
<1>11. /\ s.samplers = samplers /\ s.values = values /\ s.statics = statics /\ s.streams = streams
       /\ s.indexed = indexed /\ s.indices = indices /\ s.count = count
  BY <1>2
<1>12. s.indexed <=> n > 0
  BY <1>11 DEF indexed
<1>13. s.samplers = [i \in {i \in DOMAIN d.uniforms : Applied(i).does = "texture"} |->
                      <<d.uniforms[i].key, Applied(i).to>>]
  <2> HIDE DEF Applied, set
  <2> QED BY <1>5, <1>6, <1>11
<1>14. s.values = [k \in {d.uniforms[i].key :
                              i \in {i \in DOMAIN d.uniforms : Applied(i).does = "value"}} |->
                     Applied(CHOOSE i \in {i \in DOMAIN d.uniforms : Applied(i).does = "value"} :
                               d.uniforms[i].key = k).to]
  <2>1. vals = {i \in DOMAIN d.uniforms : Applied(i).does = "value"}
    <3> HIDE DEF Applied
    <3> QED OBVIOUS
  <2>2. values = [k \in {d.uniforms[i].key : i \in vals} |->
                    Applied(CHOOSE i \in vals : d.uniforms[i].key = k).to]
    <3>1. \A i \in vals : applied[i] = Applied(i)
      <4> HIDE DEF Applied
      <4> QED OBVIOUS
    <3>2. \A k \in {d.uniforms[i].key : i \in vals} :
            (CHOOSE i \in vals : d.uniforms[i].key = k) \in vals
      <4> HIDE DEF vals
      <4> QED OBVIOUS
    <3> HIDE DEF Applied, applied, vals
    <3> QED BY <3>1, <3>2 DEF values
  <2> HIDE DEF Applied, vals
  <2> QED BY <1>11, <2>1, <2>2
<1> HIDE DEF Applied
<1> QED BY <1>4, <1>7, <1>8, <1>9, <1>10, <1>11, <1>12, <1>13, <1>14
        DEF PreparesDynamic, s, Applied

(* What a mapping sets a texture from.                                     *)
LEMMA AppliedFacts ==
  ASSUME NEW m, NEW f, NEW slots, NEW loaded, ApplyUniform(m, f, slots, loaded).does # "skip"
  PROVE  LET a == ApplyUniform(m, f, slots, loaded)
             r == Resolve(m, f)
         IN /\ a.does = "texture" <=>
                 IF m.kind = "texture" THEN r # <<>> /\ r[1].kind = "string"
                 ELSE r = <<>> /\ m.prop \in {"texture", "t1", "t2"} \cap DOMAIN slots
            /\ a.does = "texture" => \/ m.prop \in DOMAIN f /\ a.to = f[m.prop].val
                                     \/ m.prop \in DOMAIN slots /\ a.to = slots[m.prop]
<1> DEFINE a == ApplyUniform(m, f, slots, loaded)
           r == Resolve(m, f)
<1>1. CASE m.kind = "texture"
  <2>1. CASE r = <<>> \/ r[1].kind # "string"
    <3>1. a.does = "nothing"
      BY <1>1, <2>1 DEF ApplyUniform
    <3> HIDE DEF a, r
    <3> QED BY <1>1, <2>1, <3>1 DEF a, r
  <2>2. CASE ~(r = <<>> \/ r[1].kind # "string")
    <3>1. a = IF r[1].val \in loaded THEN [does |-> "texture", to |-> r[1].val]
              ELSE [does |-> "skip", to |-> None]
      BY <1>1, <2>2 DEF ApplyUniform
    <3>2. a.does = "texture" /\ a.to = r[1].val
      <4> HIDE DEF r
      <4> QED BY <3>1
    <3>3. m.prop \in DOMAIN f /\ r = <<f[m.prop]>>
      BY <1>1, <2>2 DEF Resolve
    <3>4. a.to = f[m.prop].val
      BY <3>2, <3>3
    <3> HIDE DEF a, r
    <3> QED BY <1>1, <2>2, <3>2, <3>3, <3>4 DEF a, r
  <2> QED BY <2>1, <2>2
<1>2. CASE m.kind # "texture"
  <2>1. CASE r = <<>> /\ m.prop \in {"texture", "t1", "t2"} \cap DOMAIN slots
    <3>1. a.does = "texture" /\ a.to = slots[m.prop] /\ m.prop \in DOMAIN slots
      BY <1>2, <2>1 DEF ApplyUniform
    <3> HIDE DEF a, r
    <3> QED BY <1>2, <2>1, <3>1 DEF a, r
  <2>2. CASE ~(r = <<>> /\ m.prop \in {"texture", "t1", "t2"} \cap DOMAIN slots)
    <3>1. a.does # "texture"
      <4>1. CASE r = <<>>
        BY <1>2, <2>2, <4>1 DEF ApplyUniform
      <4>2. CASE r # <<>>
        BY <1>2, <4>2 DEF ApplyUniform
      <4> QED BY <4>1, <4>2
    <3> HIDE DEF a, r
    <3> QED BY <1>2, <2>2, <3>1 DEF a, r
  <2> QED BY <2>1, <2>2
<1> QED BY <1>1, <1>2

\* The program samples the textures the call sets, and if no call sets others, only these.
SamplesDynamic(source, f, slots, samplers) ==
  LET d   == Dynamics[source].declares
      set == TextureUniforms(d, f, slots)
  IN /\ \A i \in set :
          LET m == d.uniforms[i]
          IN /\ m.key \in DOMAIN samplers
             /\ \/ m.prop \in DOMAIN f /\ samplers[m.key] = f[m.prop].val
                \/ m.prop \in DOMAIN slots /\ samplers[m.key] = slots[m.prop]
     /\ SetsAllTextures(source, f, slots) => DOMAIN samplers = {d.uniforms[i].key : i \in set}

LEMMA DynamicSamples ==
  ASSUME NEW source \in DOMAIN Dynamics, NEW c \in Dynamics[source].calls,
         NEW use \in Uses, use.use = c.use, NEW loaded,
         NEW s, s = PrepareDynamic(Dynamics[source].declares, c.fields, use.slots, loaded), s.draw,
         Sound(Dynamic(source), s),
         NEW g, NEW o, o.what = Dynamic(source),
         Expected(g.programs[o.id]), g.programs[o.id].what = o.what
  PROVE  /\ DOMAIN SamplersAfter(g.programs[o.id], o.what, s) \subseteq TextureKeys(source)
         /\ SamplesDynamic(source, c.fields, use.slots, ReadOf(g, o, s).samplers)
<1> DEFINE d     == Dynamics[source].declares
           f     == c.fields
           slots == use.slots
           what  == Dynamic(source)
           un    == d.uniforms
           list  == s.samplers
           on    == On(what, list)
           old   == g.programs[o.id].samplers
           to    == Over(ToldUnits(what, list), old)
           after == UnitsAfter(g.units, what, list)
           keys  == TextureKeys(source)
           set   == TextureUniforms(d, f, slots)
           all   == SetsAllTextures(source, f, slots)
           Applied(i) == ApplyUniform(un[i], f, slots, loaded)
           textures == {i \in DOMAIN un : Applied(i).does = "texture"}
           r == ReadOf(g, o, s)
<1>1. /\ list = [i \in textures |-> <<un[i].key, Applied(i).to>>]
      /\ \A i \in DOMAIN un : Applied(i).does # "skip"
  <2>1. PreparesDynamic(s, d, f, slots, loaded)
    BY DynamicPrepared
  <2> QED BY <2>1, Zenon DEF PreparesDynamic
<1>2. \A i \in DOMAIN un :
        /\ Applied(i).does = "texture" <=>
             IF un[i].kind = "texture"
             THEN Resolve(un[i], f) # <<>> /\ Resolve(un[i], f)[1].kind = "string"
             ELSE /\ Resolve(un[i], f) = <<>>
                  /\ un[i].prop \in {"texture", "t1", "t2"} \cap DOMAIN slots
        /\ Applied(i).does = "texture" =>
             \/ un[i].prop \in DOMAIN f /\ Applied(i).to = f[un[i].prop].val
             \/ un[i].prop \in DOMAIN slots /\ Applied(i).to = slots[un[i].prop]
  <2> HIDE DEF un, f, slots
  <2> QED BY <1>1, AppliedFacts
<1>3. set = {i \in textures : un[i].key \in d.active}
  <2> HIDE DEF Applied, f, slots
  <2> QED BY <1>2 DEF TextureUniforms
<1>4. /\ what.kind = "dynamic" /\ what.of = source
      /\ \A name : Active(what, name) <=> name \in d.active
  BY DEF Active, Dynamic
<1>5. /\ {un[i].key : i \in set} \subseteq keys
      /\ all => keys = {un[i].key : i \in set}
  <2> DEFINE set2 == {i \in DOMAIN un : \E c2 \in Dynamics[source].calls, u2 \in Uses :
                        u2.use = c2.use /\ i \in TextureUniforms(d, c2.fields, u2.slots)}
  <2>1. set \subseteq set2
    <3>1. \A i \in set : i \in DOMAIN un /\ i \in TextureUniforms(d, c.fields, use.slots)
      BY DEF TextureUniforms
    <3> HIDE DEF set, un, d
    <3> QED BY <3>1
  <2>2. all => set2 \subseteq set
    <3> HIDE DEF un
    <3> QED BY DEF SetsAllTextures
  <2>3. keys = {un[i].key : i \in set2}
    BY DEF TextureKeys
  <2> HIDE DEF set, set2, un, keys, all
  <2> QED BY <2>1, <2>2, <2>3
<1>6. \A i, j \in DOMAIN un :
        un[i].key = un[j].key /\ un[i].key \in d.active /\ un[j].key \in d.active => i = j
  BY DynamicsAssumption
<1> HIDE DEF Applied, set, keys, un, f, slots, d, what, all
<1>7. on = set
  <2>1. \A i \in textures : list[i][1] = un[i].key
    BY <1>1
  <2>2. DOMAIN list = textures
    BY <1>1
  <2> HIDE DEF list, textures
  <2> QED BY <1>3, <1>4, <2>1, <2>2 DEF On
<1>8. /\ \A i \in set : i \in DOMAIN un /\ un[i].key \in d.active
      /\ \A i \in set : list[i] = <<un[i].key, Applied(i).to>>
      /\ \A i \in set : \/ un[i].prop \in DOMAIN f /\ list[i][2] = f[un[i].prop].val
                        \/ un[i].prop \in DOMAIN slots /\ list[i][2] = slots[un[i].prop]
  BY <1>1, <1>2, <1>3
<1>9. DOMAIN old \subseteq keys
  <2>1. g.programs[o.id].what.kind = "dynamic" /\ g.programs[o.id].what.of = source
    BY <1>4 DEF what
  <2> QED BY <2>1 DEF Expected, keys
<1> HIDE DEF list, on, old
<1>10. AreRead(what, s, old, g.units)
  <2>1. Differ(what, s.samplers)
    <3>1. \A i, j \in on : list[i][1] = list[j][1] => i = j
      BY <1>6, <1>7, <1>8
    <3> QED BY <3>1 DEF Differ, on, list
  <2>2. Sound(what, s)
    BY DEF what
  <2> QED BY <2>1, <2>2, SamplersRead
<1>11. /\ DOMAIN to = {list[i][1] : i \in on} \cup DOMAIN old
       /\ \A i \in on : after[to[list[i][1]]] = list[i][2]
  BY <1>10, Zenon DEF AreRead, on, list
<1>12. to = SamplersAfter(g.programs[o.id], o.what, s)
  BY DEF SamplersAfter, list, old, what
<1>13. r.samplers = [k \in DOMAIN to |-> after[to[k]]]
  <2> DEFINE t == SamplersAfter(g.programs[o.id], o.what, s)
             a == UnitsAfter(g.units, o.what, s.samplers)
  <2>1. SaysRead(r, g, o, s)
    BY ReadFields
  <2>2. r.samplers = [k \in DOMAIN t |-> a[t[k]]]
    BY <2>1, Zenon DEF SaysRead
  <2>3. t = to /\ a = after
    BY <1>12 DEF list, what
  <2> HIDE DEF t, a, to, after, r
  <2> QED BY <2>2, <2>3
<1> HIDE DEF to, after, r
<1>14. /\ DOMAIN to \subseteq keys
       /\ all => DOMAIN to = {un[i].key : i \in set}
  <2>1. {list[i][1] : i \in on} = {un[i].key : i \in set}
    BY <1>7, <1>8
  <2> QED BY <1>5, <1>9, <1>11, <2>1
<1>15. ASSUME NEW i \in set
       PROVE  /\ un[i].key \in DOMAIN r.samplers
              /\ \/ un[i].prop \in DOMAIN f /\ r.samplers[un[i].key] = f[un[i].prop].val
                 \/ un[i].prop \in DOMAIN slots /\ r.samplers[un[i].key] = slots[un[i].prop]
  <2>1. list[i][1] = un[i].key /\ i \in on
    BY <1>7, <1>8
  <2>2. un[i].key \in DOMAIN to
    BY <1>11, <2>1
  <2>3. r.samplers[un[i].key] = list[i][2]
    BY <1>11, <1>13, <2>1, <2>2
  <2> QED BY <1>8, <1>13, <2>2, <2>3
<1>16. SamplesDynamic(source, f, slots, r.samplers)
  <2>1. all => DOMAIN r.samplers = {un[i].key : i \in set}
    BY <1>13, <1>14
  <2> QED BY <1>15, <2>1 DEF SamplesDynamic, un, d, set, all
<1> QED BY <1>12, <1>14, <1>16 DEF r, f, slots, keys

\* The program has the numbers the call sets.
NumbersDynamic(source, f, values) ==
  LET d == Dynamics[source].declares
  IN \A i \in NumberUniforms(d, f) :
       /\ d.uniforms[i].key \in DOMAIN values
       /\ values[d.uniforms[i].key] = Resolve(d.uniforms[i], f)[1].val

LEMMA AppliedNumber ==
  ASSUME NEW m, NEW f, NEW slots, NEW loaded, m.kind # "texture", Resolve(m, f) # <<>>,
         Resolve(m, f)[1].kind = "bool" \/ Numbers(Resolve(m, f)[1]) \in 1 .. 4
  PROVE  /\ ApplyUniform(m, f, slots, loaded).does = "value"
         /\ ApplyUniform(m, f, slots, loaded).to = Resolve(m, f)[1].val
<1> DEFINE v == Resolve(m, f)[1].val
<1>1. ApplyUniform(m, f, slots, loaded) = [does |-> "value", to |-> v]
  BY DEF ApplyUniform
<1> HIDE DEF v
<1>2. /\ ApplyUniform(m, f, slots, loaded).does = "value"
      /\ ApplyUniform(m, f, slots, loaded).to = v
  BY <1>1
<1> QED BY <1>2 DEF v

LEMMA DynamicReadsNumbers ==
  ASSUME NEW source \in DOMAIN Dynamics, NEW c \in Dynamics[source].calls, NEW slots, NEW loaded,
         NEW s, s = PrepareDynamic(Dynamics[source].declares, c.fields, slots, loaded), s.draw,
         NEW g, NEW o, o.what = Dynamic(source)
  PROVE  NumbersDynamic(source, c.fields, ReadOf(g, o, s).values)
<1> DEFINE d    == Dynamics[source].declares
           f    == c.fields
           what == Dynamic(source)
           un   == d.uniforms
           Applied(i) == ApplyUniform(un[i], f, slots, loaded)
           vals == {i \in DOMAIN un : Applied(i).does = "value"}
           told == ToldValues(what, s)
           old  == g.programs[o.id].values
           r    == ReadOf(g, o, s)
<1>1. s.values = [k \in {un[i].key : i \in vals} |-> Applied(CHOOSE i \in vals : un[i].key = k).to]
  <2>1. PreparesDynamic(s, d, f, slots, loaded)
    BY DynamicPrepared
  <2> QED BY <2>1, Zenon DEF PreparesDynamic
<1>2. \A i, j \in DOMAIN un :
        un[i].key = un[j].key /\ un[i].key \in d.active /\ un[j].key \in d.active => i = j
  BY DynamicsAssumption
<1>3. \A k : Active(what, k) <=> k \in d.active
  BY DEF Active, Dynamic
<1>4. r.values = Over(told, old)
  <2>1. SaysRead(r, g, o, s)
    BY ReadFields
  <2> QED BY <2>1, Zenon DEF SaysRead, ValuesAfter
<1>5. told = [k \in {k \in DOMAIN s.values : Active(what, k)} |-> s.values[k]]
  BY DEF ToldValues
<1> HIDE DEF r, told, old, what
<1>6. ASSUME NEW i \in NumberUniforms(d, f)
      PROVE  /\ un[i].key \in DOMAIN r.values
             /\ r.values[un[i].key] = Resolve(un[i], f)[1].val
  <2>1. /\ i \in DOMAIN un /\ un[i].key \in d.active
        /\ Applied(i).does = "value" /\ Applied(i).to = Resolve(un[i], f)[1].val
    <3>1. /\ i \in DOMAIN un /\ un[i].key \in d.active /\ un[i].kind # "texture"
          /\ Resolve(un[i], f) # <<>>
          /\ Resolve(un[i], f)[1].kind = "bool" \/ Numbers(Resolve(un[i], f)[1]) \in 1 .. 4
      BY <1>6, Zenon DEF NumberUniforms
    <3> QED BY <3>1, AppliedNumber
  <2> HIDE DEF Applied, un, f, d
  <2>2. (CHOOSE j \in vals : un[j].key = un[i].key) = i
    BY <1>2, <2>1
  <2>3. un[i].key \in DOMAIN s.values /\ s.values[un[i].key] = Applied(i).to
    <3> DEFINE key == un[i].key
               keys == {un[j].key : j \in vals}
               Of(k) == Applied(CHOOSE j \in vals : un[j].key = k).to
    <3>1. key \in keys
      BY <2>1
    <3>2. Of(key) = Applied(i).to
      BY <2>2
    <3>3. s.values = [k \in keys |-> Of(k)]
      BY <1>1, Zenon
    <3> HIDE DEF vals, keys, Of, key
    <3>4. key \in DOMAIN s.values /\ s.values[key] = Of(key)
      BY <3>1, <3>3
    <3> QED BY <3>2, <3>4 DEF key
  <2>4. un[i].key \in DOMAIN told /\ told[un[i].key] = Applied(i).to
    BY <1>3, <1>5, <2>1, <2>3
  <2>5. \A k \in DOMAIN told : k \in DOMAIN Over(told, old) /\ Over(told, old)[k] = told[k]
    <3>1. DOMAIN Over(told, old) = DOMAIN told \cup DOMAIN old
      BY OverFacts, Zenon
    <3>2. \A k \in DOMAIN told : Over(told, old)[k] = told[k]
      BY OverFacts, Zenon
    <3> QED BY <3>1, <3>2
  <2>6. un[i].key \in DOMAIN r.values /\ r.values[un[i].key] = told[un[i].key]
    BY <1>4, <2>4, <2>5
  <2> QED BY <2>1, <2>4, <2>6
<1> QED BY <1>6 DEF NumbersDynamic, r, un, d, f

(* The arrays a mapping makes.                                             *)
LEMMA MadeFacts ==
  ASSUME NEW maps, NEW places, NEW f, NEW count,
         NEW i \in DOMAIN AttributesOf(maps, places, f, count)
  PROVE  LET a == AttributesOf(maps, places, f, count)[i]
             v == Resolve(maps[i], f)[1]
         IN /\ i \in places /\ Resolve(maps[i], f) # <<>>
            /\ a.attr = maps[i].key /\ a.data = v.val
            /\ a.comps = InferComponents(maps[i].key, Numbers(v), count) /\ a.comps \in 1 .. 4
            /\ a.n = Numbers(v) \div a.comps /\ a.n > 0
<1> DEFINE m == maps[i]
           v == Resolve(m, f)[1]
           n == Numbers(v)
           comps == InferComponents(m.key, n, count)
           a == AttributesOf(maps, places, f, count)[i]
           each == n \div comps
<1>1. /\ i \in places /\ Resolve(m, f) # <<>>
      /\ a = Attribute(m.key, comps, each, v.val) /\ Attribute(m.key, comps, each, v.val).n > 0
  BY DEF AttributesOf
<1>2. comps \in 1 .. 4
  BY DEF InferComponents
<1> HIDE DEF a, each, comps, v, m
<1>3. a = [attr |-> m.key, comps |-> comps, n |-> each, data |-> v.val] /\ a.n > 0
  BY <1>1 DEF Attribute
<1>4. a.attr = m.key /\ a.comps = comps /\ a.n = each /\ a.data = v.val /\ a.n > 0
  BY <1>3
<1> QED BY <1>1, <1>2, <1>4 DEF a, each, comps, v, m

(* A call that counts its vertices has each of its arrays read in the      *)
(* width its shader declares.                                              *)
LEMMA CountedFacts ==
  ASSUME NEW d, NEW f, CountsVertices(d, f)
  PROVE  LET n == Explicit(d, f)
         IN /\ n \in Nat \ {0}
            /\ \A i \in DOMAIN d.attributes :
                 LET m == d.attributes[i]
                     v == Resolve(m, f)[1]
                 IN Resolve(m, f) # <<>> =>
                      /\ m.width \in 1 .. 4 /\ Numbers(v) = m.width * n
                      /\ InferComponents(m.key, Numbers(v), n) = m.width
                      /\ Numbers(v) \div m.width = n
<1> DEFINE n == Explicit(d, f)
<1>1. /\ Resolve(d.count, f) # <<>> /\ Resolve(d.count, f)[1].kind = "number"
      /\ Resolve(d.count, f)[1].val \in Nat \ {0}
      /\ \A i \in DOMAIN d.attributes :
           LET m == d.attributes[i]
               r == Resolve(m, f)
           IN r # <<>> => m.width \in 1 .. 4 /\ Numbers(r[1]) = m.width * Resolve(d.count, f)[1].val
  BY Zenon DEF CountsVertices
<1>2. n = Resolve(d.count, f)[1].val
  BY <1>1 DEF Explicit
<1>3. n \in Nat \ {0}
  BY <1>1, <1>2
<1>4. ASSUME NEW i \in DOMAIN d.attributes, Resolve(d.attributes[i], f) # <<>>
      PROVE  LET m == d.attributes[i]
                 v == Resolve(m, f)[1]
             IN /\ m.width \in 1 .. 4 /\ Numbers(v) = m.width * n
                /\ InferComponents(m.key, Numbers(v), n) = m.width
                /\ Numbers(v) \div m.width = n
  <2> DEFINE m == d.attributes[i]
             k == Numbers(Resolve(m, f)[1])
  <2>1. m.width \in 1 .. 4 /\ k = m.width * n
    BY <1>1, <1>2, <1>4
  <2> HIDE DEF n, m, k
  <2>2. k % n = 0 /\ k \div n = m.width /\ k \div m.width = n
    BY <1>3, <2>1, Dividing
  <2>3. InferComponents(m.key, k, n) = m.width
    BY <1>3, <2>1, <2>2 DEF InferComponents
  <2> QED BY <2>1, <2>2, <2>3 DEF m, k
<1> HIDE DEF n
<1> QED BY <1>3, <1>4 DEF n

ArraysDynamic(source, f, r) ==
  LET maps == Dynamics[source].declares.attributes
  IN \A a \in DOMAIN r.arrays :
       \E i \in DOMAIN maps :
         /\ maps[i].key = a
         /\ r.arrays[a].data = Resolve(maps[i], f)[1].val
         /\ CountsVertices(Dynamics[source].declares, f) =>
              r.arrays[a].comps = maps[i].width /\ r.arrays[a].n >= r.count

LEMMA DynamicReadsArrays ==
  ASSUME NEW source \in DOMAIN Dynamics, NEW c \in Dynamics[source].calls, NEW slots, NEW loaded,
         NEW s, s = PrepareDynamic(Dynamics[source].declares, c.fields, slots, loaded), s.draw,
         Sound(Dynamic(source), s),
         NEW g, NEW o, IsObject(o), o.what = Dynamic(source)
  PROVE  ArraysDynamic(source, c.fields, ReadOf(g, o, s))
<1> DEFINE d    == Dynamics[source].declares
           f    == c.fields
           what == Dynamic(source)
           maps == d.attributes
           p    == SetArrays(o, s)
           r    == ReadOf(g, o, s)
           n    == Explicit(d, f)
           Seen(list) == Names(what, list)
           V(i) == Resolve(maps[i], f)[1]
           counts == CountsVertices(d, f)
           Makes(a, i) ==
             /\ i \in DOMAIN maps /\ Resolve(maps[i], f) # <<>>
             /\ a.attr = maps[i].key /\ a.data = V(i).val
             /\ a.comps = InferComponents(maps[i].key, Numbers(V(i)), n) /\ a.comps \in 1 .. 4
             /\ a.n = Numbers(V(i)) \div a.comps /\ a.n > 0
<1>1. PreparesDynamic(s, d, f, slots, loaded)
  BY DynamicPrepared
<1>2. /\ s.statics = AttributesOf(maps, Fixed(d), f, n)
      /\ s.streams = AttributesOf(maps, DOMAIN maps \ Fixed(d), f, n)
      /\ s.indexed <=> ElementCount(d, f) > 0
      /\ ElementCount(d, f) # 0 => s.indices.data = Resolve(d.elements, f)[1].val
      /\ ElementCount(d, f) = 0 => s.count = n
  BY <1>1, Zenon DEF PreparesDynamic
<1>3. /\ \A i \in DOMAIN s.streams : i \notin Fixed(d) /\ Makes(s.streams[i], i)
      /\ \A i \in DOMAIN s.statics : Makes(s.statics[i], i)
  <2>1. Fixed(d) \subseteq DOMAIN maps
    BY DEF Fixed
  <2>2. ASSUME NEW i \in DOMAIN AttributesOf(maps, Fixed(d), f, n)
        PROVE  Makes(AttributesOf(maps, Fixed(d), f, n)[i], i)
    <3> HIDE DEF maps, f, n, d
    <3> QED BY <2>1, MadeFacts
  <2>3. ASSUME NEW i \in DOMAIN AttributesOf(maps, DOMAIN maps \ Fixed(d), f, n)
        PROVE  i \notin Fixed(d) /\ Makes(AttributesOf(maps, DOMAIN maps \ Fixed(d), f, n)[i], i)
    <3> HIDE DEF maps, f, n, d
    <3> QED BY MadeFacts
  <2> HIDE DEF Makes, maps, f, n, d
  <2> QED BY <1>2, <2>2, <2>3
<1>4. \A i \in DOMAIN s.streams : Size(s.streams[i]) > 0
  <2>1. ASSUME NEW i \in DOMAIN s.streams PROVE Size(s.streams[i]) > 0
    <3> DEFINE a == s.streams[i]
               k == Numbers(V(i))
    <3>1. k \in Nat
      <4>1. V(i) \in {f[j] : j \in DOMAIN f}
        BY <1>3, <2>1, Zenon DEF Resolve, Fixed
      <4>2. \A j \in DOMAIN f : f[j].len \in Nat
        BY DynamicsAssumption
      <4> HIDE DEF f, V
      <4> QED BY <4>1, <4>2 DEF Numbers
    <3>2. a.comps \in 1 .. 4 /\ a.n = k \div a.comps /\ a.n > 0
      BY <1>3, <2>1
    <3> HIDE DEF a, k
    <3>3. a.n \in Nat \ {0}
      BY <3>1, <3>2
    <3> QED BY <3>2, <3>3 DEF Size, a
  <2> QED BY <2>1
<1>5. HasArrays(what, s, p)
  <2>1. \A i \in Names(o.what, s.streams) : Size(s.streams[i]) > 0
    BY <1>4 DEF Names
  <2> QED BY <2>1, ArraysRead
<1>6. r.arrays = [k \in DOMAIN p.enabled |-> ReadArray(p, p.enabled[k])] /\ r.indices = s.indices
  <2>1. SaysRead(r, g, o, s)
    BY ReadFields
  <2> QED BY <2>1, Zenon DEF SaysRead
<1>7. r.count = IF s.indexed THEN s.count ELSE VertexCount(s)
  <2>1. SaysRead(r, g, o, s)
    BY ReadFields
  <2> QED BY <2>1, Zenon DEF SaysRead
<1> HIDE DEF r, p, d, maps, f, what, n
<1>8. counts =>
        /\ n \in Nat \ {0} /\ r.count = n
        /\ \A i \in DOMAIN maps : Resolve(maps[i], f) # <<>> =>
             /\ maps[i].width \in 1 .. 4
             /\ InferComponents(maps[i].key, Numbers(V(i)), n) = maps[i].width
             /\ Numbers(V(i)) \div maps[i].width = n
  <2> SUFFICES ASSUME counts
               PROVE  /\ n \in Nat \ {0} /\ r.count = n
                      /\ \A i \in DOMAIN maps : Resolve(maps[i], f) # <<>> =>
                           /\ maps[i].width \in 1 .. 4
                           /\ InferComponents(maps[i].key, Numbers(V(i)), n) = maps[i].width
                           /\ Numbers(V(i)) \div maps[i].width = n
    OBVIOUS
  <2>1. ElementCount(d, f) = 0
    BY Zenon DEF CountsVertices, ElementCount
  <2>2. /\ n \in Nat \ {0}
        /\ \A i \in DOMAIN maps : Resolve(maps[i], f) # <<>> =>
             /\ maps[i].width \in 1 .. 4
             /\ InferComponents(maps[i].key, Numbers(V(i)), n) = maps[i].width
             /\ Numbers(V(i)) \div maps[i].width = n
    BY CountedFacts DEF n, maps
  <2>3. s.count = n /\ ~s.indexed
    BY <1>2, <2>1
  <2>4. r.count = n
    BY <1>7, <2>2, <2>3 DEF VertexCount
  <2> QED BY <2>2, <2>4
<1>9. ASSUME NEW a, NEW i, Makes(a, i), NEW x, IsRead(x, a)
       PROVE  /\ i \in DOMAIN maps /\ maps[i].key = a.attr /\ x.data = V(i).val
              /\ counts => x.comps = maps[i].width /\ x.n >= r.count
  <2> SUFFICES ASSUME counts PROVE x.comps = maps[i].width /\ x.n >= r.count
    BY <1>9 DEF IsRead
  <2>1. /\ x.comps = a.comps /\ x.n = Size(a) \div a.comps
        /\ a.comps = maps[i].width /\ a.n = n /\ maps[i].width \in 1 .. 4
    BY <1>8, <1>9 DEF IsRead
  <2>2. n \in Nat \ {0} /\ r.count = n
    BY <1>8
  <2>3. Size(a) = n * a.comps
    BY <2>1 DEF Size
  <2>4. (n * a.comps) \div a.comps = n
    <3> DEFINE w == a.comps
    <3>1. w \in 1 .. 4 /\ n * w = w * n
      BY <2>1, <2>2
    <3>2. (w * n) \div w = n
      BY <2>2, <3>1, Dividing
    <3> QED BY <3>1, <3>2
  <2> QED BY <2>1, <2>2, <2>3, <2>4
<1> HIDE DEF Makes, V, counts
<1>10. /\ DOMAIN p.enabled = {s.streams[i].attr : i \in Seen(s.streams)} \cup
                            {s.statics[i].attr : i \in Seen(s.statics)}
       /\ \A k \in {s.streams[i].attr : i \in Seen(s.streams)} : \E i \in Seen(s.streams) :
            s.streams[i].attr = k /\ IsRead(ReadArray(p, p.enabled[k]), s.streams[i])
       /\ \A k \in {s.statics[i].attr : i \in Seen(s.statics)} \
                   {s.streams[i].attr : i \in Seen(s.streams)} : \E i \in Seen(s.statics) :
            s.statics[i].attr = k /\ IsRead(ReadArray(p, p.enabled[k]), s.statics[i])
  BY <1>5, Zenon DEF HasArrays
<1>11. /\ \A i \in Seen(s.streams) : i \in DOMAIN s.streams
       /\ \A i \in Seen(s.statics) : i \in DOMAIN s.statics
  BY DEF Names
<1> HIDE DEF Seen
<1>12. ASSUME NEW k \in DOMAIN r.arrays
       PROVE  \E i \in DOMAIN maps :
                /\ maps[i].key = k /\ r.arrays[k].data = V(i).val
                /\ counts =>
                     r.arrays[k].comps = maps[i].width /\ r.arrays[k].n >= r.count
  <2>1. k \in DOMAIN p.enabled /\ r.arrays[k] = ReadArray(p, p.enabled[k])
    BY <1>6
  <2>2. \/ \E i \in Seen(s.streams) : s.streams[i].attr = k /\ IsRead(r.arrays[k], s.streams[i])
        \/ \E i \in Seen(s.statics) : s.statics[i].attr = k /\ IsRead(r.arrays[k], s.statics[i])
    BY <1>10, <2>1
  <2>3. \E i, a : Makes(a, i) /\ a.attr = k /\ IsRead(r.arrays[k], a)
    BY <1>3, <1>11, <2>2
  <2>4. PICK i, a : Makes(a, i) /\ a.attr = k /\ IsRead(r.arrays[k], a)
    BY <2>3
  <2> QED BY <1>9, <2>4
<1> QED BY <1>12 DEF ArraysDynamic, r, maps, d, f, V, counts

-----------------------------------------------------------------------------
(* So all draws do, and what they leave is what the next ones can expect.  *)

ReadsBuiltin(d) ==
  /\ SamplesBuiltin(d, d.read.samplers)
  /\ ReadsValues(d, d.read.values) /\ ReadsArrays(d, d.read)

LEMMA PlainDraws ==
  ASSUME NEW d, d.what.kind = "builtin", d.what.of \in Builtins \ {"textbox"},
         d.fields \in Calls(Rows[d.what.of]),
         NEW use \in Uses, d.slots = use.slots, NEW loaded,
         NEW s, s = PrepareBuiltin(Rows[d.what.of], d.fields, d.slots, loaded), s.draw,
         Sound(d.what, s),
         NEW g, NEW o, IsObject(o), o.what = d.what, d.read = ReadOf(g, o, s),
         Expected(g.programs[o.id]), g.programs[o.id].what = d.what
  PROVE  /\ ReadsBuiltin(d)
         /\ Expected(Program(o.what, SamplersAfter(g.programs[o.id], o.what, s),
                             ValuesAfter(g.programs[o.id], o.what, s)))
<1> DEFINE row == Rows[d.what.of]
           to  == SamplersAfter(g.programs[o.id], o.what, s)
           v   == ValuesAfter(g.programs[o.id], o.what, s)
           new == Program(o.what, to, v)
<1>1. IsPlain(d.what)
  BY DEF IsPlain
<1>2. IsRow(row) /\ IsDrawn(row)
  BY RowFacts, RowsAreDrawn
<1>3. PreparesBuiltin(s, row, d.fields, d.slots, loaded)
  BY BuiltinPrepared
<1>4. /\ s.samplers = BuiltinSamplers(row, d.fields, d.slots)
      /\ s.values = BuiltinValues(row, d.fields)
  BY <1>3, Zenon DEF PreparesBuiltin
<1>5. SamplesBuiltin(d, ReadOf(g, o, s).samplers) /\ DOMAIN to \subseteq RowSamplers(row)
  BY <1>1, <1>2, <1>4, BuiltinSamples
<1>6. DOMAIN v = RowValues(row) /\ ReadsValues(d, v)
  BY <1>1, <1>2, <1>4, BuiltinReadsValues
<1>7. ReadOf(g, o, s).values = v
  <2>1. SaysRead(ReadOf(g, o, s), g, o, s)
    BY ReadFields
  <2> QED BY <2>1, Zenon DEF SaysRead
<1>8. ReadsArrays(d, ReadOf(g, o, s))
  BY <1>1, <1>2, BuiltinReadsArrays
<1> HIDE DEF to, v, row
<1>9. ReadsBuiltin(d)
  BY <1>5, <1>6, <1>7, <1>8 DEF ReadsBuiltin
<1>10. new.what = d.what /\ new.samplers = to /\ new.values = v
  BY DEF Program
<1> HIDE DEF new
<1>11. Expected(new)
  BY <1>1, <1>5, <1>6, <1>10 DEF Expected, IsPlain, row
<1> QED BY <1>9, <1>11 DEF new, to, v

ReadsDynamic(d) ==
  /\ SamplesDynamic(d.what.of, d.fields, d.slots, d.read.samplers)
  /\ NumbersDynamic(d.what.of, d.fields, d.read.values)
  /\ ArraysDynamic(d.what.of, d.fields, d.read)

LEMMA DynamicDraws ==
  ASSUME NEW d,
         NEW source \in DOMAIN Dynamics, d.what = Dynamic(source),
         NEW c \in Dynamics[source].calls, NEW use \in Uses, use.use = c.use,
         d.fields = c.fields, d.slots = use.slots, NEW loaded,
         NEW s, s = PrepareDynamic(Dynamics[source].declares, c.fields, use.slots, loaded), s.draw,
         Sound(d.what, s),
         NEW g, NEW o, IsObject(o), o.what = d.what, d.read = ReadOf(g, o, s),
         Expected(g.programs[o.id]), g.programs[o.id].what = d.what
  PROVE  /\ ReadsDynamic(d)
         /\ Expected(Program(o.what, SamplersAfter(g.programs[o.id], o.what, s),
                             ValuesAfter(g.programs[o.id], o.what, s)))
<1> DEFINE to  == SamplersAfter(g.programs[o.id], o.what, s)
           v   == ValuesAfter(g.programs[o.id], o.what, s)
           new == Program(o.what, to, v)
<1>1. d.what.of = source /\ d.what.kind = "dynamic"
  BY DEF Dynamic
<1>2. /\ DOMAIN to \subseteq TextureKeys(source)
      /\ SamplesDynamic(source, c.fields, use.slots, ReadOf(g, o, s).samplers)
  <2>1. Sound(Dynamic(source), s) /\ o.what = Dynamic(source) /\ g.programs[o.id].what = o.what
    BY Zenon
  <2> QED BY <2>1, DynamicSamples
<1>3. /\ ArraysDynamic(source, c.fields, ReadOf(g, o, s))
      /\ NumbersDynamic(source, c.fields, ReadOf(g, o, s).values)
  BY DynamicReadsArrays, DynamicReadsNumbers
<1> HIDE DEF to, v
<1>4. ReadsDynamic(d)
  BY <1>1, <1>2, <1>3 DEF ReadsDynamic
<1>5. new.what = d.what /\ new.samplers = to /\ new.values = v
  BY DEF Program
<1> HIDE DEF new
<1>6. Expected(new)
  BY <1>1, <1>2, <1>5 DEF Expected, IsPlain
<1> QED BY <1>4, <1>6 DEF new, to, v

LEMMA BuiltinDrawReads ==
  ASSUME NEW d, d.what.kind = "builtin", d.what.of = "textbox" \/ ReadsBuiltin(d)
  PROVE  BuiltinReads(d) /\ DynamicReads(d)
<1>1. BuiltinReads(d)
  BY DEF BuiltinReads, ReadsBuiltin, SamplesBuiltin, ReadsValues, ReadsArrays
<1>2. DynamicReads(d)
  BY Zenon DEF DynamicReads
<1> QED BY <1>1, <1>2

LEMMA DynamicDrawReads ==
  ASSUME NEW d, d.what.kind = "dynamic", ReadsDynamic(d)
  PROVE  BuiltinReads(d) /\ DynamicReads(d)
<1>1. BuiltinReads(d)
  BY DEF BuiltinReads
<1>2. DynamicReads(d)
  BY ZenonT(60) DEF DynamicReads, ReadsDynamic, SamplesDynamic, NumbersDynamic, ArraysDynamic
<1> QED BY <1>1, <1>2

LEMMA DrawReads ==
  ASSUME Inv, Told(gl), gl.up,
         NEW name \in DOMAIN registry, NEW use \in Uses,
         NEW f \in CallsOf(registry[name].what, use.use),
         NEW s, s = Prepare(registry[name].what, f, use.slots), s.draw,
         DrawPrepared(name, f, use.slots, s)
  PROVE  Told(gl') /\ ReadsItsCall'
<1> DEFINE o    == registry[name]
           what == o.what
           old  == gl.programs[o.id]
           new  == Program(what, SamplersAfter(old, what, s), ValuesAfter(old, what, s))
           full == [what |-> what, fields |-> f, slots |-> use.slots, read |-> ReadOf(gl, o, s)]
<1>1. /\ drawn' = full
      /\ IsObject(o) /\ IsWhat(what)
      /\ o.id \in DOMAIN gl.programs /\ old.what = what
      /\ \A q \in DOMAIN gl'.programs :
           q \in DOMAIN gl.programs /\ (q # o.id => gl'.programs[q] = gl.programs[q])
      /\ gl'.programs[o.id] = new
  BY DrawnFacts
<1>2. Sound(what, s)
  <2>1. images \subseteq Image
    BY DEF Inv, Inputs
  <2> QED BY <1>1, <2>1, PrepareSound
<1>3. Expected(old)
  BY <1>1 DEF Told
<1> HIDE DEF new, o
<1>4. Expected(new) => Told(gl')
  BY <1>1 DEF Told
<1>5. PICK d : d = full
  OBVIOUS
<1>6. d.what = what /\ d.fields = f /\ d.slots = use.slots /\ d.read = ReadOf(gl, o, s)
  BY <1>5
<1>7. drawn' = d
  BY <1>1, <1>5
<1> HIDE DEF full
<1>8. BuiltinReads(d) /\ DynamicReads(d) => ReadsItsCall'
  BY <1>7 DEF ReadsItsCall
<1>9. CASE \E source \in DOMAIN Dynamics : what = Dynamic(source)
  <2>1. PICK source \in DOMAIN Dynamics : what = Dynamic(source)
    BY <1>9
  <2>2. what.kind = "dynamic" /\ what.of = source
    BY <2>1 DEF Dynamic
  <2>3. PICK c \in Dynamics[source].calls : c.use = use.use /\ f = c.fields
    BY <2>2 DEF CallsOf, o
  <2>4. s = PrepareDynamic(Dynamics[source].declares, c.fields, use.slots, images)
    BY <2>2, <2>3 DEF Prepare, o
  <2> HIDE DEF what, old
  <2>5. /\ use.use = c.use /\ d.fields = c.fields /\ d.what = Dynamic(source) /\ Sound(d.what, s)
        /\ d.slots = use.slots /\ d.read = ReadOf(gl, o, s) /\ IsObject(o) /\ s.draw
        /\ o.what = d.what /\ Expected(gl.programs[o.id]) /\ gl.programs[o.id].what = d.what
    BY <1>1, <1>2, <1>3, <1>6, <2>1, <2>3 DEF what, old
  <2>6. /\ ReadsDynamic(d)
        /\ Expected(Program(o.what, SamplersAfter(gl.programs[o.id], o.what, s),
                            ValuesAfter(gl.programs[o.id], o.what, s)))
    BY <2>4, <2>5, DynamicDraws
  <2>7. Expected(new)
    BY <2>6 DEF new, what, old
  <2>8. d.what.kind = "dynamic"
    BY <1>6, <2>2 DEF what
  <2> QED BY <1>4, <1>8, <2>6, <2>7, <2>8, DynamicDrawReads
<1>10. CASE \E b \in Builtins : what = Builtin(b)
  <2>1. what.kind = "builtin" /\ what.of \in Builtins
    BY <1>10 DEF Builtin
  <2>2. CASE what.of = "textbox"
    <3>1. new.what = what
      BY DEF new, Program
    <3>2. Expected(new)
      BY <2>1, <2>2, <3>1 DEF Expected, IsPlain
    <3> QED BY <1>4, <1>6, <1>8, <2>1, <2>2, <3>2, BuiltinDrawReads
  <2>3. CASE what.of # "textbox"
    <3>1. f \in Calls(Rows[what.of])
      BY <2>1, <2>3 DEF CallsOf, o
    <3>2. s = PrepareBuiltin(Rows[what.of], f, use.slots, images)
      BY <2>1, <2>3 DEF Prepare, o
    <3> HIDE DEF what, old
    <3>3. /\ d.what.kind = "builtin" /\ d.what.of \in Builtins \ {"textbox"}
          /\ d.fields \in Calls(Rows[d.what.of])
          /\ s = PrepareBuiltin(Rows[d.what.of], d.fields, d.slots, images)
          /\ Sound(d.what, s) /\ o.what = d.what
          /\ Expected(gl.programs[o.id]) /\ gl.programs[o.id].what = d.what
      BY <1>1, <1>2, <1>3, <1>6, <2>1, <2>3, <3>1, <3>2 DEF what, old
    <3>4. /\ ReadsBuiltin(d)
          /\ Expected(Program(o.what, SamplersAfter(gl.programs[o.id], o.what, s),
                              ValuesAfter(gl.programs[o.id], o.what, s)))
      BY <1>1, <1>6, <3>3, PlainDraws
    <3>5. Expected(new)
      BY <3>4 DEF new, what, old
    <3> QED BY <1>4, <1>8, <3>3, <3>4, <3>5, BuiltinDrawReads
  <2> QED BY <2>2, <2>3
<1> QED BY <1>1, <1>9, <1>10 DEF IsWhat

LEMMA RenderReads ==
  ASSUME Inv, Told(gl), ReadsItsCall, Render
  PROVE  Told(gl') /\ ReadsItsCall'
<1>1. PICK name \in DOMAIN registry, use \in Uses :
        \E f \in CallsOf(registry[name].what, use.use) : Draw(name, f, use.slots)
  BY Zenon DEF Render
<1>2. PICK f \in CallsOf(registry[name].what, use.use) : Draw(name, f, use.slots)
  BY <1>1
<1>3. PICK s : s = Prepare(registry[name].what, f, use.slots)
  OBVIOUS
<1>4. CASE s.draw /\ DrawPrepared(name, f, use.slots, s)
  <2>1. gl.up
    BY DEF Render
  <2> QED BY <1>3, <1>4, <2>1, DrawReads
<1>5. CASE drawn' = None /\ UNCHANGED gl
  BY <1>5, Zenon DEF Told, ReadsItsCall
<1> QED BY <1>2, <1>3, <1>4, <1>5 DEF Draw

LEMMA NextReads ==
  ASSUME Inv, Told(gl), ReadsItsCall, [Next]_vars
  PROVE  Told(gl') /\ ReadsItsCall'
<1>1. drawn' = None \/ UNCHANGED drawn => ReadsItsCall'
  BY DEF ReadsItsCall
<1>2. CASE StartGl
  BY <1>1, <1>2, StartTells DEF StartGl
<1>3. ASSUME NEW name \in DynamicName, NEW source \in app.creates, CreateProgram(name, source)
      PROVE  Told(gl') /\ ReadsItsCall'
  <2>1. UNCHANGED drawn
    BY <1>3 DEF CreateProgram
  <2> QED BY <1>1, <1>3, <2>1, CreateTells
<1>4. CASE Render
  BY <1>4, RenderReads
<1>5. CASE Shutdown
  BY <1>1, <1>5, NothingIsTold DEF Shutdown
<1>6. ASSUME NEW i \in Image, TextureArrives(i) \/ TextureLeaves(i)
      PROVE  Told(gl') /\ ReadsItsCall'
  <2>1. drawn' = None
    BY <1>6 DEF TextureArrives, TextureLeaves
  <2> QED BY <1>1, <1>6, <2>1, TextureTells
<1>7. ASSUME NEW x \in DOMAIN Atlas, FontArrives(x) \/ FontLeaves(x)
      PROVE  Told(gl') /\ ReadsItsCall'
  <2>1. drawn' = None /\ UNCHANGED gl
    BY <1>7 DEF FontArrives, FontLeaves
  <2> QED BY <1>1, <2>1 DEF Told
<1>8. CASE UNCHANGED vars
  BY <1>1, <1>8 DEF vars, Told
<1> QED BY <1>2, <1>3, <1>4, <1>5, <1>6, <1>7, <1>8 DEF Next

(* Any program may be drawn in any use.  GL reads for a draw the textures, *)
(* numbers and arrays of its call, although a program keeps its uniforms   *)
(* and a unit its texture from draw to draw, and the arrays of a draw      *)
(* share one buffer (program_base.cc:151-286, dynamic_program.cc:262-436). *)
(* It samples nothing else if it sets every texture of its program; a draw *)
(* that does not may find an earlier one: SamplesOnlyItsCall is not kept.  *)
THEOREM CallsAreRead ==
  ASSUME MaxContexts = 1
  PROVE  Spec => []ReadsItsCall
<1> DEFINE Reading == Inv /\ Told(gl) /\ ReadsItsCall
<1>1. Init => Reading
  <2> SUFFICES ASSUME Init PROVE Reading
    OBVIOUS
  <2>1. Inv
    BY InitKeeps
  <2>2. gl = NoGl /\ drawn = None
    BY DEF Init
  <2>3. Told(gl)
    BY <2>2, NothingIsTold
  <2>4. ReadsItsCall
    BY <2>2 DEF ReadsItsCall
  <2> QED BY <2>1, <2>3, <2>4
<1>2. Reading /\ [Next]_vars => Reading'
  BY NextKeeps, NextReads DEF Told
<1>3. Reading => ReadsItsCall
  OBVIOUS
<1> QED BY <1>1, <1>2, <1>3, PTL DEF Spec
=============================================================================
