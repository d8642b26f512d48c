---------------------------- MODULE DeclPrograms ----------------------------
(***************************************************************************)
(* The declarative programs and the GL state they share: the registry      *)
(* (decl_program_registry.cc), the built-in programs, programs created at  *)
(* run time (dynamic_program.cc), and ProgramBase::draw, which caches the  *)
(* bound program, streams and static buffers, and leaves uniforms, texture *)
(* units and vertex arrays as they are for the next draw.                  *)
(*                                                                         *)
(* GL is modelled from its calls: a program keeps its uniforms from draw   *)
(* to draw, a sampler names a texture unit and not a texture, a deleted    *)
(* program stays alive while it is current, a context starts with nothing  *)
(* bound.  `drawn' is what the last draw was asked and what GL read for it.*)
(*                                                                         *)
(* The data of a field is a kind, a length and a value; the arithmetic on  *)
(* it (camera, UV expansion, pens) is left out.                            *)
(***************************************************************************)
EXTENDS TextLayout, FiniteSets, FiniteSetsExt, Functions, TLC

CONSTANTS
  None,
  MaxNames,     \* how many program names GL can give
  Image,        \* the images textures are loaded from
  Palette,      \* the textures of the framebuffer pool
  Atlas,        \* [font -> the image of its atlas]
  Apps,         \* applications: the programs StartRegl lists, those created
  Dynamics,     \* [name of a source -> declaration and calls of a program]
  DynamicName,  \* the names under which programs are created
  Texts,        \* the calls of the textbox program that are drawn
  Boxes,        \* the calls of the textbox program that are laid out
  MaxContexts   \* how often a GL context is created in one process

\* Of the programs created at run time: their calls have lengths, and their shaders
\* use at most three uniforms that are mapped, as many as there are units here, each
\* mapped once.
ASSUME DynamicsAssumption ==
  \A source \in DOMAIN Dynamics :
    LET d    == Dynamics[source].declares
        used == {i \in DOMAIN d.uniforms : d.uniforms[i].key \in d.active}
    IN /\ DOMAIN d.attributes \subseteq Nat \ {0} /\ DOMAIN d.uniforms \subseteq Nat
       /\ IsFiniteSet(used) /\ Cardinality(used) <= 3
       /\ \A i, j \in used : d.uniforms[i].key = d.uniforms[j].key => i = j
       /\ \A c \in Dynamics[source].calls : \A k \in DOMAIN c.fields : c.fields[k].len \in Nat

ASSUME AppsAssumption ==
  /\ None \notin Nat /\ MaxNames \in Nat
  /\ \A a \in Apps : IsFiniteSet(a.lists) /\ a.creates \subseteq DOMAIN Dynamics

Arr(n, v) == [kind |-> "array", len |-> n, val |-> v]
Num(v)    == [kind |-> "number", len |-> 1, val |-> v]
Bool(v)   == [kind |-> "bool", len |-> 0, val |-> v]
Str(v)    == [kind |-> "string", len |-> 0, val |-> v]
NoFields  == <<>>
Default   == 0        \* what a program uses for a number that is not given

\* What f says, and where it says nothing, what g says.
Over(f, g) == [k \in DOMAIN f \cup DOMAIN g |-> IF k \in DOMAIN f THEN f[k] ELSE g[k]]

Has(f, k, kind) == k \in DOMAIN f /\ f[k].kind = kind

-----------------------------------------------------------------------------
(* The built-in programs, one row each: the arrays a call must have and    *)
(* their least length, the images it must name, the arrays streamed as     *)
(* attributes, the attributes of a fixed quad, numbers with a default, and *)
(* the framebuffer textures the walker passes.                             *)

Row(need, images, streamed, quads, numbers, slots) ==
  [need |-> need, images |-> images, streamed |-> streamed, quads |-> quads,
   numbers |-> numbers, slots |-> slots, elements |-> FALSE, indexed |-> TRUE,
   corners |-> FALSE]

Shape(need, streamed, quads, numbers) == Row(need, <<>>, streamed, quads, numbers, <<>>)
Effect(numbers)     == Row(<<>>, <<>>, <<>>, <<"texc">>, numbers, <<"texture">>)
Compositor(numbers) == Row(<<>>, <<>>, <<>>, <<"texc">>, numbers, <<"t1", "t2">>)
Textured(need, streamed, quads, numbers) ==
  Row(need, <<"texture">>, streamed, quads, numbers \cup {"alpha"}, <<>>)

TriangleProgram ==
  [Shape([pos |-> 6, color |-> 4], <<"pos">>, <<>>, {}) EXCEPT !.indexed = FALSE]
RectProgram        == Shape([posize |-> 4, color |-> 4], <<>>, <<"position">>, {"angle"})
CircleProgram      == Shape([cr |-> 3, color |-> 4], <<>>, <<"position">>, {})
RoundedRectProgram == Shape([cs |-> 4, color |-> 4], <<>>, <<"position">>, {"radius"})
PolyProgram ==
  [Shape([pos |-> 2, color |-> 4], <<"pos">>, <<>>, {}) EXCEPT !.indexed = FALSE, !.elements = TRUE]
QuadProgram ==
  [Shape([pos |-> 8, color |-> 4], <<"pos">>, <<>>, {}) EXCEPT !.corners = TRUE]

TextureProgram         == Textured([pos |-> 8], <<"pos">>, <<"texc">>, {})
TextureCroppedProgram  == Textured([pos |-> 8, texc |-> 8], <<"pos", "texc">>, <<>>, {})
CenteredTextureProgram == Textured([posize |-> 4], <<>>, <<"texc">>, {"angle"})
CenteredCroppedTextureProgram ==
  [Textured([posize |-> 4, texc |-> 4], <<"texc">>, <<"texc2">>, {"angle"})
     EXCEPT !.corners = TRUE]

\* The palette program takes the first of these that is set.
PaletteSlots   == <<"tex", "fbo", "texture">>
PaletteProgram == Row(<<>>, <<>>, <<>>, <<"texc">>, {}, PaletteSlots)

DefaultCompositorProgram == Compositor({"mode"})
CompFadeProgram   == Compositor({"t"})
ImgFadeProgram    == [Compositor({"t", "invert_mask"}) EXCEPT !.images = <<"mask">>]
AlphaMultProgram  == Effect({"alpha"})
ColorMultProgram  == Effect({"color"})
BlurHProgram      == Effect({"radius"})
BlurVProgram      == Effect({"radius"})
GBlurHProgram     == Effect({"radius"})
GBlurVProgram     == Effect({"radius"})
CrtProgram        == Effect({"count"})
FxaaProgram       == [Effect({}) EXCEPT !.quads = <<"position">>]
OutlineProgram    == Effect({"color", "outline"})
PixilationProgram == Effect({"ps"})

\* What it prepares depends on its text: see PrepareText.
TextboxProgram == Row(<<>>, <<>>, <<"position", "uv">>, <<>>, {"thickness"}, <<>>)

Rows ==
  [triangle |-> TriangleProgram, rect |-> RectProgram, circle |-> CircleProgram,
   roundedRect |-> RoundedRectProgram, poly |-> PolyProgram, quad |-> QuadProgram,
   texture |-> TextureProgram, textureCropped |-> TextureCroppedProgram,
   centeredTexture |-> CenteredTextureProgram,
   centeredCroppedTexture |-> CenteredCroppedTextureProgram,
   palette |-> PaletteProgram, defaultCompositor |-> DefaultCompositorProgram,
   compFade |-> CompFadeProgram, imgFade |-> ImgFadeProgram,
   alphamult |-> AlphaMultProgram, colormult |-> ColorMultProgram,
   blurh |-> BlurHProgram, blurv |-> BlurVProgram, gblurh |-> GBlurHProgram,
   gblurv |-> GBlurVProgram, crt |-> CrtProgram, fxaa |-> FxaaProgram,
   outline |-> OutlineProgram, pixilation |-> PixilationProgram, textbox |-> TextboxProgram]

Builtins == DOMAIN Rows
Builtin(name) == [kind |-> "builtin", of |-> name]
Dynamic(name) == [kind |-> "dynamic", of |-> name]

\* A field that has a default: a colour needs four numbers, the others are one.
NumberKind(k) == IF k = "color" THEN "array" ELSE "number"
Usable(f, k)  == Has(f, k, NumberKind(k)) /\ (k = "color" => f[k].len >= 4)

-----------------------------------------------------------------------------
(* What a draw is prepared to: samplers and values to set, attributes from *)
(* static storage and streamed ones, indices, and a count.  Samplers and   *)
(* attributes are functions of their places in the code's vectors.         *)

Skip == [draw |-> FALSE]

Attribute(attr, comps, n, data) == [attr |-> attr, comps |-> comps, n |-> n, data |-> data]
QuadCorners(attr) == Attribute(attr, 2, 4, "corners")
QuadIndices       == [data |-> "quad", n |-> 6]

AttributeOf(field) == IF field = "pos" THEN "position" ELSE field

Suffices(row, k, value) == value.len >= row.need[k]

Complete(row, f, images) ==
  /\ \A k \in DOMAIN row.need : Has(f, k, "array") /\ Suffices(row, k, f[k])
  /\ \A i \in DOMAIN row.images :
       LET k == row.images[i] IN Has(f, k, "string") /\ f[k].val \in images

SamplerOf(k) == IF k \in {"t1", "t2", "mask"} THEN k ELSE "tex"

\* The places in row.slots of the framebuffer textures of a draw.
Slotted(row, slots) ==
  LET set == {i \in DOMAIN row.slots : row.slots[i] \in DOMAIN slots}
  IN IF row.slots = PaletteSlots THEN {i \in set : \A j \in set : i <= j} ELSE set

\* The textures of a draw, by their places in the order their samplers are set.
BuiltinSamplers(row, f, slots) ==
  LET n == Len(row.images)
  IN [i \in 1 .. n \cup {n + j : j \in Slotted(row, slots)} |->
        IF i <= n THEN <<SamplerOf(row.images[i]), f[row.images[i]].val>>
        ELSE <<SamplerOf(row.slots[i - n]), slots[row.slots[i - n]]>>]

BuiltinValues(row, f) ==
  LET given == DOMAIN row.need \ {row.streamed[i] : i \in DOMAIN row.streamed}
  IN [k \in given \cup row.numbers |->
        IF k \in given \/ Usable(f, k) THEN f[k].val ELSE Default]

\* Some programs stream four corners, whatever the call has: "quad" its first
\* ones, "centeredCroppedTexture" those of its cropping.
StreamedOf(row, k, value) ==
  Attribute(AttributeOf(k), 2, IF row.corners THEN 4 ELSE value.len \div 2,
            [field |-> k, val |-> value.val])

PrepareBuiltin(row, f, slots, images) ==
  IF ~Complete(row, f, images) THEN Skip
  ELSE LET Streamed(k) == StreamedOf(row, k, f[k])
           streams == [i \in DOMAIN row.streamed |-> Streamed(row.streamed[i])]
           elem    == row.elements /\ Has(f, "elem", "array")
       IN [draw     |-> TRUE,
           samplers |-> BuiltinSamplers(row, f, slots),
           values   |-> BuiltinValues(row, f),
           statics  |-> [i \in DOMAIN row.quads |-> QuadCorners(row.quads[i])],
           streams  |-> streams,
           indexed  |-> row.indexed \/ elem,
           quad     |-> row.indexed,
           indices  |-> IF row.indexed THEN QuadIndices
                        ELSE IF elem THEN [data |-> f["elem"].val, n |-> f["elem"].len]
                        ELSE [data |-> None, n |-> 0],
           count    |-> IF row.indexed THEN 6
                        ELSE IF elem THEN f["elem"].len ELSE streams[1].n]

FontNames(f) ==
  IF Has(f, "fonts", "strings") THEN f["fonts"].val
  ELSE IF Has(f, "font", "string") THEN <<f["font"].val>> ELSE <<>>

\* The glyphs of a call of the textbox program.
MeshOf(f) == Mesh(Lines(f["text"].val, FontNames(f), f["width"].val, f["wordBreak"].val))

\* The layout of a text comes to an end.
ASSUME TextsAssumption == \A f \in Texts : Len(MeshOf(f)) \in Nat

\* The textbox: a font that is missing, or whose atlas is, skips the draw; fonts
\* with different atlases all use the first one.
PrepareText(f, fonts, images) ==
  LET names == FontNames(f)
      mesh  == MeshOf(f)
      n     == Len(mesh)
  IN IF \/ ~Has(f, "text", "string") \/ f["text"].val = <<>> \/ names = <<>>
        \/ \E i \in DOMAIN names : names[i] \notin fonts
        \/ Atlas[names[1]] \notin images
        \/ n = 0
     THEN Skip
     ELSE [draw     |-> TRUE,
           samplers |-> << <<"tMap", Atlas[names[1]]>> >>,
           values   |-> [thickness |-> IF Has(f, "thickness", "number")
                                       THEN f["thickness"].val ELSE Default],
           statics  |-> <<>>,
           streams  |-> << Attribute("position", 2, 4 * n, mesh),
                           Attribute("uv", 2, 4 * n, [i \in 1 .. n |-> [at |-> mesh[i].at]]) >>,
           indexed  |-> TRUE,
           quad     |-> FALSE,
           indices  |-> [data |-> n, n |-> 6 * n],
           count    |-> 6 * n]

-----------------------------------------------------------------------------
(* Programs created at run time map uniforms and attributes to the fields  *)
(* of a call, or to a value of their own.                                  *)

Resolve(m, f) ==
  IF m.kind = "static" THEN <<m.value>>
  ELSE IF m.prop \in DOMAIN f THEN <<f[m.prop]>> ELSE <<>>

\* How many numbers a value has for a shader.
Numbers(value) == IF value.kind \in {"number", "array"} THEN value.len ELSE 0

\* What a mapping does to its uniform: set a texture or a value, nothing, or
\* give up the draw.
ApplyUniform(m, f, slots, images) ==
  LET r       == Resolve(m, f)
      nothing == [does |-> "nothing", to |-> None]
  IN IF m.kind = "texture"
     THEN IF r = <<>> \/ r[1].kind # "string" THEN nothing
          ELSE IF r[1].val \in images THEN [does |-> "texture", to |-> r[1].val]
          ELSE [does |-> "skip", to |-> None]
     ELSE IF r = <<>>
     THEN IF m.prop \in {"texture", "t1", "t2"} \cap DOMAIN slots
          THEN [does |-> "texture", to |-> slots[m.prop]] ELSE nothing
     ELSE IF r[1].kind = "bool" \/ Numbers(r[1]) \in 1..4 THEN [does |-> "value", to |-> r[1].val]
     ELSE nothing

InferComponents(key, n, count) ==
  IF count > 0 /\ n % count = 0 /\ n \div count \in 1..4 THEN n \div count
  ELSE IF key \in {"color", "colour"} THEN 4
  ELSE IF key = "normal" /\ n % 3 = 0 THEN 3
  ELSE 2

\* The attributes at some places of maps, where the call has data for them.
AttributesOf(maps, places, f, count) ==
  LET Made(m) == LET n     == Numbers(Resolve(m, f)[1])
                     comps == InferComponents(m.key, n, count)
                 IN Attribute(m.key, comps, n \div comps, Resolve(m, f)[1].val)
      usable  == {i \in places : /\ Resolve(maps[i], f) # <<>>
                                 /\ Numbers(Resolve(maps[i], f)[1]) > 0
                                 /\ Made(maps[i]).n > 0}
  IN [i \in usable |-> Made(maps[i])]

PrepareDynamic(d, f, slots, images) ==
  LET explicit == LET r == Resolve(d.count, f)
                  IN IF r # <<>> /\ r[1].kind = "number" THEN r[1].val ELSE 0
      applied  == [i \in DOMAIN d.uniforms |-> ApplyUniform(d.uniforms[i], f, slots, images)]
      sets(w)  == {i \in DOMAIN applied : applied[i].does = w}
      vals     == sets("value")
      fixed    == {i \in DOMAIN d.attributes : d.attributes[i].kind = "static"}
      statics  == AttributesOf(d.attributes, fixed, f, explicit)
      streams  == AttributesOf(d.attributes, DOMAIN d.attributes \ fixed, f, explicit)
      elem     == Resolve(d.elements, f)
      n        == IF elem = <<>> THEN 0 ELSE Numbers(elem[1])
      count    == IF n = 0 THEN explicit
                  ELSE IF explicit > 0 /\ explicit < n THEN explicit ELSE n
  IN IF sets("skip") # {} \/ (statics = <<>> /\ streams = <<>> /\ count <= 0) THEN Skip
     ELSE [draw     |-> TRUE,
           samplers |-> [i \in sets("texture") |-> <<d.uniforms[i].key, applied[i].to>>],
           values   |-> [k \in {d.uniforms[i].key : i \in vals} |->
                           applied[CHOOSE i \in vals : d.uniforms[i].key = k].to],
           statics  |-> statics,
           streams  |-> streams,
           indexed  |-> n > 0,
           quad     |-> FALSE,
           indices  |-> IF n = 0 THEN [data |-> None, n |-> 0]
                        ELSE [data |-> elem[1].val, n |-> n],
           count    |-> count]

-----------------------------------------------------------------------------
VARIABLES
  app,        \* the application that runs
  registry,   \* [name -> program object]
  gl,         \* the GL context
  last,       \* the program the process believes to be bound
  contexts,   \* the contexts created so far
  images, fonts,   \* the textures and fonts that are loaded
  drawn       \* the last draw: what was asked, what GL read

vars == <<app, registry, gl, last, contexts, images, fonts, drawn>>

Unit   == 0 .. 2
GlName == 1 .. MaxNames

\* GL gives the lowest name that is not in use, as its implementations do.
NewName(used) == Min(GlName \ used)

\* A context: its programs with their uniforms, those deleted while current, the
\* current one, the textures of the units, and the other objects that exist.
FreshGl == [up |-> TRUE, programs |-> <<>>, doomed |-> {}, current |-> None,
            units |-> [u \in Unit |-> None], active |-> 0, objects |-> {}]
NoGl    == [FreshGl EXCEPT !.up = FALSE]

Object(id, what) ==
  [id |-> id, what |-> what, made |-> FALSE, enabled |-> <<>>, stream |-> {},
   quads |-> {}, indices |-> {}]

Init ==
  /\ app \in Apps
  /\ registry = <<>> /\ gl = NoGl /\ last = None /\ contexts = 0
  /\ images = {} /\ fonts = {} /\ drawn = None

Prepare(what, f, slots) ==
  IF what.kind = "dynamic" THEN PrepareDynamic(Dynamics[what.of].declares, f, slots, images)
  ELSE IF what.of = "textbox" THEN PrepareText(f, fonts, images)
  ELSE PrepareBuiltin(Rows[what.of], f, slots, images)

\* The uniforms and attributes that the shaders of a program use; a built-in
\* program uses all that are set for it.
Active(what, name) == what.kind = "builtin" \/ name \in Dynamics[what.of].declares.active

-----------------------------------------------------------------------------
(* ProgramBase::draw.                                                      *)

\* Mutation: the cache only remembers that something was bound.
Bound_Any(id, bound) == bound # None

Bound(id, bound) == id = bound

UseProgram(g, id) ==
  LET freed == g.doomed \cap {g.current}
  IN [g EXCEPT !.current = id, !.doomed = @ \ freed,
               !.programs = [p \in DOMAIN @ \ freed |-> @[p]]]

Supplied(p, to, values) ==
  [p EXCEPT !.samplers = Over(to, @), !.values = Over(values, @)]

\* Each texture takes the next unit; the values go to the current program.
SetUniforms(g, what, s) ==
  LET on      == {i \in DOMAIN s.samplers : Active(what, s.samplers[i][1])}
      unit(i) == Cardinality({j \in on : j < i})
      to      == [k \in {s.samplers[i][1] : i \in on} |->
                    unit(CHOOSE i \in on : s.samplers[i][1] = k)]
      values  == [k \in {k \in DOMAIN s.values : Active(what, k)} |-> s.values[k]]
      h       == [g EXCEPT !.units  = [u \in Unit |->
                                         IF \E i \in on : unit(i) = u
                                         THEN s.samplers[CHOOSE i \in on : unit(i) = u][2]
                                         ELSE @[u]],
                           !.active = IF on = {} THEN @ ELSE Cardinality(on) - 1]
  IN IF g.current = None THEN h
     ELSE [h EXCEPT !.programs[g.current] = Supplied(@, to, values)]

\* A static buffer is made once for each storage and layout.
Storage(a) == [data |-> a.data, n |-> a.n, comps |-> a.comps]

Size(a) == a.n * a.comps

\* Mutation: every streamed attribute is written to the front of the buffer.
OffsetOf_Front(streams, on, i) == 0

\* Where the array at place i goes when those at the places on are written.
OffsetOf(streams, on, i) ==
  LET end[k \in Nat] ==
        IF k = 0 THEN 0 ELSE end[k - 1] + (IF k \in on THEN Size(streams[k]) ELSE 0)
  IN end[i - 1]

Piece(streams, on, i) ==
  [at |-> OffsetOf(streams, on, i), size |-> Size(streams[i]), data |-> streams[i].data]

Apart(p, q) == p.at + p.size <= q.at \/ q.at + q.size <= p.at

\* glBufferSubData, piece after piece: what is written over is gone.
Written(stream, pieces) ==
  {p \in stream : \A i \in DOMAIN pieces : Apart(p, pieces[i])} \cup
  {pieces[i] : i \in {i \in DOMAIN pieces :
                        \A j \in DOMAIN pieces : i < j => Apart(pieces[i], pieces[j])}}

\* The object after its buffers were filled and its attributes pointed at them.
SetArrays(o, s) ==
  LET on(list) == {i \in DOMAIN list : Active(o.what, list[i].attr)}
      named(list, k) == CHOOSE i \in on(list) : list[i].attr = k
      pieces  == [i \in on(s.streams) |-> Piece(s.streams, on(s.streams), i)]
      orphan  == \E i \in DOMAIN s.streams : Size(s.streams[i]) > 0
      used    == Over([k \in {s.streams[i].attr : i \in on(s.streams)} |->
                         LET i == named(s.streams, k)
                         IN [from |-> "stream", at |-> pieces[i].at, comps |-> s.streams[i].comps]],
                      [k \in {s.statics[i].attr : i \in on(s.statics)} |->
                         LET i == named(s.statics, k)
                         IN [from |-> "static", at |-> Storage(s.statics[i]),
                             comps |-> s.statics[i].comps]])
  IN [o EXCEPT !.made    = TRUE,
               !.quads   = @ \cup {Storage(s.statics[i]) : i \in on(s.statics)},
               !.stream  = Written(IF orphan THEN {} ELSE @, pieces),
               !.enabled = used,
               !.indices = @ \cup (IF s.quad THEN {[data |-> s.indices.data, n |-> s.count]}
                                             ELSE {})]

\* The buffers and the vertex array of an object.
Shared(o) ==
  IF o.made THEN {<<o.id, "vao">>, <<o.id, "dynamic_vbo">>, <<o.id, "dynamic_ebo">>} ELSE {}

Owned(o) ==
  Shared(o) \cup {<<o.id, "static", b>> : b \in o.quads}
            \cup {<<o.id, "index", b>> : b \in o.indices}

First(list) == list[Min(DOMAIN list)]

\* The number of vertices of a draw without indices.
VertexCount(s) ==
  IF s.count # 0 THEN s.count
  ELSE IF s.statics # <<>> THEN First(s.statics).n
  ELSE IF s.streams # <<>> THEN First(s.streams).n ELSE 0

-----------------------------------------------------------------------------
(* What GL reads for a draw call.                                          *)

ReadArray(o, pointer) ==
  IF pointer.from = "static"
  THEN LET b == pointer.at
       IN [data |-> b.data, n |-> (b.n * b.comps) \div pointer.comps, comps |-> pointer.comps]
  ELSE LET p == CHOOSE x \in o.stream : x.at = pointer.at
       IN [data |-> p.data, n |-> p.size \div pointer.comps, comps |-> pointer.comps]

\* No program is bound.
Nothing == [what |-> None]

Reads(g, o, s) ==
  IF g.current = None THEN Nothing
  ELSE LET p == g.programs[g.current]
       IN [what     |-> p.what,
           samplers |-> [k \in DOMAIN p.samplers |-> g.units[p.samplers[k]]],
           values   |-> p.values,
           arrays   |-> [k \in DOMAIN o.enabled |-> ReadArray(o, o.enabled[k])],
           indices  |-> s.indices,
           count    |-> IF s.indexed THEN s.count ELSE VertexCount(s)]

\* The program draws what it prepared for its call.
DrawPrepared(name, f, slots, s) ==
  LET o == registry[name]
      g == IF Bound(o.id, last) THEN gl ELSE UseProgram(gl, o.id)
  IN \E p \in {SetArrays(o, s)} :
     \E h \in {[SetUniforms(g, o.what, s) EXCEPT !.objects = @ \cup Owned(p)]} :
       /\ gl' = h
       /\ last' = o.id
       /\ registry' = [registry EXCEPT ![name] = p]
       /\ drawn' = [what |-> o.what, fields |-> f, slots |-> slots, read |-> Reads(h, p, s)]

Draw(name, f, slots) ==
  \E s \in {Prepare(registry[name].what, f, slots)} :
    \/ s.draw /\ DrawPrepared(name, f, slots, s)
    \/ ~s.draw /\ drawn' = None /\ UNCHANGED <<registry, gl, last>>

-----------------------------------------------------------------------------
(* The calls: of a built-in program, complete ones and ones with a field   *)
(* missing, of another kind, too short or longer; of a dynamic one, those  *)
(* it is declared with.                                                    *)

Given(row, k, v) ==
  IF k \in DOMAIN row.need THEN Arr(row.need[k], v)
  ELSE IF k \in row.numbers THEN [Num(v) EXCEPT !.kind = NumberKind(k), !.len = 4]
  ELSE Arr(3, v)

FullCall(row, v, image) ==
  LET arrays == DOMAIN row.need \cup row.numbers \cup (IF row.elements THEN {"elem"} ELSE {})
      pics   == {row.images[i] : i \in DOMAIN row.images}
  IN [k \in arrays \cup pics |-> IF k \in pics THEN Str(image) ELSE Given(row, k, v)]

Calls(row) ==
  LET f == FullCall(row, 1, CHOOSE image \in Image : TRUE)
  IN {FullCall(row, v, image) : v \in 1 .. 2, image \in Image} \cup
     {[j \in DOMAIN f \ {k} |-> f[j]] : k \in DOMAIN f} \cup
     {[f EXCEPT ![k].kind = "bool"] : k \in DOMAIN f} \cup
     {[f EXCEPT ![k].len = @ + n] : k \in DOMAIN row.need, n \in {-1, 2}} \cup
     {[f EXCEPT ![k].len = 3] : k \in row.numbers \cap {"color"}}

\* What a frame draws with a program: a renderable with fields of its own, an
\* effect on the palette below, a composition of two, or one palette onto another
\* or the window (also instead of an effect or compositor that is unknown).
Use(name, slots) == [use |-> name, slots |-> slots]

OnOne == UNION {{Use("effect", [texture |-> p]), Use("palette", [fbo |-> p])} : p \in Palette}
OnTwo == UNION {{Use("composite", [t1 |-> p, t2 |-> q]) : q \in Palette \ {p}} : p \in Palette}
Uses  == {Use("atomic", NoFields)} \cup OnOne \cup OnTwo

\* A frame names any program for any use, whatever textures the program wants; only
\* "clear" is no program as a renderable, and only "palette" copies palettes.
MayDraw(name, use) ==
  /\ use = "atomic" => name # "clear"
  /\ use = "palette" => name = "palette"

CallsOf(what, use) ==
  IF what.kind = "dynamic"
  THEN {c.fields : c \in {c \in Dynamics[what.of].calls : c.use = use}}
  ELSE IF what.of = "textbox" THEN Texts
  ELSE Calls(Rows[what.of])

Render ==
  /\ gl.up
  /\ \E name \in DOMAIN registry, u \in Uses :
       /\ MayDraw(name, u.use)
       /\ \E f \in CallsOf(registry[name].what, u.use) : Draw(name, f, u.slots)
  /\ UNCHANGED <<app, contexts, images, fonts>>

-----------------------------------------------------------------------------
(* Creating and destroying programs.                                       *)

NewProgram(what) == [what |-> what, samplers |-> <<>>, values |-> <<>>]

Built(g, id, what) ==
  [g EXCEPT !.programs = Over([p \in {id} |-> NewProgram(what)], @)]

\* Mutation: the static buffers outlive their program.
Freed_Dynamic(o) == Shared(o)

Freed(o) == Owned(o)

Destroy(g, o) ==
  LET h == [g EXCEPT !.objects = @ \ Freed(o)]
  IN IF g.current = o.id THEN [h EXCEPT !.doomed = @ \cup {o.id}]
     ELSE [h EXCEPT !.programs = [p \in DOMAIN @ \ {o.id} |-> @[p]]]

Registered(programs, name, o) == Over([n \in {name} |-> o], programs)

\* A source that is not valid, does not compile or does not link leaves nothing
\* behind, and the program of that name as it was.
CreateProgram(name, source) ==
  /\ gl.up
  /\ \/ UNCHANGED <<gl, registry>>
     \/ LET id == NewName(DOMAIN gl.programs)
            g  == Built(gl, id, Dynamic(source))
        IN /\ GlName \ DOMAIN gl.programs # {}
           /\ Dynamics[source].declares.valid
           /\ gl' = IF name \in DOMAIN registry THEN Destroy(g, registry[name]) ELSE g
           /\ registry' = Registered(registry, name, Object(id, Dynamic(source)))
  /\ UNCHANGED <<app, last, contexts, images, fonts, drawn>>

\* StartRegl: "palette" and the programs it lists, compiled in the order of a hash
\* table; a name that is unknown, or a program that does not compile, is a startup
\* error, and shuts down.
StartGl ==
  LET list  == app.lists
      names == {"palette"} \cup (list \cap Builtins)
  IN /\ ~gl.up /\ contexts < MaxContexts
     /\ contexts' = contexts + 1
     /\ \E compiles \in BOOLEAN :
          IF compiles /\ list \subseteq Builtins
          THEN \E id \in Injection(names, 1 .. Cardinality(names)) :
                 /\ gl' = [FreshGl EXCEPT !.programs =
                             [p \in Range(id) |->
                                NewProgram(Builtin(CHOOSE n \in names : id[n] = p))]]
                 /\ registry' = [n \in names |-> Object(id[n], Builtin(n))]
          ELSE UNCHANGED <<gl, registry>>
     /\ UNCHANGED <<app, last, images, fonts, drawn>>

Shutdown ==
  /\ gl.up
  /\ gl' = NoGl /\ registry' = <<>> /\ images' = {} /\ fonts' = {} /\ drawn' = None
  /\ UNCHANGED <<app, last, contexts>>

\* Uploading a texture binds it to the active unit and then binds nothing there.
TextureArrives(i) ==
  /\ gl.up /\ i \notin images
  /\ images' = images \cup {i}
  /\ gl' = [gl EXCEPT !.units[gl.active] = None]
  /\ drawn' = None
  /\ UNCHANGED <<app, registry, last, contexts, fonts>>

\* Deleting a texture unbinds it from every unit.
TextureLeaves(i) ==
  /\ gl.up /\ i \in images
  /\ images' = images \ {i}
  /\ gl' = [gl EXCEPT !.units = [u \in Unit |-> IF @[u] = i THEN None ELSE @[u]]]
  /\ drawn' = None
  /\ UNCHANGED <<app, registry, last, contexts, fonts>>

\* Fonts matter to the textbox only: they come and go where there is one.
FontArrives(x) ==
  /\ gl.up /\ "textbox" \in DOMAIN registry /\ x \notin fonts
  /\ fonts' = fonts \cup {x}
  /\ drawn' = None
  /\ UNCHANGED <<app, registry, gl, last, contexts, images>>

FontLeaves(x) ==
  /\ gl.up /\ x \in fonts
  /\ fonts' = fonts \ {x}
  /\ drawn' = None
  /\ UNCHANGED <<app, registry, gl, last, contexts, images>>

Next ==
  \/ StartGl
  \/ \E name \in DynamicName, source \in app.creates : CreateProgram(name, source)
  \/ Render \/ Shutdown
  \/ \E i \in Image : TextureArrives(i) \/ TextureLeaves(i)
  \/ \E x \in DOMAIN Atlas : FontArrives(x) \/ FontLeaves(x)

Spec == Init /\ [][Next]_vars

-----------------------------------------------------------------------------
(* Properties.                                                             *)

(* A draw runs the shaders of the program it was asked for, although only  *)
(* a change of program is told to GL, and programs are replaced and        *)
(* deleted between draws (program_base.cc:144-149).                        *)
RunsItsOwnProgram == drawn # None => drawn.read.what = drawn.what

\* What the fields and slots of a call of a built-in program ask for.
AskedTextures(d) ==
  LET row  == Rows[d.what.of]
      pic  == {row.images[i] : i \in DOMAIN row.images}
      slot == DOMAIN d.slots \cap ToSet(row.slots)
  IN Over([s \in {SamplerOf(k) : k \in pic} |->
             d.fields[CHOOSE k \in pic : SamplerOf(k) = s].val],
          [s \in {SamplerOf(k) : k \in slot} |->
             d.slots[CHOOSE k \in slot : SamplerOf(k) = s]])

\* The draw passes the program the framebuffer textures it wants.
IsFed(row, slots) ==
  IF row.slots = PaletteSlots THEN ToSet(row.slots) \cap DOMAIN slots # {}
  ELSE ToSet(row.slots) \subseteq DOMAIN slots

AskedArrays(d) ==
  LET row == Rows[d.what.of]
      s   == row.streamed
  IN Over([a \in ToSet(row.quads) |-> "corners"],
          [a \in {AttributeOf(s[i]) : i \in DOMAIN s} |->
             LET k == CHOOSE k \in ToSet(s) : AttributeOf(k) = a
             IN [field |-> k, val |-> d.fields[k].val]])

BuiltinReads(draw) ==
  draw.read # Nothing /\ draw.what.kind = "builtin" /\ draw.what.of # "textbox" =>
    LET r     == draw.read
        row   == Rows[draw.what.of]
        asked == AskedTextures(draw)
    IN /\ \A k \in DOMAIN asked : k \in DOMAIN r.samplers /\ r.samplers[k] = asked[k]
       /\ IsFed(row, draw.slots) => DOMAIN r.samplers = DOMAIN asked
       /\ \A k \in DOMAIN r.values :
            r.values[k] = IF k \in DOMAIN row.need \/ Usable(draw.fields, k)
                          THEN draw.fields[k].val ELSE Default
       /\ [a \in DOMAIN r.arrays |-> r.arrays[a].data] = AskedArrays(draw)
       /\ \A a \in DOMAIN r.arrays :
            r.arrays[a].n >= IF row.indexed THEN 4 ELSE IF r.indices.data = None THEN r.count ELSE 1

\* The uniforms that a call of a program created at run time sets: to a texture of
\* its own or of the render graph, and to a number.
TextureUniforms(d, f, slots) ==
  {i \in DOMAIN d.uniforms :
     LET m == d.uniforms[i]
         r == Resolve(m, f)
     IN /\ m.key \in d.active
        /\ IF m.kind = "texture" THEN r # <<>> /\ r[1].kind = "string"
           ELSE r = <<>> /\ m.prop \in {"texture", "t1", "t2"} \cap DOMAIN slots}

NumberUniforms(d, f) ==
  {i \in DOMAIN d.uniforms :
     LET m == d.uniforms[i]
         r == Resolve(m, f)
     IN /\ m.key \in d.active /\ m.kind # "texture"
        /\ r # <<>> /\ (r[1].kind = "bool" \/ Numbers(r[1]) \in 1 .. 4)}

\* The call sets every texture that any call of its program sets.
SetsAllTextures(source, f, slots) ==
  LET d == Dynamics[source].declares
  IN \A c \in Dynamics[source].calls, u \in Uses :
       u.use = c.use => TextureUniforms(d, c.fields, u.slots) \subseteq TextureUniforms(d, f, slots)

\* A call without elements that says how many vertices its arrays have.
CountsVertices(d, f) ==
  LET elem  == Resolve(d.elements, f)
      count == Resolve(d.count, f)
  IN /\ elem = <<>> \/ Numbers(elem[1]) = 0
     /\ count # <<>> /\ count[1].kind = "number" /\ count[1].val \in Nat \ {0}
     /\ \A i \in DOMAIN d.attributes :
          LET m == d.attributes[i]
              r == Resolve(m, f)
          IN r # <<>> => m.width \in 1 .. 4 /\ Numbers(r[1]) = m.width * count[1].val

\* The same for a program created at run time, as far as its call goes: the textures
\* and numbers it sets, and the data of its arrays, in the width its shader declares
\* if it says how many vertices they have.
DynamicReads(draw) ==
  draw.read # Nothing /\ draw.what.kind = "dynamic" =>
    LET d   == Dynamics[draw.what.of].declares
        r   == draw.read
        set == TextureUniforms(d, draw.fields, draw.slots)
    IN /\ \A i \in set :
            LET m == d.uniforms[i]
            IN /\ m.key \in DOMAIN r.samplers
               /\ \/ m.prop \in DOMAIN draw.fields /\ r.samplers[m.key] = draw.fields[m.prop].val
                  \/ m.prop \in DOMAIN draw.slots /\ r.samplers[m.key] = draw.slots[m.prop]
       /\ SetsAllTextures(draw.what.of, draw.fields, draw.slots) =>
            DOMAIN r.samplers = {d.uniforms[i].key : i \in set}
       /\ \A i \in NumberUniforms(d, draw.fields) :
            LET m == d.uniforms[i]
            IN m.key \in DOMAIN r.values /\ r.values[m.key] = Resolve(m, draw.fields)[1].val
       /\ \A a \in DOMAIN r.arrays :
            \E i \in DOMAIN d.attributes :
              /\ d.attributes[i].key = a
              /\ r.arrays[a].data = Resolve(d.attributes[i], draw.fields)[1].val
              /\ CountsVertices(d, draw.fields) =>
                   r.arrays[a].comps = d.attributes[i].width /\ r.arrays[a].n >= r.count

(* GL reads for a draw the textures, numbers and arrays of its call, not   *)
(* those of another draw, another program or another attribute of the same *)
(* buffer, and no vertex beyond the end of an array.  A draw that sets     *)
(* every texture of its program reads no other texture: a built-in one     *)
(* that is passed those it wants, one created at run time whose call       *)
(* leaves none out (program_base.cc:151-286, dynamic_program.cc:262-436).  *)
ReadsItsCall == drawn # None => BuiltinReads(drawn) /\ DynamicReads(drawn)

TypeOK ==
  /\ \A p \in Range(gl.programs) : Range(p.samplers) \subseteq Unit
  /\ gl.units \in [Unit -> Image \cup Palette \cup {None}]
  /\ gl.active \in Unit /\ contexts \in 0 .. MaxContexts
  /\ images \subseteq Image /\ fonts \subseteq DOMAIN Atlas

\* An attribute points into an array that the object holds.
PointsInto(o, p) ==
  IF p.from = "static" THEN p.at \in o.quads ELSE p.at \in {x.at : x \in o.stream}

(* The programs GL holds are those of the registry, each built from the    *)
(* source it is registered for, and at most the current one if it was      *)
(* replaced; every buffer and vertex array belongs to an object, which     *)
(* points to nothing else (program_base.cc:46-62, program.cc:123-183,      *)
(* decl_program_registry.h:22-26).                                         *)
OwnsGlObjects ==
  /\ TypeOK
  /\ DOMAIN gl.programs = {registry[n].id : n \in DOMAIN registry} \cup gl.doomed
  /\ gl.doomed \subseteq {gl.current} /\ gl.current \in DOMAIN gl.programs \cup {None}
  /\ \A n \in DOMAIN registry :
       /\ gl.programs[registry[n].id].what = registry[n].what
       /\ \A k \in DOMAIN registry[n].enabled : PointsInto(registry[n], registry[n].enabled[k])
  /\ gl.objects = UNION {Owned(registry[n]) : n \in DOMAIN registry}

\* The characters that a call of the textbox program should show.
Shown(box) ==
  {i \in DOMAIN box["text"].val : Candidates(box["fonts"].val, box["text"].val[i]) # <<>>}

\* The layout is a function of the call alone: what follows is evaluated for
\* every box once, before the application with the textbox draws anything.
NothingDrawnYet == contexts = 0 /\ "textbox" \in app.lists

(* The glyphs of a text are those of its characters, every one once and in *)
(* reading order, whatever lines they went to (textbox_program.cc:236-361).*)
KeepsEveryGlyph ==
  NothingDrawnYet => \A box \in Boxes :
    [i \in DOMAIN MeshOf(box) |-> MeshOf(box)[i].at] = SetToSortSeq(Shown(box), <)

(* Two glyphs share a line that is wider than the box only if they belong  *)
(* to one word and words may not be broken (textbox_program.cc:330-359).   *)
LinesFit ==
  NothingDrawnYet => \A box \in Boxes :
    LET mesh  == MeshOf(box)
        text  == box["text"].val
        limit == box["width"].val
        right(g) == g.x + Glyphs[Candidates(box["fonts"].val, text[g.at])[1]][text[g.at]]
    IN \A i, j \in DOMAIN mesh :
         i < j /\ mesh[i].line = mesh[j].line /\ right(mesh[j]) > limit =>
           /\ ~box["wordBreak"].val
           /\ \A c \in mesh[i].at .. mesh[j].at : text[c] \notin Spaces

-----------------------------------------------------------------------------
(* Claims of the comments that the code does not keep.                     *)

(* "Returns false to skip this draw (e.g., texture not loaded)"            *)
(* (program_base.h:306): a draw samples no texture but those of its call.  *)
(* An effect, a compositor or "palette" is also drawn where no texture is  *)
(* passed to it (renderable_walker.cc:133-140, crt_program.cc:14-17), and  *)
(* a call may leave out a field (dynamic_program.cc:270-275, 285-302): the *)
(* sampler keeps the unit of an earlier draw, or names the first one if it *)
(* was never told any, and reads what is bound there.                      *)
SamplesOnlyItsCall ==
  drawn # None /\ drawn.read # Nothing /\ drawn.what # Builtin("textbox") =>
    DOMAIN drawn.read.samplers \subseteq
      IF drawn.what.kind = "builtin" THEN DOMAIN AskedTextures(drawn)
      ELSE LET d == Dynamics[drawn.what.of].declares
           IN {d.uniforms[i].key : i \in TextureUniforms(d, drawn.fields, drawn.slots)}

(* "Vertex count (for array draw) or index count (for indexed draw)"       *)
(* (program_base.h:57): an attribute is read with the width its shader     *)
(* declares, whichever of the two the count of the call is.  The code      *)
(* takes every count for one of vertices (dynamic_program.cc:228-244).     *)
AttributesKeepTheirWidth ==
  drawn # None /\ drawn.what.kind = "dynamic" /\ drawn.read # Nothing =>
    LET d == Dynamics[drawn.what.of].declares
    IN \A i \in DOMAIN d.attributes :
         d.attributes[i].key \in DOMAIN drawn.read.arrays =>
           drawn.read.arrays[d.attributes[i].key].comps = d.attributes[i].width
=============================================================================
