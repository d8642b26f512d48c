--------------------------- MODULE MCDeclPrograms ---------------------------
(***************************************************************************)
(* DeclPrograms for TLC: a built-in program of every form (each beside     *)
(* "palette", which is always there), four sources of programs created at  *)
(* run time, one of them over the built-in "rect", and all short texts in  *)
(* boxes of three widths.                                                  *)
(***************************************************************************)
EXTENDS DeclPrograms

CONSTANTS i1, i2, p1, p2

App(lists, creates) == [lists |-> lists, creates |-> creates]

\* What tells two rows apart besides the names of their fields and least lengths.
Form(row) ==
  [row EXCEPT !.need     = Cardinality(DOMAIN @),
              !.streamed = Len(@),
              !.quads    = Len(@),
              !.numbers  = <<Cardinality(@), "color" \in @>>]

\* Of the programs of one form, one; "rect" is drawn beside "mesh" below.
Different ==
  {name \in Builtins : name = CHOOSE n \in Builtins : Form(Rows[n]) = Form(Rows[name])}

SomeApps ==
  {App({name}, {}) : name \in Different \ {"rect", "palette"}} \cup
  {App({"unknown"}, {}), App({}, {"indexed"}), App({}, {"wave", "mesh", "broken"}),
   App({"rect"}, {"mesh"})}

OneEffect == {App({"crt"}, {})}
OneSource == {App({}, {"wave"})}

\* No palette of the pool is special.
Symmetric == Permutations(Palette)

Value(prop)   == [kind |-> "value", prop |-> prop, value |-> None]
Texture(prop) == [kind |-> "texture", prop |-> prop, value |-> None]
Static(value) == [kind |-> "static", prop |-> "", value |-> value]
Unset         == Value("")
Keyed(key, m) == [key |-> key] @@ m
Typed(key, width, m) == [width |-> width] @@ Keyed(key, m)

\* An effect: the picture below, a mask of its own, a static quad.  Two more calls leave
\* out one of them: one does not say which mask, one has no picture below.
Wave ==
  [declares |->
     [valid      |-> TRUE,
      uniforms   |-> <<Keyed("unused", Texture("mask")), Keyed("src", Value("texture")),
                       Keyed("mask", Texture("mask")), Keyed("on", Value("on"))>>,
      attributes |-> <<Typed("corner", 2, Static(Arr(8, "quad")))>>,
      elements   |-> Static(Arr(6, "quad")),
      count      |-> Unset,
      active     |-> {"src", "mask", "on", "corner"}],
   calls |->
     {[use |-> "effect", fields |-> [mask |-> Str(i), on |-> Bool(1)]] : i \in {i1, i2}} \cup
     {[use |-> "effect", fields |-> [on |-> Bool(1)]],
      [use |-> "atomic", fields |-> [mask |-> Str(i2), on |-> Bool(1)]]}]

\* A mesh: positions and colours for each vertex, drawn without indices.
Mesh2D ==
  [declares |->
     [valid      |-> TRUE,
      uniforms   |-> <<Keyed("tint", Value("tint"))>>,
      attributes |-> <<Typed("position", 2, Value("pos")), Typed("color", 3, Value("color"))>>,
      elements   |-> Unset,
      count      |-> Value("count"),
      active     |-> {"tint", "position", "color"}],
   calls |->
     {[use |-> "atomic",
       fields |-> [pos |-> Arr(2 * n, n), color |-> Arr(3 * n, -n),
                   tint |-> Num(n), count |-> Num(n)]] :
        n \in {3, 4}}]

Broken == [Wave EXCEPT !.declares.valid = FALSE]

\* Two triangles drawn with twelve indices, whose call says how many.
Indexed ==
  [declares |->
     [valid      |-> TRUE,
      uniforms   |-> <<>>,
      attributes |-> <<Typed("position", 2, Value("pos"))>>,
      elements   |-> Value("elem"),
      count      |-> Value("count"),
      active     |-> {"position"}],
   calls |->
     {[use |-> "atomic", fields |-> [pos |-> Arr(12, 1), elem |-> Arr(12, 2), count |-> Num(12)]]}]

Sources == [wave |-> Wave, mesh |-> Mesh2D, indexed |-> Indexed, broken |-> Broken]

\* Letters of two fonts, a space, "/" for the line feed; "x" is in no font.
Glyph == [f1 |-> [a |-> 1, b |-> 2], f2 |-> [c |-> 1]]
Kern(font, l, r) == IF l = "a" /\ r = "b" THEN -1 ELSE 0
Space1 == [f1 |-> 1, f2 |-> 1]
Atlases == [f1 |-> i1, f2 |-> i1]

Box(text, w, b) ==
  [text |-> Str(text), fonts |-> [kind |-> "strings", len |-> 2, val |-> <<"f1", "f2">>],
   width |-> Num(w), wordBreak |-> Bool(b)]

BoxesOf(chars, n) ==
  {Box(text, w, b) : text \in SeqOf(chars, n), w \in {2, 3, 9}, b \in BOOLEAN}

TwoTexts  == {Box(<<"a", " ", "b", "a">>, 3, FALSE), Box(<<"c", "x">>, 9, TRUE)}
SomeBoxes ==
  BoxesOf({"a", "b", "c", " ", "/"}, 4) \cup
  {b \in BoxesOf({"a", "x", " "}, 4) : b.wordBreak.val}
UnknownBoxes == BoxesOf({"a", "x", " "}, 4)
=============================================================================
