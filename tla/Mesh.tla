--------------------------------- MODULE Mesh ---------------------------------
(***************************************************************************)
(* Meshes (render/mesh.hpp): made of edges that are swept into quads, or   *)
(* of a box, cut into triangles, rid of double vertices, strung into one   *)
(* strip for the GPU and put into its order; and what is read of a         *)
(* Wavefront file (io/Wavefront.cpp).                                      *)
(*                                                                         *)
(* A vertex is [at, frame, of]: where it is, what else tells it from the   *)
(* others there, and which copy it belongs to.  Of the arithmetic there is *)
(* left which of them are equal.                                           *)
(* Indices count from 1.  A triangle with no area is not drawn, and of the *)
(* others in a strip every second one is turned over.                      *)
(***************************************************************************)
EXTENDS Integers, SequencesExt, FiniteSetsExt

CONSTANTS Sides,             (* of what is made                              *)
          LAYERS,            (* bound: extrusions                            *)
          Face, Name,        (* what a file has: threes of corners; names,   *)
                             (* each with its place in the order of strings  *)
          STATEMENTS         (* bound: its length                            *)

VARIABLES mesh,              (* what is made                                 *)
          surface,           (* the triangles, by their vertices             *)
          file,              (* what was read: OBJFile                       *)
          said               (* the faces in it, in order, with their names  *)
vars == <<mesh, surface, file, said>>

Blank == [vertices |-> << >>, edges |-> << >>, quads |-> << >>, faces |-> << >>, triangles |-> << >>,
          strip |-> << >>]

(* triangle, edge: a triangle is rotated until its first index is least.   *)
Flip(t) == <<t[1], t[3], t[2]>>
RotateLeft(t) == <<t[2], t[3], t[1]>>
Rotations(t) == {t, RotateLeft(t), RotateLeft(RotateLeft(t))}
StandardForm(t) == CHOOSE r \in Rotations(t) : r[1] < r[2] /\ r[1] < r[3]
IsNondegenerate(t) == Cardinality(Range(t)) = 3
EdgesOf(t) == {<<t[i], t[(i % 3) + 1]>> : i \in 1 .. 3}
-----------------------------------------------------------------------------
(* add_edges_circle, add_edges_superquadric: the last vertex is where the  *)
(* first is, a turn further.                                               *)
Circle(n) ==
  [Blank EXCEPT !.vertices = [i \in 1 .. n + 1 |-> [at |-> <<(i - 1) % n, 0>>, frame |-> i, of |-> 1]],
                !.edges = [i \in 1 .. n |-> <<i, i + 1>>]]
(* add_face_disk: it has no seam, and in spite of its name no face.        *)
Disk(n) ==
  [Blank EXCEPT !.vertices = [i \in 1 .. n |-> [at |-> <<i - 1, 0>>, frame |-> 0, of |-> 1]],
                !.edges = [i \in 1 .. n |-> <<i, (i % n) + 1>>]]
(* add_edges_polygon: the sides share no vertex. *)
Polygon(n) ==
  [Blank EXCEPT !.vertices = [i \in 1 .. 2 * n |-> [at |-> <<(i \div 2) % n, 0>>, frame |-> (i + 1) \div 2, of |-> 1]],
                !.edges = [i \in 1 .. n |-> <<2 * i - 1, 2 * i>>]]

(* add_quads_box: the face at +z, turned by the columns of Rx and Ry.      *)
Rx(p) == <<p[1], p[3], -p[2]>>
Ry(p) == <<p[3], p[2], -p[1]>>
RxInverse(p) == <<p[1], -p[3], p[2]>>
RyInverse(p) == <<-p[3], p[2], p[1]>>
Box ==
  LET top == << <<-1, -1, 1>>, <<1, -1, 1>>, <<1, 1, 1>>, <<-1, 1, 1>> >>
      Turned(k, p) ==
        CASE k = 0 -> p [] k = 1 -> Rx(p) [] k = 2 -> Rx(Rx(p)) [] k = 3 -> RxInverse(p) [] k = 4 -> Ry(p)
          [] k = 5 -> RyInverse(p)
  IN [Blank EXCEPT !.vertices = [i \in 1 .. 24 |-> [at |-> Turned((i - 1) \div 4, top[((i - 1) % 4) + 1]),
                                                    frame |-> (i - 1) \div 4, of |-> 1]],
                   !.quads = [q \in 1 .. 6 |-> [c \in 1 .. 4 |-> 4 * (q - 1) + c]]]

(* extrude: each edge moves a layer up and leaves a quad behind it.        *)
Extruded(m) ==
  LET n == Len(m.vertices)
      Up(v) == [v EXCEPT !.at = [@ EXCEPT ![2] = @ + 1]] IN
  [m EXCEPT
     !.vertices = @ \o [i \in 1 .. 2 * Len(m.edges) |-> Up(m.vertices[m.edges[(i + 1) \div 2][((i + 1) % 2) + 1]])],
     !.edges = [j \in DOMAIN m.edges |-> <<n + 2 * j - 1, n + 2 * j>>],
     !.quads = @ \o [j \in DOMAIN m.edges |-> <<m.edges[j][2], m.edges[j][1], n + 2 * j - 1, n + 2 * j>>]]

(* triangulate: faces as fans, and the quads by either diagonal; along are *)
(* those that are cut from their first vertex to their third.              *)
Triangulated(m, along) ==
  LET Fan(f) == [i \in 1 .. Len(f) - 2 |-> <<f[1], f[i + 1], f[i + 2]>>]
      Halves(j) ==
        LET q == m.quads[j] IN
        IF j \in along THEN << <<q[1], q[2], q[3]>>, <<q[1], q[3], q[4]>> >>
                       ELSE << <<q[1], q[2], q[4]>>, <<q[2], q[3], q[4]>> >>
  IN [m EXCEPT !.triangles = FlattenSeq([f \in DOMAIN m.faces |-> Fan(m.faces[f])])
                               \o FlattenSeq([j \in DOMAIN m.quads |-> Halves(j)])]

(* for_each_index: the strip is not among what has indices.                *)
Indexed(m) == UNION {UNION {Range(g) : g \in Range(s)} : s \in {m.edges, m.triangles, m.quads, m.faces}}
Reindexed(m, to) ==
  LET Each(s) == [i \in DOMAIN s |-> [j \in DOMAIN s[i] |-> to[s[i][j]]]] IN
  [m EXCEPT !.edges = Each(@), !.triangles = Each(@), !.quads = Each(@), !.faces = Each(@)]

(* Operators whose name begins with Wrong are mistakes the code could have *)
(* made, each before the definition it stands for.                         *)
WrongEraseUnindexed(m) ==            (* what is moved is counted once more *)
  LET kept == Indexed(m)
      to == [i \in DOMAIN m.vertices |-> Max({1, Cardinality({j \in kept : j < i})})] IN
  [Reindexed(m, to) EXCEPT
     !.vertices = LET order == SelectSeq([i \in DOMAIN @ |-> i], LAMBDA i : i \in kept)
                  IN [j \in DOMAIN order |-> m.vertices[order[j]]]]

(* erase_unindexed_vertices: the others close up. *)
EraseUnindexed(m) ==
  LET kept == Indexed(m)
      to == [i \in DOMAIN m.vertices |-> Cardinality({j \in kept : j <= i})] IN
  [Reindexed(m, to) EXCEPT
     !.vertices = LET order == SelectSeq([i \in DOMAIN @ |-> i], LAMBDA i : i \in kept)
                  IN [j \in DOMAIN order |-> m.vertices[order[j]]]]

(* combine_duplicate_vertices: the sort may leave any of those that are    *)
(* equal in front; least says which.                                       *)
Combined(m, least) ==
  LET Same(i) == {j \in DOMAIN m.vertices : m.vertices[j] = m.vertices[i]} IN
  EraseUnindexed(Reindexed(m, [i \in DOMAIN m.vertices |-> IF least THEN Min(Same(i)) ELSE Max(Same(i))]))

(* copy_under_transform: only the triangles are copied.                    *)
Copied(m, mirror) ==
  LET n == Len(m.vertices)
      Moved(t) == [i \in 1 .. 3 |-> t[i] + n] IN
  [m EXCEPT !.vertices = @ \o [i \in 1 .. n |-> [m.vertices[i] EXCEPT !.of = 2]],
            !.triangles = @ \o [i \in DOMAIN m.triangles |->
                             IF mirror THEN Flip(Moved(m.triangles[i])) ELSE Moved(m.triangles[i])]]
-----------------------------------------------------------------------------
Precedes(t, u) ==
  \E i \in 1 .. 3 : t[i] < u[i] /\ \A j \in 1 .. i - 1 : t[j] = u[j]

(* The start of another run: turned so that a triangle follows, led in by  *)
(* repeated vertices, and turned over if it comes second.                  *)
WrongRestart(strip, t) ==                          (* whatever its place *)
  strip \o (IF strip = << >> THEN << >> ELSE <<Last(strip), t[1]>>) \o t
Restart(strip, t) ==
  LET led == strip \o (IF strip = << >> THEN << >> ELSE <<Last(strip), t[1]>>) \o <<t[1]>> IN
  led \o IF Len(led) % 2 = 0 THEN <<t[3], t[2]>> ELSE <<t[2], t[3]>>

(* strip: while the last edge has a triangle on its other side, that one   *)
(* follows; else the least that is left.  The table is the edges of left.  *)
RECURSIVE Strung(_, _)
Strung(left, strip) ==
  LET n == Len(strip)
      edge == IF n % 2 = 1 THEN <<strip[n], strip[n - 1]>> ELSE <<strip[n - 1], strip[n]>>
      Across(e, ts) == {t \in ts : e \in EdgesOf(t)}
      least == CHOOSE t \in left : \A u \in left \ {t} : Precedes(t, u)
      Followed(t) == Across(<<t[3], t[2]>>, left \ {least}) # {}
      first == CASE Followed(least) -> least
                 [] Followed(RotateLeft(least)) -> RotateLeft(least)
                 [] Followed(RotateLeft(RotateLeft(least))) -> RotateLeft(RotateLeft(least))
                 [] OTHER -> least
  IN IF left = {} THEN strip
     ELSE IF n >= 2 /\ Across(edge, left) # {}
     THEN LET t == CHOOSE t \in Across(edge, left) : TRUE
              apex == CHOOSE v \in Range(t) : v \notin Range(edge)
          IN Strung(left \ {t}, Append(strip, apex))
     ELSE Strung(left \ {least}, Restart(strip, first))

(* reindex_for_strip: vertices are swapped to where the strip has them     *)
(* first; a says where a vertex went, b what is there.                     *)
Ordered(m) ==
  LET Swapped(f, x, y) == [f EXCEPT ![x] = f[y], ![y] = f[x]]
      Step(s, k) ==
        LET l == s.a[k] IN
        IF l < s.j THEN s
        ELSE IF l = s.j THEN [s EXCEPT !.j = @ + 1]
        ELSE [a |-> Swapped(s.a, k, s.b[s.j]), b |-> Swapped(s.b, l, s.j),
              vertices |-> Swapped(s.vertices, l, s.j), j |-> s.j + 1]
      same == [i \in DOMAIN m.vertices |-> i]
      end == FoldLeft(Step, [a |-> same, b |-> same, vertices |-> m.vertices, j |-> 1], m.strip)
  IN [m EXCEPT !.vertices = end.vertices, !.strip = [i \in DOMAIN @ |-> end.a[@[i]]]]
-----------------------------------------------------------------------------
(* OBJFile, with the names of the object, the group and the smoothing      *)
(* group that faces go to, and those that are not committed.               *)
NoFile == [at |-> <<"", "", "">>, faces |-> << >>, named |-> << >>, length |-> 0]
Commit(f) ==
  LET before == IF f.at \in DOMAIN f.named THEN f.named[f.at] ELSE << >> IN
  [f EXCEPT !.named = [n \in DOMAIN @ \cup {f.at} |-> IF n = f.at THEN before \o f.faces ELSE @[n]],
            !.faces = << >>]

WrongNamed(f, i, name) == [f EXCEPT !.at[i] = name]                (* no commit *)
(* o, g, s and usemtl, which has no name here. *)
Named(f, i, name) == [Commit(f) EXCEPT !.at[i] = name]

(* from_obj: corner by corner, in the order of the maps; a strip of six    *)
(* for three corners.                                                      *)
FromObj(f) ==
  LET Less(x, y) == \E i \in 1 .. 3 : Name[x[i]] < Name[y[i]] /\ \A j \in 1 .. i - 1 : x[j] = y[j]
      names == SetToSortSeq(DOMAIN f.named, Less)
      faces == FlattenSeq([i \in DOMAIN names |-> f.named[names[i]]])
      Six(i) == <<i, i, i + 1, i + 2, i + 2, i + 2>>
  IN [Blank EXCEPT !.vertices = FlattenSeq(faces),
                   !.strip = FlattenSeq([i \in DOMAIN faces |-> Six(3 * i - 2)])]
-----------------------------------------------------------------------------
ByVertex(m) == {[i \in 1 .. 3 |-> m.vertices[t[i]]] : t \in Range(m.triangles)}

Init == mesh = Blank /\ surface = {} /\ file = NoFile /\ said = << >>

Make ==
  /\ mesh = Blank /\ file = NoFile
  /\ mesh' \in {Box} \cup {Circle(n) : n \in Sides} \cup {Disk(n) : n \in Sides} \cup {Polygon(n) : n \in Sides}
  /\ UNCHANGED <<surface, file, said>>

Becomes(m) == mesh' = m /\ surface' = ByVertex(m) /\ UNCHANGED <<file, said>>

Extrude ==
  /\ mesh.edges # << >> /\ mesh.triangles = << >> /\ Len(mesh.quads) < LAYERS * Len(mesh.edges)
  /\ Becomes(Extruded(mesh))
(* The client's: the faces of a mesh are its own to add.                   *)
AddFace ==
  /\ mesh.edges # << >> /\ mesh.triangles = << >> /\ mesh.faces = << >>
  /\ Becomes([mesh EXCEPT !.faces = <<[i \in DOMAIN mesh.edges |-> mesh.edges[i][1]]>>])
Triangulate ==
  /\ mesh.triangles = << >> /\ mesh.quads \o mesh.faces # << >>
  /\ \E modulo \in SUBSET {0, 1} :
       Becomes(Triangulated(mesh, {j \in DOMAIN mesh.quads : j % 2 \in modulo}))
CopyUnderTransform ==
  /\ mesh.triangles # << >> /\ mesh.strip = << >> /\ \A v \in Range(mesh.vertices) : v.of = 1
  /\ \E mirror \in BOOLEAN : Becomes(Copied(mesh, mirror))

(* What changes the vertices and not the triangles that they make.         *)
Keeps(m) == mesh' = m /\ UNCHANGED <<surface, file, said>>
EraseUnindexedVertices == mesh.vertices # << >> /\ file = NoFile /\ mesh.strip = << >> /\ Keeps(EraseUnindexed(mesh))
CombineDuplicateVertices ==
  /\ mesh.vertices # << >> /\ file = NoFile /\ mesh.strip = << >>
  /\ \E least \in BOOLEAN : Keeps(Combined(mesh, least))
Strip ==
  /\ mesh.triangles # << >> /\ mesh.strip = << >>
  /\ Keeps([mesh EXCEPT !.strip = Strung({StandardForm(t) : t \in Range(mesh.triangles)}, << >>)])
ReindexForStrip == mesh.strip # << >> /\ file = NoFile /\ Keeps(Ordered(mesh))

Read(f) ==
  /\ mesh = Blank /\ file.length < STATEMENTS
  /\ file' = [f EXCEPT !.length = @ + 1] /\ UNCHANGED <<mesh, surface>>
ParseFace ==
  \E face \in Face :
    Read([file EXCEPT !.faces = Append(@, face)]) /\ said' = Append(said, [at |-> file.at, of |-> face])
ParseName == \E i \in 1 .. 3, name \in DOMAIN Name : Read(Named(file, i, name)) /\ UNCHANGED said
End ==
  /\ mesh = Blank /\ said # << >>
  /\ mesh' = FromObj(Commit(file)) /\ file' = Commit(file) /\ UNCHANGED <<surface, said>>

Done == (mesh.strip # << >> \/ file.length = STATEMENTS) /\ UNCHANGED vars
Next ==
  \/ Make \/ Extrude \/ AddFace \/ Triangulate \/ CopyUnderTransform \/ EraseUnindexedVertices
  \/ CombineDuplicateVertices \/ Strip \/ ReindexForStrip \/ ParseFace \/ ParseName \/ End \/ Done
Spec == Init /\ [][Next]_vars
-----------------------------------------------------------------------------
(* What the GPU draws of a strip, in order.                                *)
Drawn(m) ==
  LET s == m.strip
      Turned(i) == LET t == <<s[i], s[i + 1], s[i + 2]>> IN IF i % 2 = 0 THEN Flip(t) ELSE t
  IN SelectSeq([i \in 1 .. Len(s) - 2 |-> Turned(i)], IsNondegenerate)
Shown(m, t) == [i \in 1 .. 3 |-> m.vertices[t[i]]]

(* What is done to the vertices leaves the triangles where they are, and   *)
(* the strip draws every triangle once, on its side.                       *)
SurfaceIsDrawn ==
  file = NoFile /\ surface # {} =>
    IF mesh.strip = << >>
    THEN ByVertex(mesh) = surface
    ELSE /\ Len(Drawn(mesh)) = Cardinality(surface)
         /\ \A s \in surface : \E t \in Range(Drawn(mesh)) : Shown(mesh, t) \in Rotations(s)

(* Sides meet along an edge in opposite directions: once in each, as what  *)
(* strip() asserts; a box has no border.                                   *)
EdgesMeet ==
  LET Places(s) == [i \in 1 .. 3 |-> <<s[i].at, s[i].of>>]
      edges == [s \in surface |-> EdgesOf(Places(s))]
      all == UNION {edges[s] : s \in surface} IN
  /\ file = NoFile /\ mesh.faces = << >> => \A s, t \in surface : s # t => edges[s] \cap edges[t] = {}
  /\ surface # {} /\ mesh.edges = << >> => \A e \in all : <<e[2], e[1]>> \in all

(* In the order of the strip, what is met first stands first.              *)
OrderedForStrip ==
  LET s == Ordered(mesh).strip IN
  file = NoFile => \A i \in DOMAIN s : s[i] <= Max({0} \cup {s[j] : j \in 1 .. i - 1}) + 1

(* The faces of a file go to the names they stand under, in their order,   *)
(* and are drawn once each, from one side all of them.                     *)
FilesAreDrawn ==
  file # NoFile /\ mesh # Blank =>
    LET drawn == [i \in DOMAIN Drawn(mesh) |-> Shown(mesh, Drawn(mesh)[i])]
        Times(s, f) == Cardinality({i \in DOMAIN s : Rotations(s[i]) = Rotations(f)}) IN
    /\ Len(drawn) = Len(said)
    /\ \A f \in Range(said) : Times(drawn, Flip(f.of)) = Times([i \in DOMAIN said |-> said[i].of], f.of)
    /\ \A n \in DOMAIN file.named :
         LET here == SelectSeq(said, LAMBDA f : f.at = n) IN file.named[n] = [i \in DOMAIN here |-> here[i].of]

MeshSound == SurfaceIsDrawn /\ EdgesMeet /\ OrderedForStrip /\ FilesAreDrawn
=============================================================================
