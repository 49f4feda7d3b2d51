--------------------------- MODULE MCLayerRenderer ---------------------------
(***************************************************************************)
(* Three tiles of three columns.  "All" covers the row, "Edge" ends in the *)
(* first and the last tile, "Ends" leaves out the tile between.            *)
(***************************************************************************)
EXTENDS LayerRenderer

All == [strip |-> (0 :> 0), fill |-> 1 .. 8]
Edge == [strip |-> (1 :> Zero) @@ (2 :> 1) @@ (7 :> 1), fill |-> 3 .. 6]
Ends == [strip |-> (1 :> 1) @@ (7 :> 1) @@ (8 :> Zero), fill |-> {}]

Layer(mode, opacity, clip) == [mode |-> mode, opacity |-> opacity, clip |-> clip]
Filled(path, paint) == [path |-> path, paint |-> paint]
MCFills == {Filled(All, "opaque"), Filled(Ends, "tinted")}
MCClips == {Edge}
MCLayers == {Layer("normal", 0, NoClip), Layer("normal", 1, NoClip),
             Layer("multiply", 0, NoClip), Layer("srcin", 0, NoClip), Layer("srcout", 0, NoClip),
             Layer("clear", 0, NoClip), Layer("copy", 0, NoClip),
             Layer("normal", 0, Edge), Layer("srcin", 0, Ends)}
MCGlyph == << [op |-> "pushClip", path |-> Edge], [op |-> "fill", path |-> All, paint |-> "opaque"],
              [op |-> "popClip"] >>
=============================================================================
