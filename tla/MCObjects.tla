----------------------------- MODULE MCObjects -----------------------------
(* Objects with pages of four bytes for TLC: Arcs of the largest class, and *)
(* boxes that are small or only need their alignment.                       *)
EXTENDS Objects

MCClasses == <<1, 2, 4>>
Layout(size, align) == [size |-> size, align |-> align]
MCBoxLayouts == {Layout(1, 1), Layout(1, 2)}
MCArcLayouts == {Layout(3, 2)}
MCPtrLayout == Layout(1, 1)
=============================================================================
