----------------------------- MODULE RenderLine -----------------------------
(***************************************************************************)
(* Which samples a line shows: render_line (display/glwin/gl_render_graph.c) *)
(* steps through a buffer with integers, as Bresenham's algorithm does, one *)
(* column of pixels at a time.                                             *)
(***************************************************************************)
EXTENDS Integers

(* One column further: i is the index into the buffer, e the error.         *)
Column_Late(c, samples, pixels) ==                         (* mutant of Column *)
  LET e == c.e + (samples % pixels)
  IN  [i |-> c.i + samples \div pixels + (IF e > pixels THEN 1 ELSE 0),
       e |-> IF e > pixels THEN e - pixels ELSE e]
Column(c, samples, pixels) ==
  LET e == c.e + (samples % pixels)
  IN  [i |-> c.i + samples \div pixels + (IF e >= pixels THEN 1 ELSE 0),
       e |-> IF e >= pixels THEN e - pixels ELSE e]

(* The index drawn in each column.  A width below the padding is a negative *)
(* num_pixels: no column is drawn.                                         *)
Columns(samples, pixels) ==
  LET at[k \in 0..(pixels - 1)] ==
        IF k = 0 THEN [i |-> 0, e |-> 0] ELSE Column(at[k - 1], samples, pixels)
  IN  [k \in 0..(pixels - 1) |-> at[k].i]
=============================================================================
