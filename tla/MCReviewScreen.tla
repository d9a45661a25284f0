---------------------------- MODULE MCReviewScreen ----------------------------
(***************************************************************************)
(* Five items in windows from too small to draw more than one of them to   *)
(* large enough for all, narrow and wide.  Some of them wrap: the third in *)
(* every window, the first in narrow ones, and the last when it is         *)
(* selected there.                                                         *)
(***************************************************************************)
EXTENDS ReviewScreen

MCRows ==
  [window \in Widths \cup {80} |->
     [item \in (1 .. Items) \X BOOLEAN |->
        CASE item[1] = 3 -> 4
          [] item[1] = 1 /\ window < 72 -> 3
          [] item = <<5, TRUE>> /\ window < 72 -> 3
          [] OTHER -> 2]]
===============================================================================
