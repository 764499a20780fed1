----------------------------- MODULE MC_LinkTarget -----------------------------
(* Model checking of LinkTarget: the library and its header stay, versioned *)
(* names of the library come and go, a page disappears and comes back.      *)
EXTENDS LinkTarget

CONSTANTS so, header, so_old, so_new, page, extra

MCNames == {so, header, so_old, so_new, page, extra}

MCFiles ==
  [v \in 1 .. NumVersions |->
     {so, header} \union
       CASE v = 1 -> {so_old, page}
         [] v = 2 -> {so_old, extra}
         [] v = 3 -> {so_old, so_new, page, extra}
         [] v = 4 -> {so_new, page}
         [] OTHER -> {so_new, extra}]
===============================================================================
