----------------------------- MODULE MCSelection -----------------------------
(* Instances of Selection: a page with a button, the icon inside it and a link. *)
EXTENDS Selection

CONSTANTS button, icon, link

MCElements == {button, icon, link}
MCOwner == [e \in MCElements |-> IF e = icon THEN button ELSE e]
=============================================================================
