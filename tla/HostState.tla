------------------------------- MODULE HostState -------------------------------
(* What the components of choosh-hostd share: calls arrive one after another   *)
(* and are numbered in that order, tables gain and lose entries, and a file is *)
(* replaced whole or not at all.                                               *)
EXTENDS Naturals, Sequences

CONSTANT None       \* no entry, no id: a value of its own

\* Call c may begin: it has not yet, and every call before it has.
Arrives(c, pc) == pc[c] = "idle" /\ \A b \in DOMAIN pc : b < c => pc[b] # "idle"

Put(f, x, v) == [y \in DOMAIN f \cup {x} |-> IF y = x THEN v ELSE f[y]]
Drop(f, S) == [x \in DOMAIN f \ S |-> f[x]]

\* atomic_write: the new content is renamed into place, or the old one stays.
AtomicWrite(old, new, ok) == IF ok THEN new ELSE old
===============================================================================
