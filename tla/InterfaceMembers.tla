-------------------------- MODULE InterfaceMembers ---------------------------
(***************************************************************************)
(* The members of a varlink_interface: a sequence of records with a kind   *)
(* ("type", "method" or "error") and a name, and in data what they are.    *)
(***************************************************************************)

\* The elements of an array, or the values of an object.
Image(f) == {f[x] : x \in DOMAIN f}

Members(interface, kind, name) ==
    {m \in Image(interface) : m.kind = kind /\ m.name = name}

\* find_member, for a name that is there.
Member(interface, kind, name) == CHOOSE m \in Members(interface, kind, name) : TRUE
=============================================================================
