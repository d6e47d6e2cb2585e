--------------------------- MODULE MCPackRegistry ---------------------------
(* Two users, two packs of one namespace and a damaged pack of another.     *)
EXTENDS PackRegistry

MCUser == {"one", "two"}
MCPack == {"a1", "a2", "b1"}
MCNamespace == {"a", "b"}
MCNamespaceOf == [p \in MCPack |-> IF p = "b1" THEN "b" ELSE "a"]
MCSound == {"a1", "a2"}
=============================================================================
