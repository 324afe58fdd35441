--------------------------- MODULE MCRemoteConfig ---------------------------
(***************************************************************************)
(* redact.RemoteLoader for TLC: objects that differ from each other in one *)
(* thing at a time, so every guard of refresh decides for some of them.    *)
(***************************************************************************)
EXTENDS RemoteConfig

CONSTANTS docA, docB, docC, broken

MCDocs == {docA, docB, docC, broken}
MCGoodDocs == {docA, docB, docC}

Obj(doc, v, iat, exp, signed) ==
    [doc |-> doc, version |-> v, iat |-> iat, exp |-> exp, signed |-> signed]

MCObjects ==
    { Obj(docA, 1, 1, 2, TRUE),    \* the first config, soon expired
      Obj(docA, 1, 2, 5, TRUE),    \* the same, re-signed later
      Obj(docB, 1, 2, 5, TRUE),    \* another document at its version
      Obj(docB, 2, 3, 5, TRUE),    \* the next config
      Obj(docC, 3, 1, 5, TRUE),    \* a newer one issued before it
      Obj(broken, 4, 2, 5, TRUE),  \* one that does not compile
      Obj(docC, 9, 3, 5, FALSE),   \* one nobody signed
      Obj(docC, 5, 3, 9, TRUE) }   \* the newest of all
=============================================================================
