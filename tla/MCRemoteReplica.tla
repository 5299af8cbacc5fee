--------------------------- MODULE MCRemoteReplica ---------------------------
(* Small instances of RemoteReplica: the Desktop edits one item, and now and *)
(* then asks the page for a fresh snapshot.                                  *)
EXTENDS RemoteReplica

Edits == [type : {"message.upsert"}, id : Item, value : Value]
SomeData == Edits \cup [type : {"snapshot_required"}]
=============================================================================
