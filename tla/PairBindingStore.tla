--------------------------- MODULE PairBindingStore ---------------------------
(***************************************************************************)
(* HostPairBindingStoreV1: the one durable record that says which phone    *)
(* this Host belongs to and which generation it used last.  Every          *)
(* operation runs under the process mutex and the interprocess lock, and   *)
(* replaces the file in one rename, so it is one step: the new content, or *)
(* the old one and a failure.                                              *)
(***************************************************************************)
EXTENDS PeerHandshake

ValidBinding(b) ==
    /\ b.pair.rev > 0 /\ b.pair.revoc > 0
    /\ b.hwm >= 0

\* persist_atomically: `ok` is false when the temporary file cannot be
\* written, flushed or renamed over the state file.
PersistAtomically(old, new, ok) == IF ok THEN new ELSE old

MayRebind(stored, b) ==
    /\ stored.pair.ent = b.pair.ent
    /\ stored.pair.host = b.pair.host
    /\ b.pair.rev > stored.pair.rev
    /\ b.pair.revoc >= stored.pair.revoc

\* commit_initial_binding: the outcome and the file afterwards.
CommitInitialBinding(stored, b, ok) ==
    CASE ~ValidBinding(b) \/ b.hwm # 0 -> [done |-> FALSE, file |-> stored]
      [] stored # None -> [done |-> stored.pair = b.pair, file |-> stored]
      [] OTHER -> [done |-> ok, file |-> PersistAtomically(stored, b, ok)]

\* commit_server_authorized_rebinding
CommitServerAuthorizedRebinding(stored, b, ok) ==
    CASE ~ValidBinding(b) \/ b.hwm # 0 -> [done |-> FALSE, file |-> stored]
      [] stored # None /\ stored.pair = b.pair -> [done |-> TRUE, file |-> stored]
      [] stored # None /\ ~MayRebind(stored, b) -> [done |-> FALSE, file |-> stored]
      [] OTHER -> [done |-> ok, file |-> PersistAtomically(stored, b, ok)]

\* commit_generation; the mutant does not look at the pair it is handed.
CommitGenerationUnchecked(stored, b, gen, ok) ==
    IF stored # None
    THEN [done |-> ok, file |-> PersistAtomically(stored, [stored EXCEPT !.hwm = gen], ok)]
    ELSE [done |-> FALSE, file |-> stored]

CommitGeneration(stored, b, gen, ok) ==
    IF /\ ValidBinding(b) /\ gen > 0
       /\ stored # None /\ stored.pair = b.pair
       /\ gen > stored.hwm
    THEN [done |-> ok, file |-> PersistAtomically(stored, [stored EXCEPT !.hwm = gen], ok)]
    ELSE [done |-> FALSE, file |-> stored]
=============================================================================
