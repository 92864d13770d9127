---------------------- MODULE MCAuthenticatedDataPlane ----------------------
(***************************************************************************)
(* Two uses of a traffic key: the video's, with its opener and everything  *)
(* the network does, and the mouse buttons', whose sealer the publisher    *)
(* drives. A behaviour follows one of them.                                *)
(***************************************************************************)
EXTENDS MouseButtonPublisher

VARIABLE traffic

KeyInit == PublisherInit /\ traffic \in {"video", "mouse"} /\ (traffic = "video" => permit)

Video == traffic = "video" /\ Next /\ UNCHANGED <<ownVars, traffic>>
Mouse == traffic = "mouse" /\ PublisherNext /\ UNCHANGED traffic

KeySpec == KeyInit /\ [][Video \/ Mouse]_<<publisherVars, traffic>>
=============================================================================
