----------------------------- MODULE MCEpisodes -----------------------------
(* Small instances of Episodes for TLC. *)
EXTENDS Episodes, TLC

(* A status alone, a file or a link typed in, both taken out. *)
MCEdits ==
    {[status |-> "ready", file |-> Keep, url |-> KeepLink],
     [status |-> "ready", file |-> Keep, url |-> TypedLink],
     [status |-> "uploading", file |-> CHOOSE f \in Files : TRUE, url |-> KeepLink],
     [status |-> "uploading", file |-> None, url |-> NoLink]}

=============================================================================
