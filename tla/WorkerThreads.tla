---------------------------- MODULE WorkerThreads ----------------------------
(* The threads of the web and worker processes, for the modules that describe *)
(* parts of what one thread does.                                             *)
CONSTANTS Threads, None

ASSUME ThreadConstants == None \notin Threads
=============================================================================
