-------------------------- MODULE MCExtensionWorker --------------------------
(* Instances of ExtensionWorker for TLC.                                   *)
EXTENDS ExtensionWorker

\* The documents run the first script.
FirstScript == [d \in Doc |-> 1]

\* There is one document, and all the calls are its own.
OneDocument == [c \in Caller |-> CHOOSE d \in Doc : TRUE]
=============================================================================
