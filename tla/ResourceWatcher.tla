--------------------------- MODULE ResourceWatcher ---------------------------
(***************************************************************************)
(* The handler that maps an event of a Secret or ConfigMap to the          *)
(* MongoDBCommunity resources that depend on it (controllers/watch).       *)
(*                                                                         *)
(* The Go value is a map of slices without a lock, shared by the workers   *)
(* of the controller and the informer.  Watch reads the slice of an object *)
(* and stores a longer one, in two steps that other workers may come       *)
(* between.  (Go may also detect concurrent accesses of the map and stop   *)
(* the process: a crash.)                                                  *)
(***************************************************************************)
VARIABLE watched

NewWatcher(objects) == [o \in objects |-> {}]

\* Mutant: the object is stored as its own dependent.
WatchSwapped(object, dependent, existing) ==
  watched' = IF object \in existing THEN watched
             ELSE [watched EXCEPT ![object] = existing \cup {object}]

\* What Watch(object, dependent) stores after it read existing: nothing if
\* the dependent is there already.
Watch(object, dependent, existing) ==
  watched' = IF dependent \in existing THEN watched
             ELSE [watched EXCEPT ![object] = existing \cup {dependent}]

\* Mutant: the dependents are forgotten once they are enqueued.
HandleEventOnce(object, queue, queueNext) ==
  /\ queueNext = queue \cup watched[object]
  /\ watched' = [watched EXCEPT ![object] = {}]

\* The event handlers: every dependent of the object is enqueued.
HandleEvent(object, queue, queueNext) ==
  /\ queueNext = queue \cup watched[object]
  /\ UNCHANGED watched
=============================================================================
