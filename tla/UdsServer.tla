----------------------------- MODULE UdsServer -----------------------------
(***************************************************************************)
(* The life of umad processes that share one socket path: startup and exit *)
(* of umad/main.cpp around UDSServer (ipc/uds_server.cpp).                 *)
(*                                                                         *)
(* A daemon is one process, from exec to its end; a restart is another     *)
(* daemon.  The file system outlives them: `path` is the daemon whose      *)
(* socket the path names, also after that daemon died.  System calls of    *)
(* different daemons interleave, so each call on the path is a step.       *)
(***************************************************************************)
EXTENDS Integers, FiniteSets

CONSTANTS Daemons, Nobody

ASSUME NobodyAssumption == Nobody \notin Daemons

VARIABLES
    at,    \* where each daemon is
    path,  \* whose socket the path names, or Nobody
    met    \* history: daemons that used the path while another did

lifeVars == <<at, path, met>>

Places == {"new", "unlink", "bind", "listen", "serve", "close", "dead"}

(* The daemons between the constructor of UDSServer and its destructor.    *)
Active == {d \in Daemons : at[d] \in {"unlink", "bind", "listen", "serve", "close"}}

Listening(d) == at[d] = "serve"

LifeInit ==
    /\ at = [d \in Daemons |-> "new"]
    /\ path = Nobody
    /\ met = {}

Go(d, to) == at' = [at EXCEPT ![d] = to]

(* Arguments, model and context are fine and the UDSServer is built.       *)
Start(d) ==
    /\ at[d] = "new"
    /\ Go(d, "unlink")
    /\ UNCHANGED path

(* Bad arguments, no model file, an exception while the model or the       *)
(* context is loaded, or a signal before the handlers are installed: the   *)
(* process ends before there is a UDSServer.                               *)
StartFails(d) ==
    /\ at[d] = "new"
    /\ Go(d, "dead")
    /\ UNCHANGED path

(* Faulty variant: the path is not removed before bind.                    *)
RemoveStaleSkipped(d) ==
    /\ at[d] = "unlink"
    /\ Go(d, "bind")
    /\ UNCHANGED path

(* open_socket_ removes the path, whoever it names.                        *)
RemoveStale(d) ==
    /\ at[d] = "unlink"
    /\ path' = Nobody
    /\ Go(d, "bind")

Bind(d) ==
    /\ at[d] = "bind"
    /\ path = Nobody
    /\ path' = d
    /\ Go(d, "listen")

Listen(d) ==
    /\ at[d] = "listen"
    /\ Go(d, "serve")
    /\ UNCHANGED path

(* socket, bind (the path exists again) or listen fails: main returns 2    *)
(* and the destructor of UDSServer still has to run.                       *)
OpenFails(d) ==
    /\ at[d] \in {"bind", "listen"}
    /\ Go(d, "close")
    /\ UNCHANGED path

(* The loop ends, after a signal, a kevent error or an exception, and the  *)
(* destructor closes the listen socket.                                    *)
Stop(d) ==
    /\ at[d] = "serve"
    /\ Go(d, "close")
    /\ UNCHANGED path

(* The destructor removes the path, whoever it names.                      *)
RemovePath(d) ==
    /\ at[d] = "close"
    /\ path' = Nobody
    /\ Go(d, "dead")

(* The process is killed: no destructor runs and the path stays.           *)
Crash(d) ==
    /\ at[d] \notin {"new", "dead"}
    /\ Go(d, "dead")
    /\ UNCHANGED path

(* Everything up to and including a failed or successful open_listen.      *)
Opening(d) ==
    \/ Start(d) \/ StartFails(d) \/ RemoveStale(d) \/ Bind(d) \/ Listen(d)
    \/ OpenFails(d)

LifeStep(d) == Opening(d) \/ Stop(d) \/ RemovePath(d) \/ Crash(d)

Meet == met' = met \cup {d \in Active' : Active' # {d}}

LifeNext == \E d \in Daemons : LifeStep(d) /\ Meet

LifeSpec == LifeInit /\ [][LifeNext]_lifeVars
-----------------------------------------------------------------------------
LifeTypeOK ==
    /\ at \in [Daemons -> Places]
    /\ path \in Daemons \cup {Nobody}
    /\ met \subseteq Daemons

(* A daemon that never shared the path with another is the one a client    *)
(* connects to for as long as it serves, and it found the path free,       *)
(* whatever earlier daemons left behind when they were killed              *)
(* (uds_server.cpp:29, 20-25).                                             *)
AloneServes ==
    \A d \in Daemons \ met :
        /\ at[d] = "bind" => path = Nobody
        /\ at[d] \in {"listen", "serve"} => path = d
=============================================================================
