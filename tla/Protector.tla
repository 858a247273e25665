------------------------------- MODULE Protector -------------------------------
(***************************************************************************)
(* The life of the driver and the protection of its client: DriverEntry    *)
(* and HsFilterUnload (HzrFilter/HzrFilter.c), the connection callbacks    *)
(* (HzrFilter/Communication.c) and the table of protected processes with   *)
(* the object callback that strips access rights (HzrFilter/Protect.c).    *)
(*                                                                         *)
(* A process is named by the address of its process object, which is used  *)
(* again for a later process once the first is gone.  The operations on    *)
(* the table are made under ProtectedProcessLock, one step each.  Clients  *)
(* may connect as soon as the port exists, and memory for an entry of the  *)
(* table may be short.                                                     *)
(*                                                                         *)
(* StreamScan describes the other half of the same driver, with which this *)
(* one shares no variable.  The names are chosen so that HazardShieldProofs *)
(* can extend both.                                                        *)
(***************************************************************************)
CONSTANTS
  Process,       \* addresses of process objects
  Nobody         \* NULL for a process

ASSUME ProtectorAssumption == Nobody \notin Process

VARIABLES
  load,       \* how far DriverEntry or HsFilterUnload has come
  serverPort, \* GlobalData.ServerPort accepts connections
  ready,      \* ProtectedProcesses and its lock are initialised
  observing,  \* GlobalData.RegisteredObCallback: the object callback runs
  notified,   \* GlobalData.RegisteredProcessCallback
  table,      \* ObCallbackInstance.ProtectedProcesses
  alive,      \* processes that run
  peer,       \* the process that has the port's only connection
  connect,    \* how far HspFilterPortConnect has come for peer
  closing,    \* processes whose HspFilterPortDisconnect is at line 127
  client,     \* GlobalData.ClientProcess
  broken,     \* the driver used a table that is not initialised
  admitted,   \* history: processes that have connected in this life
  unlisted,   \* history: clients that got no entry, as memory was short or
              \* ClientProcess had been overwritten
  missed,     \* history: protected processes whose exit was not notified
  reach       \* history: <<opener, target>> pairs with a handle that carries
              \* rights and was opened since the target's last connect was
              \* complete and the object callback was registered

driver == <<load, serverPort, ready, observing, notified>>
connection == <<peer, connect, closing, client>>
histories == <<admitted, unlisted, missed, reach>>

protectorVars ==
  <<load, serverPort, ready, observing, notified, table, alive, peer, connect,
    closing, client, broken, admitted, unlisted, missed, reach>>

-----------------------------------------------------------------------------
(***************************************************************************)
(* DriverEntry.                                                            *)
(***************************************************************************)

\* FltRegisterFilter and HsFilterCreateCommunicationPort: clients may connect
\* from here on.
CreatePort ==
  /\ load = "unloaded"
  /\ load' = "listening"
  /\ serverPort' = TRUE
  /\ UNCHANGED <<ready, observing, notified, table, alive, connection, broken,
                 histories>>

\* FltStartFiltering, and HsRegisterProtector up to ObRegisterCallbacks: the
\* lock and the table are initialised, whatever the table held.
InitializeTable ==
  /\ load = "listening"
  /\ load' = "tabled"
  /\ ready' = TRUE
  /\ table' = {}
  /\ missed' = {}
  /\ UNCHANGED <<serverPort, observing, notified, alive, connection, broken,
                 admitted, unlisted, reach>>

\* ObRegisterCallbacks.
RegisterObCallback ==
  /\ load = "tabled"
  /\ load' = "observing"
  /\ observing' = TRUE
  /\ reach' = {}
  /\ UNCHANGED <<serverPort, ready, notified, table, alive, connection, broken,
                 admitted, unlisted, missed>>

\* It fails, and the lock is deleted.
ObRegisterCallbacksFails ==
  /\ load = "tabled"
  /\ load' = "failed"
  /\ ready' = FALSE
  /\ UNCHANGED <<serverPort, observing, notified, table, alive, connection,
                 broken, histories>>

\* PsSetCreateProcessNotifyRoutineEx, the last step.
RegisterProcessNotify ==
  /\ load = "observing"
  /\ load' = "loaded"
  /\ notified' = TRUE
  /\ UNCHANGED <<serverPort, ready, observing, table, alive, connection, broken,
                 histories>>

-----------------------------------------------------------------------------
(***************************************************************************)
(* HsFilterUnload, after a step of DriverEntry failed or as a mandatory    *)
(* unload; AllowUnload is never set, so no other unload is accepted.       *)
(***************************************************************************)

\* FltCloseCommunicationPort: no new client.
HsFilterUnload ==
  /\ load \in {"listening", "failed", "observing", "loaded"}
  /\ load' = "closing"
  /\ serverPort' = FALSE
  /\ UNCHANGED <<ready, observing, notified, table, alive, connection, broken,
                 histories>>

\* FltUnregisterFilter has disconnected the client and waited for callbacks.
FltUnregisterFilter ==
  /\ load = "closing" /\ peer = Nobody /\ closing = {}
  /\ load' = "unhooking"
  /\ UNCHANGED <<serverPort, ready, observing, notified, table, alive,
                 connection, broken, histories>>

UnregisterProcessNotify ==
  /\ load = "unhooking"
  /\ load' = "unprotecting"
  /\ notified' = FALSE
  /\ UNCHANGED <<serverPort, ready, observing, table, alive, connection, broken,
                 histories>>

\* ObUnRegisterCallbacks, the table emptied and the lock deleted, if they had
\* been set up.
HsUnRegisterProtector ==
  /\ load = "unprotecting"
  /\ load' = "unloaded"
  /\ observing' = FALSE
  /\ table' = IF observing THEN {} ELSE table
  /\ ready' = FALSE
  /\ UNCHANGED <<serverPort, notified, alive, connection, broken, histories>>

-----------------------------------------------------------------------------
(***************************************************************************)
(* The client.  The port has room for one connection.                      *)
(***************************************************************************)

\* The first half: ClientProcess and ClientPort are set.
HspFilterPortConnect(p) ==
  /\ p \in alive /\ serverPort /\ peer = Nobody
  /\ peer' = p
  /\ connect' = "protect"
  /\ client' = p
  /\ admitted' = admitted \cup {p}
  /\ UNCHANGED <<driver, table, alive, closing, broken, unlisted, missed, reach>>

\* The insertion, under the lock.  It fails for want of memory; a process that
\* has an entry needs none.
HsProtectProcess(p) ==
  \/ /\ table' = table \cup {p}
     /\ unlisted' = IF p = peer THEN unlisted \ {p} ELSE unlisted \cup {peer}
  \/ /\ p \notin table /\ UNCHANGED table
     /\ unlisted' = unlisted \cup {peer}

\* The second half: HsProtectProcess of what ClientProcess now is.  If the end
\* of an earlier connection has overwritten it, the entry is for NULL.  Before
\* the table is initialised its routines are NULL.
ProtectClient ==
  /\ connect = "protect"
  /\ connect' = "done"
  /\ IF ready THEN HsProtectProcess(client) /\ UNCHANGED broken
              ELSE broken' = TRUE /\ UNCHANGED <<table, unlisted>>
  /\ reach' = {h \in reach : h[2] # peer}
  /\ UNCHANGED <<driver, alive, peer, closing, client, admitted, missed>>

\* The client closes its handle, its handles are closed as it exits, or the
\* driver is unloaded: FltCloseClientPort makes room for another connection.
\* The process stays in the table.  (A process has at most one such call under
\* way here.)
HspFilterPortDisconnect ==
  /\ connect = "done" /\ peer \notin closing
  /\ peer' = Nobody
  /\ connect' = "none"
  /\ closing' = closing \cup {peer}
  /\ UNCHANGED <<driver, table, alive, client, broken, histories>>

\* Mutant: ClientProcess stays.
ClearClientProcess_missing(p) ==
  /\ p \in closing
  /\ closing' = closing \ {p}
  /\ UNCHANGED <<driver, table, alive, peer, connect, client, broken, histories>>

\* Mutant: the process that ClientProcess names no longer needs protection.
ClearClientProcess_unprotects(p) ==
  /\ p \in closing
  /\ closing' = closing \ {p}
  /\ table' = table \ {client}
  /\ client' = Nobody
  /\ UNCHANGED <<driver, alive, peer, connect, broken, histories>>

\* And ClientProcess is set to NULL, whatever it is by now.
ClearClientProcess(p) ==
  /\ p \in closing
  /\ closing' = closing \ {p}
  /\ client' = Nobody
  /\ UNCHANGED <<driver, table, alive, peer, connect, broken, histories>>

-----------------------------------------------------------------------------
(***************************************************************************)
(* The other processes.                                                    *)
(***************************************************************************)

\* A thread of p is in one of the port's callbacks.  Unloading calls the
\* second from a thread of its own.
InCallback(p) ==
  \/ connect = "protect" /\ p = peer
  \/ p \in closing /\ load # "closing"

\* The address of a process that is gone, its handles closed, serves a new one.
ProcessStarts(p) ==
  /\ p \notin alive /\ p # peer /\ ~InCallback(p)
  /\ alive' = alive \cup {p}
  /\ UNCHANGED <<driver, table, connection, broken, histories>>

\* Under the lock.
HsUnProtectProcess(p) == table' = table \ {p}

\* Mutant: the notification is taken for a creation.
HsCreateProcessNotifyEx_ignored(p) ==
  /\ p \in alive /\ ~InCallback(p)
  /\ alive' = alive \ {p}
  /\ missed' = IF p \in table /\ ~notified THEN missed \cup {p} ELSE missed
  /\ admitted' = admitted \ {p}
  /\ unlisted' = unlisted \ {p}
  /\ reach' = {h \in reach : p \notin {h[1], h[2]}}
  /\ UNCHANGED <<driver, table, connection, broken>>

\* A process exits and HsCreateProcessNotifyEx takes it out of the table; its
\* handles are closed later.
HsCreateProcessNotifyEx(p) ==
  /\ p \in alive /\ ~InCallback(p)
  /\ alive' = alive \ {p}
  /\ IF notified THEN HsUnProtectProcess(p) ELSE UNCHANGED table
  /\ missed' = IF p \in table /\ ~notified THEN missed \cup {p} ELSE missed
  /\ admitted' = admitted \ {p}
  /\ unlisted' = unlisted \ {p}
  /\ reach' = {h \in reach : p \notin {h[1], h[2]}}
  /\ UNCHANGED <<driver, connection, broken>>

\* The rights HspObPreCallback leaves to a handle of q on p: all of them to p
\* itself and on a process that is not protected, else none (both masks of
\* the client are all ones).
Stripped(q, p) == observing /\ p # q /\ p \in table

\* Process q opens p or one of its threads, or duplicates such a handle, from
\* user mode.
HspObPreCallback(q, p) ==
  /\ q \in alive /\ p \in alive /\ p # q
  /\ ~Stripped(q, p)
  /\ reach' = reach \cup {<<q, p>>}
  /\ UNCHANGED <<driver, table, alive, connection, broken, admitted, unlisted,
                 missed>>

-----------------------------------------------------------------------------
ProtectorInit ==
  /\ load = "unloaded"
  /\ serverPort = FALSE
  /\ ready = FALSE
  /\ observing = FALSE
  /\ notified = FALSE
  /\ table = {}
  /\ alive \in SUBSET Process
  /\ peer = Nobody
  /\ connect = "none"
  /\ closing = {}
  /\ client = Nobody
  /\ broken = FALSE
  /\ admitted = {}
  /\ unlisted = {}
  /\ missed = {}
  /\ reach = {}

ProtectorNext ==
  /\ ~broken
  /\ \/ CreatePort
     \/ InitializeTable
     \/ RegisterObCallback
     \/ ObRegisterCallbacksFails
     \/ RegisterProcessNotify
     \/ HsFilterUnload
     \/ FltUnregisterFilter
     \/ UnregisterProcessNotify
     \/ HsUnRegisterProtector
     \/ ProtectClient
     \/ HspFilterPortDisconnect
     \/ \E p \in Process :
          \/ HspFilterPortConnect(p)
          \/ ClearClientProcess(p)
          \/ ProcessStarts(p)
          \/ HsCreateProcessNotifyEx(p)
          \/ \E q \in Process : HspObPreCallback(q, p)

ProtectorSpec == ProtectorInit /\ [][ProtectorNext]_protectorVars

-----------------------------------------------------------------------------
(***************************************************************************)
(* Properties.                                                             *)
(***************************************************************************)

\* The types of the state, with a connection exactly when somebody has it.
ProtectorTypeOK ==
  /\ load \in {"unloaded", "listening", "tabled", "failed", "observing",
               "loaded", "closing", "unhooking", "unprotecting"}
  /\ serverPort \in BOOLEAN
  /\ ready \in BOOLEAN
  /\ observing \in BOOLEAN
  /\ notified \in BOOLEAN
  /\ table \in SUBSET (Process \cup {Nobody})
  /\ alive \in SUBSET Process
  /\ peer \in Process \cup {Nobody}
  /\ connect \in {"none", "protect", "done"}
  /\ connect = "none" <=> peer = Nobody
  /\ closing \in SUBSET Process
  /\ client \in Process \cup {Nobody}
  /\ broken \in BOOLEAN
  /\ admitted \in SUBSET Process
  /\ unlisted \in SUBSET Process
  /\ missed \in SUBSET Process
  /\ reach \in SUBSET (Process \X Process)

\* "When this process or its threads are opened, the given access rights will
\* be stripped" (Protect.c:155): from the end of its connect, and as long as
\* the object callback is registered, nobody else gets rights on a client that
\* runs, whenever it connected, unless no entry could be made for it.
ClientIsOutOfReach ==
  connect = "done" /\ observing /\ peer \in alive =>
    peer \in unlisted \/ \A q \in Process : <<q, peer>> \notin reach

\* The section requests of the process ClientProcess names are not scanned
\* (HzrFilter.c:481): while the driver is not being unloaded it names no
\* running process but one that connected, never a later one at the address.
ExemptIsClient ==
  client \in alive /\ load # "closing" => client \in admitted

\* "Call HsUnProtectProcess when the process no longer needs protection, or
\* when it exits" (Protect.c:156): a process in the table is one that
\* connected, never a later process at the address of one that did, unless
\* that one exited before exits were notified.
TableHoldsClients == table \subseteq admitted \cup missed \cup {Nobody}

=============================================================================
