----------------------------- MODULE TlsIdentity -----------------------------
(***************************************************************************)
(* The store of the device's TLS identity: a certificate file and a key    *)
(* file that only together are an identity, shared by every process that   *)
(* starts a server.  Processes read without a lock, write under one, may   *)
(* be killed at any point, and start again.                                *)
(*                                                                         *)
(* A file holds the part of some identity, or something unusable.  Two     *)
(* files make an identity when they are parts of the same one; parsing     *)
(* and the check of the key against the certificate are that comparison.   *)
(*                                                                         *)
(* told, failed, broken and killed are not in the code: the identities     *)
(* callers were given, the callers an operation of whose own failed,       *)
(* whether half a pair was ever left behind, and the identities whose      *)
(* writer was killed.                                                      *)
(***************************************************************************)
EXTENDS FiniteSets

CONSTANTS
  Process,   (* processes, or threads, that load the identity         *)
  Identity,  (* the pairs that can be generated; each one at most once *)
  Old,       (* the one that was stored before                        *)
  None,      (* no process, no identity, no file                      *)
  Garbage    (* contents that are no part of an identity              *)

ASSUME IdentityAssumption ==
  /\ Old \in Identity
  /\ None \notin Identity \cup Process
  /\ Garbage \notin Identity \cup {None}
  /\ "error" \notin Identity \cup {None}

VARIABLES
  cert, key,  (* what the two files hold, or None                     *)
  staged,     (* the temporary files on disk                          *)
  lock,       (* the process that holds the lock file                 *)
  used,       (* the identities generated so far                      *)
  step,       (* where a process is                                   *)
  seen,       (* the certificate it read without the lock             *)
  new,        (* the identity it generated                            *)
  result,     (* what its call returned                               *)
  told, failed, broken, killed

fileVars == <<cert, key, staged>>
callVars == <<step, seen, new, result>>
historyVars == <<told, failed, broken, killed>>

identityVars == <<fileVars, lock, used, callVars, historyVars>>

Content == Identity \cup {None, Garbage}

Part == Identity \X {"cert", "key"}

Usable(c, k) == c = k /\ c \in Identity

Half(c, k) == c = None <=> k # None

IdentityInit ==
  /\ cert \in {None, Old, Garbage}
  /\ key \in {None, Old, Garbage}
  /\ staged = {}
  /\ lock = None
  /\ used = {Old}
  /\ step = [p \in Process |-> "idle"]
  /\ seen = [p \in Process |-> None]
  /\ new = [p \in Process |-> None]
  /\ result = [p \in Process |-> None]
  /\ told = {}
  /\ failed = {}
  /\ broken = Half(cert, key)
  /\ killed = {}

-----------------------------------------------------------------------------

Advances(p, from, to) ==
  /\ step[p] = from
  /\ step' = [step EXCEPT ![p] = to]

(* The call is over, and whatever lock it held is free. *)
Unlock(p) == lock' = IF lock = p THEN None ELSE lock

Returns(p, from, i) ==
  /\ Advances(p, from, "idle")
  /\ result' = [result EXCEPT ![p] = i]
  /\ told' = told \cup {i}
  /\ Unlock(p)

(* Mutant: the lock outlives a call that fails. *)
ErrsLocked(p, from) ==
  /\ Advances(p, from, "idle")
  /\ result' = [result EXCEPT ![p] = "error"]
  /\ UNCHANGED <<lock, told>>

Errs(p, from) ==
  /\ Advances(p, from, "idle")
  /\ result' = [result EXCEPT ![p] = "error"]
  /\ Unlock(p)
  /\ UNCHANGED told

(* An operation of the process fails: the call ends with its error. *)
Fails(p, from) ==
  /\ Errs(p, from)
  /\ failed' = failed \cup {p}

(* load_or_generate_tls_certificate is called, for the first time or by a  *)
(* process that was started again.                                         *)
LoadOrGenerate(p) ==
  /\ Advances(p, "idle", "reading")
  /\ result' = [result EXCEPT ![p] = None]
  /\ seen' = [seen EXCEPT ![p] = None]
  /\ new' = [new EXCEPT ![p] = None]
  /\ failed' = failed \ {p}
  /\ UNCHANGED <<fileVars, lock, used, told, broken, killed>>

(* load_valid_identity: the certificate is read first; without one there   *)
(* is nothing to compare.                                                  *)
ReadCert(p) ==
  /\ \/ /\ cert # None
        /\ seen' = [seen EXCEPT ![p] = cert]
        /\ Advances(p, "reading", "comparing")
     \/ Advances(p, "reading", "waiting") /\ UNCHANGED seen
  /\ UNCHANGED <<fileVars, lock, used, new, result, historyVars>>

(* Then the key, which may be that of another pair by now. *)
ReadKey(p) ==
  /\ \/ Usable(seen[p], key) /\ Returns(p, "comparing", seen[p])
     \/ /\ Advances(p, "comparing", "waiting")
        /\ UNCHANGED <<lock, result, told>>
  /\ UNCHANGED <<fileVars, used, seen, new, failed, broken, killed>>

(* The directory is made and the lock file opened. *)
OpenLock(p) ==
  /\ \/ /\ Advances(p, "waiting", "locking")
        /\ UNCHANGED <<lock, result, told, failed>>
     \/ Fails(p, "waiting")
  /\ UNCHANGED <<fileVars, used, seen, new, broken, killed>>

(* Mutant: the lock is taken whoever has it. *)
LockShared(p) ==
  /\ Advances(p, "locking", "locked")
  /\ lock' = p
  /\ UNCHANGED <<fileVars, used, seen, new, result, historyVars>>

(* The lock is waited for. *)
Lock(p) ==
  /\ lock = None
  /\ Advances(p, "locking", "locked")
  /\ lock' = p
  /\ UNCHANGED <<fileVars, used, seen, new, result, historyVars>>

(* Or cannot be had at all. *)
LockFails(p) ==
  /\ Fails(p, "locking")
  /\ UNCHANGED <<fileVars, used, seen, new, broken, killed>>

(* Both files are read again.  A usable pair is the answer; a damaged pair *)
(* and no pair at all are replaced; half a pair is an error, as is a file  *)
(* that cannot be read.                                                    *)
LookAgain(p) ==
  /\ \/ Usable(cert, key) /\ Returns(p, "locked", cert) /\ UNCHANGED failed
     \/ /\ ~Usable(cert, key) /\ ~Half(cert, key)
        /\ Advances(p, "locked", "generating")
        /\ UNCHANGED <<lock, result, told, failed>>
     \/ Half(cert, key) /\ Errs(p, "locked") /\ UNCHANGED failed
     \/ Fails(p, "locked")
  /\ UNCHANGED <<fileVars, used, seen, new, broken, killed>>

(* A key pair of its own. *)
Generate(p) ==
  /\ \/ \E i \in Identity \ used :
          /\ new' = [new EXCEPT ![p] = i]
          /\ used' = used \cup {i}
          /\ Advances(p, "generating", "staging")
          /\ UNCHANGED <<lock, result, told, failed>>
     \/ Fails(p, "generating") /\ UNCHANGED <<new, used>>
  /\ UNCHANGED <<fileVars, seen, broken, killed>>

(* The certificate is in a temporary file, or that file is removed. *)
StageCert(p) ==
  /\ \/ /\ Advances(p, "staging", "stagingKey")
        /\ staged' = staged \cup {<<new[p], "cert">>}
        /\ UNCHANGED <<lock, result, told, failed>>
     \/ Fails(p, "staging") /\ UNCHANGED staged
  /\ UNCHANGED <<cert, key, used, seen, new, broken, killed>>

(* So is the key, or both are removed. *)
StageKey(p) ==
  /\ \/ /\ Advances(p, "stagingKey", "publishing")
        /\ staged' = staged \cup {<<new[p], "key">>}
        /\ UNCHANGED <<lock, result, told, failed>>
     \/ /\ Fails(p, "stagingKey")
        /\ staged' = staged \ {<<new[p], "cert">>}
  /\ UNCHANGED <<cert, key, used, seen, new, broken, killed>>

(* The certificate is renamed into place.  A failure removes its temporary *)
(* file, and leaves that of the key.                                       *)
PublishCert(p) ==
  /\ staged' = staged \ {<<new[p], "cert">>}
  /\ \/ /\ Advances(p, "publishing", "publishingKey")
        /\ cert' = new[p]
        /\ UNCHANGED <<lock, result, told, failed>>
     \/ Fails(p, "publishing") /\ UNCHANGED cert
  /\ UNCHANGED <<key, used, seen, new, broken, killed>>

(* So is the key.  A failure removes the certificate again, if it can. *)
PublishKey(p) ==
  /\ staged' = staged \ {<<new[p], "key">>}
  /\ \/ /\ Advances(p, "publishingKey", "verifying")
        /\ key' = new[p]
        /\ UNCHANGED <<cert, lock, result, told, failed, broken, killed>>
     \/ /\ Fails(p, "publishingKey")
        /\ cert' \in {cert, None}
        /\ IF Half(cert', key) THEN broken' = TRUE ELSE UNCHANGED broken
        /\ UNCHANGED key
  /\ UNCHANGED <<used, seen, new, killed>>

(* What is stored is the answer, if it can be read: one that does not      *)
(* match is an error.                                                      *)
ReadBack(p) ==
  /\ \/ Usable(cert, key) /\ Returns(p, "verifying", cert)
     \/ /\ cert # None /\ key # None /\ ~Usable(cert, key)
        /\ Errs(p, "verifying")
     \/ Returns(p, "verifying", new[p])
  /\ UNCHANGED <<fileVars, used, seen, new, failed, broken, killed>>

(* The process is killed; the system takes its lock back. *)
Crash(p) ==
  /\ step[p] # "idle"
  /\ step' = [step EXCEPT ![p] = "idle"]
  /\ Unlock(p)
  /\ failed' = failed \cup {p}
  /\ IF step[p] = "publishingKey" /\ Half(cert, key)
     THEN broken' = TRUE
     ELSE UNCHANGED broken
  /\ killed' = killed \cup ({new[p]} \ {None})
  /\ UNCHANGED <<fileVars, used, seen, new, result, told>>

-----------------------------------------------------------------------------

Write(p) ==
  \/ Generate(p)
  \/ StageCert(p)
  \/ StageKey(p)
  \/ PublishCert(p)
  \/ PublishKey(p)
  \/ ReadBack(p)

Load(p) ==
  \/ ReadCert(p)
  \/ ReadKey(p)
  \/ OpenLock(p)
  \/ Lock(p)
  \/ LockFails(p)
  \/ LookAgain(p)
  \/ Write(p)

IdentityNext == \E p \in Process : LoadOrGenerate(p) \/ Load(p) \/ Crash(p)

IdentitySpec == IdentityInit /\ [][IdentityNext]_identityVars

-----------------------------------------------------------------------------

Steps == {"idle", "reading", "comparing", "waiting", "locking", "locked",
          "generating", "staging", "stagingKey", "publishing",
          "publishingKey", "verifying"}

(* The variables range over what the code can store in them. *)
IdentityTypeOK ==
  /\ cert \in Content
  /\ key \in Content
  /\ staged \subseteq Part
  /\ lock \in Process \cup {None}
  /\ used \subseteq Identity
  /\ step \in [Process -> Steps]
  /\ seen \in [Process -> Content]
  /\ new \in [Process -> Identity \cup {None}]
  /\ result \in [Process -> Identity \cup {None, "error"}]
  /\ told \subseteq Identity
  /\ failed \subseteq Process
  /\ broken \in BOOLEAN
  /\ killed \subseteq Identity

(* What a caller was told stays the identity on disk: the fingerprint one  *)
(* process announces is the one the next process serves, and two processes *)
(* never announce two, whatever crashes, fails or overlaps.                *)
ToldIsStored == \A i \in told : cert = i /\ key = i

(* A caller is turned away for a failure of its own or for half a pair     *)
(* someone left behind, never because it looked while another was writing. *)
ErrorsHaveACause ==
  \A p \in Process : result[p] = "error" => p \in failed \/ broken

(* A staged certificate is being written by whoever holds the lock, or its *)
(* writer was killed.  (A staged key is also left by a certificate that    *)
(* could not be renamed.)                                                  *)
StagedCertIsInUse ==
  \A i \in Identity :
    <<i, "cert">> \in staged =>
      i \in killed \/ \E p \in Process : lock = p /\ new[p] = i

(* The two files are one value, set once.                                  *)
Store == INSTANCE OneIdentity WITH
           identity <- IF Usable(cert, key) THEN cert ELSE None
ImplementsOneIdentity == Store!Spec

-----------------------------------------------------------------------------

(* Processes run, and the lock is handed on. *)
IdentityFairness ==
  \A p \in Process :
    /\ WF_identityVars(ReadCert(p) \/ ReadKey(p) \/ OpenLock(p))
    /\ WF_identityVars(LookAgain(p) \/ Write(p))
    /\ SF_identityVars(Lock(p))

IdentityFairSpec == IdentitySpec /\ IdentityFairness

(* Every call returns: nobody waits for the lock for ever. *)
CallReturns == \A p \in Process : step[p] = "reading" ~> step[p] = "idle"
=============================================================================
