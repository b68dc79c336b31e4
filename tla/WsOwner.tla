------------------------------- MODULE WsOwner -------------------------------
(***************************************************************************)
(* Who closes a descriptor: fd and closeOnDelete of the WebSocket objects  *)
(* of one process (src/WebSocket.cpp), through bind(), accept(), copying,  *)
(* assignment, close() and the destructor.  The kernel gives the lowest    *)
(* free number, so that a number that was closed soon means another socket.*)
(*                                                                         *)
(* accept() returns its local object; compilers build it in place, so that *)
(* no copy is made of it (the copy would have closeOnDelete set).          *)
(***************************************************************************)
EXTENDS Integers, FiniteSets

CONSTANTS Sockets,     \* WebSocket variables of the program
          TableSize,   \* how many descriptors the process may have
          MaxMade      \* bound: how many sockets the kernel makes in all

ASSUME WsOwnerAssumption ==
    /\ IsFiniteSet(Sockets)
    /\ TableSize \in Nat /\ MaxMade \in Nat

VARIABLES fd,             \* fd[o]
          closeOnDelete,  \* closeOnDelete[o]
          living,         \* the objects that are constructed
          table,          \* the socket that each descriptor denotes; 0 is none
          made,           \* how many sockets there were
          gotten,         \* history: the socket that o was given
          closedOnce,     \* history: objects that close() was called on, or that
                          \* are what accept() returned
          excused,        \* history: descriptors that the program lost
          shared          \* history: two objects had one descriptor

ownHistory == <<gotten, closedOnce, excused, shared>>
ownVars == <<fd, closeOnDelete, living, table, made, ownHistory>>

Descriptors == 0 .. TableSize - 1

OwnInit ==
    /\ fd = [o \in Sockets |-> -1]
    /\ closeOnDelete = [o \in Sockets |-> TRUE]
    /\ living = {}
    /\ table = [d \in Descriptors |-> 0]
    /\ made = 0
    /\ gotten = [o \in Sockets |-> 0]
    /\ closedOnce = {} /\ excused = {} /\ shared = FALSE

FreeDescriptors == {d \in Descriptors : table[d] = 0}

\* A system call makes a socket, with the lowest free number.
Makes(d) ==
    /\ d \in FreeDescriptors /\ \A e \in FreeDescriptors : d <= e
    /\ made < MaxMade
    /\ made' = made + 1
    /\ table' = [table EXCEPT ![d] = made']

\* The object loses its descriptor without closing it.
Lost(o) == excused' = IF fd[o] = -1 THEN excused ELSE excused \cup {fd[o]}

\* WebSocket o;
OwnConstruct(o) ==
    /\ o \notin living
    /\ living' = living \cup {o}
    /\ fd' = [fd EXCEPT ![o] = -1]
    /\ closeOnDelete' = [closeOnDelete EXCEPT ![o] = TRUE]
    /\ closedOnce' = closedOnce \ {o}
    /\ UNCHANGED <<table, made, gotten, excused, shared>>

\* bind(): socket(), whether or not the calls after it succeed.
Bind(o) ==
    /\ o \in living
    /\ \E d \in Descriptors :
        /\ Makes(d)
        /\ fd' = [fd EXCEPT ![o] = d]
    /\ gotten' = [gotten EXCEPT ![o] = made']
    /\ Lost(o)
    /\ UNCHANGED <<closeOnDelete, living, closedOnce, shared>>

\* bind() when socket() fails: fd is -1 already.
BindFails(o) ==
    /\ o \in living /\ FreeDescriptors = {}
    /\ fd' = [fd EXCEPT ![o] = -1]
    /\ Lost(o)
    /\ UNCHANGED <<closeOnDelete, living, table, made, gotten, closedOnce, shared>>

\* o = l.accept(): the temporary has closeOnDelete false and goes away without
\* closing; the assignment copies fd alone.
AcceptAssign(l, o) ==
    /\ {l, o} \subseteq living /\ fd[l] # -1
    /\ \E d \in Descriptors :
        /\ Makes(d)
        /\ fd' = [fd EXCEPT ![o] = d]
    /\ gotten' = [gotten EXCEPT ![o] = made']
    /\ Lost(o)
    /\ UNCHANGED <<closeOnDelete, living, closedOnce, shared>>

\* WebSocket o = l.accept(): o is what accept() returned.
AcceptConstruct(l, o) ==
    /\ l \in living /\ o \notin living /\ fd[l] # -1
    /\ \E d \in Descriptors :
        /\ Makes(d)
        /\ fd' = [fd EXCEPT ![o] = d]
    /\ closeOnDelete' = [closeOnDelete EXCEPT ![o] = FALSE]
    /\ living' = living \cup {o}
    /\ gotten' = [gotten EXCEPT ![o] = made']
    /\ closedOnce' = closedOnce \cup {o}
    /\ UNCHANGED <<excused, shared>>

\* accept() throws: its object goes away with fd = -1, and close(-1) fails.
AcceptFails(l) ==
    /\ l \in living
    /\ fd[l] = -1 \/ FreeDescriptors = {}
    /\ UNCHANGED ownVars

\* Mutant of TakeFd: closeOnDelete is copied with fd.
TakeFdAndDuty(o, p, owns) ==
    /\ fd' = [fd EXCEPT ![o] = fd[p]]
    /\ closeOnDelete' = [closeOnDelete EXCEPT ![o] = closeOnDelete[p]]
    /\ gotten' = [gotten EXCEPT ![o] = gotten[p]]
    /\ shared' = (shared \/ (fd[p] # -1 /\ o # p))

\* __construct(): fd is copied.
TakeFd(o, p, owns) ==
    /\ fd' = [fd EXCEPT ![o] = fd[p]]
    /\ closeOnDelete' = [closeOnDelete EXCEPT ![o] = owns]
    /\ gotten' = [gotten EXCEPT ![o] = gotten[p]]
    /\ shared' = (shared \/ (fd[p] # -1 /\ o # p))

\* WebSocket o(p): the new object has closeOnDelete set, as every one.
OwnCopyConstruct(o, p) ==
    /\ o \notin living /\ p \in living
    /\ TakeFd(o, p, TRUE)
    /\ living' = living \cup {o}
    /\ closedOnce' = closedOnce \ {o}
    /\ UNCHANGED <<table, made, excused>>

\* o = p: closeOnDelete of o stays as it is.
OwnCopyAssign(o, p) ==
    /\ {o, p} \subseteq living
    /\ TakeFd(o, p, closeOnDelete[o])
    /\ IF fd[o] = fd[p] THEN UNCHANGED excused ELSE Lost(o)
    /\ UNCHANGED <<living, table, made, closedOnce>>

\* The system call close(): a number that is not open is an error.
Released(d) == [e \in Descriptors |-> IF e = d THEN 0 ELSE table[e]]

\* Mutant of OwnClose: fd is not set to -1.
CloseKeepingFd(o) ==
    /\ o \in living
    /\ table' = Released(fd[o])
    /\ closeOnDelete' = [closeOnDelete EXCEPT ![o] = FALSE]
    /\ closedOnce' = closedOnce \cup {o}
    /\ excused' = excused \ {fd[o]}
    /\ UNCHANGED <<fd, living, made, gotten, shared>>

\* close(), in either mode.
OwnClose(o) ==
    /\ o \in living
    /\ table' = Released(fd[o])
    /\ fd' = [fd EXCEPT ![o] = -1]
    /\ closeOnDelete' = [closeOnDelete EXCEPT ![o] = FALSE]
    /\ closedOnce' = closedOnce \cup {o}
    /\ excused' = excused \ {fd[o]}
    /\ UNCHANGED <<living, made, gotten, shared>>

\* The destructor: close(true) if closeOnDelete.
Destroy(o) ==
    /\ o \in living
    /\ living' = living \ {o}
    /\ fd' = [fd EXCEPT ![o] = -1]
    /\ IF closeOnDelete[o]
       THEN table' = Released(fd[o]) /\ excused' = excused \ {fd[o]}
       ELSE /\ UNCHANGED table
            /\ IF o \in closedOnce THEN Lost(o) ELSE UNCHANGED excused
    /\ UNCHANGED <<closeOnDelete, made, gotten, closedOnce, shared>>

\* o.fd = -1, which a program may write: fd is public.
Forget(o) ==
    /\ o \in living
    /\ fd' = [fd EXCEPT ![o] = -1]
    /\ Lost(o)
    /\ UNCHANGED <<closeOnDelete, living, table, made, gotten, closedOnce, shared>>

OwnNext ==
    \/ \E o \in Sockets :
        \/ OwnConstruct(o) \/ Bind(o) \/ BindFails(o) \/ AcceptFails(o)
        \/ OwnClose(o) \/ Destroy(o) \/ Forget(o)
    \/ \E l, o \in Sockets :
        \/ AcceptAssign(l, o) \/ AcceptConstruct(l, o)
        \/ OwnCopyConstruct(o, l) \/ OwnCopyAssign(o, l)

OwnSpec == OwnInit /\ [][OwnNext]_ownVars
------------------------------------------------------------------------------
\* As long as the program has copied no object with a descriptor but the one that
\* accept() returns, every descriptor that an object has denotes the socket that
\* the object was given: nobody closes the socket of another one, and a number is
\* not kept beyond its socket.
HeldIsOwn ==
    ~shared => \A o \in living : fd[o] # -1 => table[fd[o]] = gotten[o]

\* Such a program loses no descriptor in a destructor, unless the object was once
\* close()d or is itself what accept() returned: for these closeOnDelete is
\* false and stays so, whatever is assigned to them.  The other descriptors that
\* no object has were overwritten, by bind(), by an assignment, or by hand.
LossIsExcused ==
    ~shared =>
        \A d \in Descriptors :
            table[d] # 0 => d \in excused \/ \E o \in living : fd[o] = d
==============================================================================
