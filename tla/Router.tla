------------------------------- MODULE Router -------------------------------
(***************************************************************************)
(* The router (router/main.cpp): it remembers which server is primary.     *)
(* One thread serves each connection; a connection asks one question at a  *)
(* time and waits for the answer.                                          *)
(*                                                                         *)
(* Only SET_PRIMARY_IF_NOT_EXISTS takes the mutex m.  SET_PRIMARY assigns  *)
(* the string primaryServer without it, and every answer copies the string *)
(* without looking whether it is being assigned.  The assignment therefore *)
(* has a beginning and an end; a copy made in between, or an assignment    *)
(* overlapped by another, may mix the bytes of several addresses.          *)
(***************************************************************************)
CONSTANTS
  Conns,     (* connections to the router, one thread each                  *)
  Addresses, (* server addresses                                            *)
  empty,     (* the empty string, primaryServer's initial value             *)
  torn,      (* bytes of several addresses                                  *)
  none       (* no thread, no question, no answer                           *)

VARIABLES
  primaryServer,
  hasPrimary,
  m,          (* the thread that holds the mutex, or none                   *)
  assigning,  (* threads inside setPrimary                                  *)
  mixed,      (* the addresses assigned since nobody was there              *)
  pc,         (* "receive", "assign" or "answer", for each thread           *)
  question,   (* <<command, address>> or none, for each connection          *)
  answer      (* <<command, address>> or none, for each connection          *)

routerVars == <<primaryServer, hasPrimary, m, assigning, mixed, pc, question, answer>>

Init ==
  /\ primaryServer = empty
  /\ hasPrimary = FALSE
  /\ m = none
  /\ assigning = {}
  /\ mixed = {}
  /\ pc = [c \in Conns |-> "receive"]
  /\ question = [c \in Conns |-> none]
  /\ answer = [c \in Conns |-> none]

Asks(c, cmd) == pc[c] = "receive" /\ question[c] # none /\ question[c][1] = cmd

(* setPrimary, entered. *)
BeginAssign(c) ==
  /\ assigning' = assigning \cup {c}
  /\ mixed' = mixed \cup {question[c][2]}

(* Fault: SET_PRIMARY_IF_NOT_EXISTS does not wait for the mutex. *)
SetPrimaryIfNotExistsUnlocked(c) ==
  /\ Asks(c, "SET_PRIMARY_IF_NOT_EXISTS")
  /\ m' = c
  /\ \/ ~hasPrimary /\ BeginAssign(c) /\ pc' = [pc EXCEPT ![c] = "assign"]
     \/ /\ hasPrimary
        /\ pc' = [pc EXCEPT ![c] = "answer"]
        /\ UNCHANGED <<assigning, mixed>>
  /\ UNCHANGED <<primaryServer, hasPrimary, question, answer>>

(* SET_PRIMARY_IF_NOT_EXISTS: lock, test, and setPrimary or the answer. *)
SetPrimaryIfNotExists(c) ==
  /\ Asks(c, "SET_PRIMARY_IF_NOT_EXISTS")
  /\ m = none
  /\ m' = c
  /\ \/ /\ ~hasPrimary
        /\ BeginAssign(c)
        /\ pc' = [pc EXCEPT ![c] = "assign"]
     \/ /\ hasPrimary
        /\ pc' = [pc EXCEPT ![c] = "answer"]
        /\ UNCHANGED <<assigning, mixed>>
  /\ UNCHANGED <<primaryServer, hasPrimary, question, answer>>

(* Fault: SET_PRIMARY is answered and not carried out. *)
SetPrimaryIgnored(c) ==
  /\ Asks(c, "SET_PRIMARY")
  /\ pc' = [pc EXCEPT ![c] = "answer"]
  /\ UNCHANGED <<primaryServer, hasPrimary, m, assigning, mixed, question, answer>>

SetPrimary(c) ==
  /\ Asks(c, "SET_PRIMARY")
  /\ BeginAssign(c)
  /\ pc' = [pc EXCEPT ![c] = "assign"]
  /\ UNCHANGED <<primaryServer, hasPrimary, m, question, answer>>

(* setPrimary, left: when assignments mixed, the last one to end leaves
   any of the addresses, or bytes of several. *)
EndAssign(c) ==
  /\ pc[c] = "assign"
  /\ pc' = [pc EXCEPT ![c] = "answer"]
  /\ assigning' = assigning \ {c}
  /\ \/ /\ assigning' = {}
        /\ primaryServer' \in IF \E a \in mixed : mixed = {a} THEN mixed ELSE mixed \cup {torn}
        /\ mixed' = {}
     \/ assigning' # {} /\ UNCHANGED <<primaryServer, mixed>>
  /\ UNCHANGED <<hasPrimary, m, question, answer>>

(* What a copy of primaryServer may hold. *)
Copies == IF assigning = {} THEN {primaryServer} ELSE {primaryServer, torn} \cup mixed

(* Fault: the answer carries no address. *)
AnswerWithout(c, cmd) ==
  /\ answer' = [answer EXCEPT ![c] = <<cmd, none>>]
  /\ question' = [question EXCEPT ![c] = none]
  /\ pc' = [pc EXCEPT ![c] = "receive"]

AnswerWith(c, cmd) ==
  /\ \E copy \in Copies : answer' = [answer EXCEPT ![c] = <<cmd, copy>>]
  /\ question' = [question EXCEPT ![c] = none]
  /\ pc' = [pc EXCEPT ![c] = "receive"]

GetPrimary(c) ==
  /\ Asks(c, "GET_PRIMARY")
  /\ AnswerWith(c, "SET_PRIMARY")
  /\ UNCHANGED <<primaryServer, hasPrimary, m, assigning, mixed>>

AnswerSetPrimary(c) ==
  /\ pc[c] = "answer"
  /\ m # c
  /\ AnswerWith(c, "OK")
  /\ UNCHANGED <<primaryServer, hasPrimary, m, assigning, mixed>>

(* Faults: hasPrimary stays false; the mutex is not given back. *)
AnswerIfNotExistsUnset(c) ==
  /\ pc[c] = "answer"
  /\ m = c
  /\ AnswerWith(c, IF hasPrimary THEN "SET_PRIMARY" ELSE "OK")
  /\ m' = none
  /\ UNCHANGED <<primaryServer, hasPrimary, assigning, mixed>>

AnswerIfNotExistsKeepsMutex(c) ==
  /\ pc[c] = "answer"
  /\ m = c
  /\ AnswerWith(c, IF hasPrimary THEN "SET_PRIMARY" ELSE "OK")
  /\ hasPrimary' = TRUE
  /\ UNCHANGED <<primaryServer, m, assigning, mixed>>

(* The first caller is told OK and hasPrimary is set, still under m. *)
AnswerIfNotExists(c) ==
  /\ pc[c] = "answer"
  /\ m = c
  /\ AnswerWith(c, IF hasPrimary THEN "SET_PRIMARY" ELSE "OK")
  /\ hasPrimary' = TRUE
  /\ m' = none
  /\ UNCHANGED <<primaryServer, assigning, mixed>>

Handle(c) ==
  \/ SetPrimaryIfNotExists(c)
  \/ SetPrimary(c)
  \/ EndAssign(c)
  \/ GetPrimary(c)
  \/ AnswerSetPrimary(c)
  \/ AnswerIfNotExists(c)
-----------------------------------------------------------------------------
(* A peer's question. *)
Ask(c, cmd, address) ==
  /\ question[c] = none
  /\ question' = [question EXCEPT ![c] = <<cmd, address>>]
  /\ UNCHANGED <<primaryServer, hasPrimary, m, assigning, mixed, pc, answer>>

(* The peer reads the answer and sends CLOSE_CONN. *)
Answered(c, cmd, address) ==
  /\ answer[c] = <<cmd, address>>
  /\ answer' = [answer EXCEPT ![c] = none]
  /\ UNCHANGED <<primaryServer, hasPrimary, m, assigning, mixed, pc, question>>

TypeOK ==
  /\ primaryServer \in Addresses \cup {empty, torn}
  /\ hasPrimary \in BOOLEAN
  /\ m \in Conns \cup {none}
  /\ assigning \subseteq Conns
  /\ mixed \subseteq Addresses
  /\ pc \in [Conns -> {"receive", "assign", "answer"}]
  /\ \A c \in Conns : pc[c] = "assign" <=> c \in assigning
  /\ \A c \in Conns : question[c] = none \/ question[c][2] \in Addresses \cup {none}
  /\ \A c \in Conns : answer[c] = none \/ answer[c][2] \in Addresses \cup {empty, torn}
=============================================================================
