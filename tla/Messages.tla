------------------------------ MODULE Messages -----------------------------
(***************************************************************************)
(* What a frame says: the JSON-RPC envelopes each end writes (kanal/mesaj, *)
(* message.rs) and how each end reads any object it is sent                *)
(* (kanal/dogrulama, message.rs).  Values are known by their JSON type; a  *)
(* null and a key left out are told apart on the wire only.                *)
(***************************************************************************)
EXTENDS Naturals

Left == "absent"
Values == {"null", "object", "text", "number"}
IdTypes == {"text", "number", "null"}

Errors ==
    [is : {"absent", "other"}, code : {Left}, message : {Left}, data : {Left}]
    \cup
    [is : {"object"}, code : {Left, "integer", "other"}, message : {Left, "text", "other"},
     data : {Left, "object"}]

NoError == [is |-> "absent", code |-> Left, message |-> Left, data |-> Left]

Objects ==
    [jsonrpc : {"2.0", "other"}, id : IdTypes \cup {Left}, method : {Left, "text", "other"},
     params : {Left, "null", "object"}, meta : {Left, "object"},
     result : {Left, "null", "object"}, error : Errors]

Envelope ==
    [jsonrpc |-> "2.0", id |-> Left, method |-> Left, params |-> Left, meta |-> Left,
     result |-> Left, error |-> NoError]

(* What a message means to the program, once read. *)
OrNull(v) == IF v = Left THEN "null" ELSE v
Request(id, params, meta) == [kind |-> "request", id |-> id, params |-> params, meta |-> meta]
Notification(params) == [kind |-> "notification", params |-> params]
Success(id, result) == [kind |-> "success", id |-> id, result |-> result]
Failure(id, data) == [kind |-> "error", id |-> id, data |-> data]
Malformed == [kind |-> "malformed"]

VARIABLES
    wire,           \* the object in the frame
    meant           \* the message its writer meant; Malformed of a stranger's

messageVars == <<wire, meant>>

----------------------------------------------------------------------------
(* What an optional member becomes: None is left out. *)
Given(v) == IF v = "null" THEN Left ELSE v

RequestWire(id, params, meta) ==
    [Envelope EXCEPT !.id = id, !.method = "text", !.params = Given(params), !.meta = Given(meta)]
NotificationWire(params) == [Envelope EXCEPT !.method = "text", !.params = Given(params)]
SuccessWire(id, result) == [Envelope EXCEPT !.id = id, !.result = result]
ErrorWire(id, data) ==
    [Envelope EXCEPT !.id = id,
        !.error = [is |-> "object", code |-> "integer", message |-> "text", data |-> Given(data)]]

Write(w, m) == wire' = w /\ meant' = m

Maybe == {"null", "object"}

(* Either end asks with a text id and echoes the id it was asked with.     *)
(* Only the Core has a meta to send.                                       *)
CoreWrites ==
    \/ \E p, m \in Maybe : Write(RequestWire("text", p, m), Request("text", p, m))
    \/ \E p \in Maybe : Write(NotificationWire(p), Notification(p))
    \/ \E i \in IdTypes, r \in Maybe : Write(SuccessWire(i, r), Success(i, r))
    \/ \E i \in IdTypes, d \in Maybe : Write(ErrorWire(i, d), Failure(i, d))

ShellAsks ==
    \/ \E p \in Maybe : Write(RequestWire("text", p, "null"), Request("text", p, "null"))
    \/ \E p \in Maybe : Write(NotificationWire(p), Notification(p))
ShellAnswers ==
    \/ \E i \in IdTypes, r \in Maybe : Write(SuccessWire(i, r), Success(i, r))
    \/ \E i \in IdTypes, d \in Maybe : Write(ErrorWire(i, d), Failure(i, d))
ShellWrites == ShellAsks \/ ShellAnswers

MessagesInit == wire \in Objects /\ meant = Malformed
MessagesStep == CoreWrites \/ ShellWrites

----------------------------------------------------------------------------
(* kanal/dogrulama: an error needs a code and a message, of any type. *)
CoreAccepts(e) == e.is = "object" /\ e.code # Left /\ e.message # Left

(* Mutant: whatever bears a result is a response, asked for or not. *)
CoreReadsResultFirst(w) ==
    IF w.jsonrpc # "2.0" THEN Malformed
    ELSE IF w.result # Left /\ w.id # Left THEN Success(w.id, w.result)
    ELSE IF w.method # Left
         THEN CASE w.method # "text" -> Malformed
                [] w.id # Left -> Request(w.id, OrNull(w.params), OrNull(w.meta))
                [] OTHER -> Notification(OrNull(w.params))
    ELSE IF CoreAccepts(w.error) THEN Failure(OrNull(w.id), OrNull(w.error.data)) ELSE Malformed

CoreReads(w) ==
    CASE w.jsonrpc # "2.0" -> Malformed
      [] w.jsonrpc = "2.0" /\ w.method # Left ->
            CASE w.method # "text" -> Malformed
              [] w.method = "text" /\ w.id # Left ->
                    Request(w.id, OrNull(w.params), OrNull(w.meta))
              [] OTHER -> Notification(OrNull(w.params))
      [] w.jsonrpc = "2.0" /\ w.method = Left /\ w.id # Left /\ w.result # Left ->
            Success(w.id, w.result)
      [] OTHER ->
            IF CoreAccepts(w.error) THEN Failure(OrNull(w.id), OrNull(w.error.data))
            ELSE Malformed

(* message.rs: the code must be an integer and the message a text. *)
ShellAccepts(e) == e.is = "object" /\ e.code = "integer" /\ e.message = "text"

ShellReads(w) ==
    IF w.jsonrpc # "2.0" \/ w.method \notin {Left, "text"} THEN Malformed
    ELSE IF w.method = "text" /\ w.id # Left
         THEN Request(w.id, OrNull(w.params), OrNull(w.meta))
    ELSE IF w.method = "text" THEN Notification(OrNull(w.params))
    ELSE IF w.id # Left /\ w.result # Left THEN Success(w.id, w.result)
    ELSE IF ShellAccepts(w.error) THEN Failure(OrNull(w.id), OrNull(w.error.data))
    ELSE Malformed

----------------------------------------------------------------------------
(* Both ends understand what either writes, as it was meant; and of any    *)
(* object at all they take the same message or none, except that an error  *)
(* whose code or message is of an odd type reaches the Core's caller and   *)
(* leaves the shell's waiting.                                             *)
ReadAlike ==
    /\ meant # Malformed => CoreReads(wire) = meant /\ ShellReads(wire) = meant
    /\ \/ CoreReads(wire) = ShellReads(wire)
       \/ /\ ShellReads(wire) = Malformed
          /\ CoreReads(wire).kind = "error"
          /\ wire.error.code = "other" \/ wire.error.message = "other"
============================================================================
