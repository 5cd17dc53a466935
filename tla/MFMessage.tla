----------------------------- MODULE MFMessage -----------------------------
(***************************************************************************)
(* The life of one message (mfmessages.c): the application that allocates  *)
(* it seals, signs and numbers it, a broker (mfbroker.c) prepares it and   *)
(* sends it, the broker of the peer checks and opens it, and the peer's    *)
(* application may read it or send it on.  Users are connected to a server *)
(* that relays for them.  Messages do not influence each other here; their *)
(* queues and lists are the subject of MFBrokerClient.                     *)
(*                                                                         *)
(* Cryptography (mfcrypto.c over libsodium) is ideal: a sealed part says   *)
(* whose key opens it, a signature says who signed and what.  A party is   *)
(* its two key pairs, and a broker's connection holds the key of the peer. *)
(***************************************************************************)
EXTENDS Integers, FiniteSets

CONSTANTS
    Users,
    Server,
    Paddings    \* whether the message has room behind its data

Parties == Users \cup {Server}

NoKey   == "none"
ZeroKey == "zero"
BROKER  == "broker"

ASSUME MessageAssumption ==
    /\ IsFiniteSet(Users) /\ Server \notin Users
    /\ NoKey \notin Parties /\ ZeroKey \notin Parties /\ BROKER \notin Parties
    /\ Paddings \subseteq BOOLEAN

(* The ends of connections: <<p, q>> is the one p has to q.                *)
Ends == {e \in Parties \X Parties : (e[1] = Server) # (e[2] = Server)}

(* MF_MESSAGE_SIGNED, MF_MESSAGE_HEADER_ENCRYPTED and                      *)
(* MF_MESSAGE_DATA_ENCRYPTED; nothing sets MF_MESSAGE_DATA_COMPRESSED.     *)
SIGNED == "signed"
HEADER == "header"
DATA   == "data"

VARIABLES
    msg,         \* flags, signature, header and data of the message
    padded,      \* MessageSize exceeds the header and DataSize
    at,          \* who has it: an application, a queue, the wire, nobody
    established, \* ends with State = mcfEstablished, whose Key is the peer's
    (* what happened *)
    signer       \* who signed the message as it stands: an application (its
                 \* party), a broker (BROKER) or nobody (NoKey)

vars == <<msg, padded, at, established, signer>>

(***************************************************************************)
(* The message.                                                            *)
(***************************************************************************)
Headers == [key : Parties \cup {NoKey}, intact : BOOLEAN,
            counter : {0, 1}, context : {0, 1}]
Bodies  == [key : Parties \cup {NoKey}, intact : BOOLEAN]

Content(m) == [flags |-> m.flags, header |-> m.header, data |-> m.data]

Unsigned == [by |-> NoKey]

(* MFMessage_Alloc: nothing sealed or signed, PacketCounter and Context 0. *)
Alloc ==
    [flags  |-> {}, sig |-> Unsigned,
     header |-> [key |-> NoKey, intact |-> TRUE, counter |-> 0, context |-> 0],
     data   |-> [key |-> NoKey, intact |-> TRUE]]

(* MFCrypto_Decrypt succeeds for the key the part was sealed with, unless  *)
(* the sealed bytes were changed.                                          *)
Opens(part, key) == part.key = key /\ part.intact

(* A signature is looked at only while the flag is set; it is dropped here *)
(* with the flag, while the code leaves its bytes where they are.          *)
Unsign(m) == [m EXCEPT !.flags = @ \ {SIGNED}, !.sig = Unsigned]

(* Mutant: the old signature stays valid in the eyes of the receiver.      *)
DataEncryptKeepsSigned(m, key) ==
    [m EXCEPT !.data = [key |-> key, intact |-> ~padded],
              !.flags = @ \cup {DATA}]

(* MFMessage_DataEncrypt.  What it fills with random bytes is not the room *)
(* behind the sealed data but as much of the sealed data itself.  Bound:   *)
(* the room is never larger than the data, or the bytes before the data,   *)
(* DataEncryption first, would be overwritten too.                         *)
DataEncrypt(m, key) ==
    Unsign([m EXCEPT !.data = [key |-> key, intact |-> ~padded],
                     !.flags = @ \cup {DATA}])

(* MFMessage_DataDecrypt.  It needs DataEncryption, which is the end of    *)
(* the header and cannot be read while the header is sealed.               *)
DataDecrypt(m, key) ==
    IF m.header.key = NoKey /\ Opens(m.data, key)
    THEN Unsign([m EXCEPT !.data.key = NoKey, !.flags = @ \ {DATA}])
    ELSE m

(* Mutant: the flag is set after the signature is made.                    *)
SignBeforeFlag(m, key) ==
    [m EXCEPT !.flags = @ \cup {SIGNED},
              !.sig = [by |-> key, what |-> Content(m)]]

(* MFMessage_Sign: the signature covers the whole message, its own field   *)
(* zeroed and the flag set.                                                *)
Sign(m, key) ==
    LET s == [m EXCEPT !.flags = @ \cup {SIGNED}]
    IN  [s EXCEPT !.sig = [by |-> key, what |-> Content(s)]]

(* MFMessage_Verify.  libsodium accepts no signature under a zero key.     *)
Verify(m, key) ==
    /\ key # ZeroKey
    /\ m.sig.by = key
    /\ m.sig.what = Content(m)

(* Mutant: the first bytes of the data are sealed with the header, while   *)
(* HeaderDecrypt opens the header alone.                                   *)
HeaderEncryptOverData(m, key) ==
    Unsign([m EXCEPT !.header.key = key, !.flags = @ \cup {HEADER},
                     !.data.intact = FALSE])

(* MFMessage_HeaderEncrypt seals from MessageType up to the data, counter, *)
(* context and DataEncryption included.                                    *)
HeaderEncrypt(m, key) ==
    Unsign([m EXCEPT !.header.key = key, !.flags = @ \cup {HEADER}])

HeaderDecrypt(m, key) ==
    IF Opens(m.header, key)
    THEN Unsign([m EXCEPT !.header.key = NoKey, !.flags = @ \ {HEADER}])
    ELSE m

(* MFMessage_SetCounter and MFMessage_SetContext.  Neither looks at the    *)
(* flags: in a sealed header they overwrite sealed bytes, and the header,  *)
(* its DataEncryption with it, is lost.                                    *)
SetCounter(m, c) ==
    IF m.header.key = NoKey THEN [m EXCEPT !.header.counter = c]
    ELSE [m EXCEPT !.header.intact = FALSE]

SetContext(m, c) ==
    IF m.header.key = NoKey THEN [m EXCEPT !.header.context = c]
    ELSE [m EXCEPT !.header.intact = FALSE]

(***************************************************************************)
(* MFBroker_Alloc is given the keys of its party and stores neither: the   *)
(* broker signs and opens with zeroed memory.                              *)
(***************************************************************************)
BrokerKey(p) == ZeroKey

InApp(p) == [place |-> "app", party |-> p]
Queued(e) == [place |-> "queue", end |-> e]
OnWire(e) == [place |-> "wire", end |-> e]
Dropped(why, e) == [place |-> why, end |-> e]

Init ==
    \E author \in Parties :
        /\ msg = Alloc
        /\ padded \in Paddings
        /\ at = InApp(author)
        /\ established = {}
        /\ signer = NoKey

(***************************************************************************)
(* Calls of the application that has the message.  The guards are the      *)
(* assertions of the functions.                                            *)
(***************************************************************************)
CallDataEncrypt(p, r) ==
    /\ at = InApp(p)
    /\ DATA \notin msg.flags /\ HEADER \notin msg.flags
    /\ msg' = DataEncrypt(msg, r)
    /\ signer' = NoKey
    /\ UNCHANGED <<padded, at, established>>

CallDataDecrypt(p) ==
    /\ at = InApp(p)
    /\ HEADER \notin msg.flags /\ DATA \in msg.flags
    /\ msg' = DataDecrypt(msg, p)
    /\ signer' = IF msg' = msg THEN signer ELSE NoKey
    /\ UNCHANGED <<padded, at, established>>

CallSign(p) ==
    /\ at = InApp(p)
    /\ msg' = Sign(msg, p)
    /\ signer' = p
    /\ UNCHANGED <<padded, at, established>>

CallHeaderEncrypt(p, r) ==
    /\ at = InApp(p)
    /\ HEADER \notin msg.flags
    /\ msg' = HeaderEncrypt(msg, r)
    /\ signer' = NoKey
    /\ UNCHANGED <<padded, at, established>>

CallHeaderDecrypt(p) ==
    /\ at = InApp(p)
    /\ HEADER \in msg.flags
    /\ msg' = HeaderDecrypt(msg, p)
    /\ signer' = IF Opens(msg.header, p) THEN NoKey ELSE signer
    /\ UNCHANGED <<padded, at, established>>

(* Bound: 1 is the one value a counter or context is given.                *)
CallSet(p) ==
    /\ at = InApp(p)
    /\ msg' = SetCounter(msg, 1) \/ msg' = SetContext(msg, 1)
    /\ signer' = IF msg' = msg THEN signer ELSE NoKey
    /\ UNCHANGED <<padded, at, established>>

(* MFConnection_SendAsync: the queue gets a copy of the message.           *)
SendAsync(p, q) ==
    /\ at = InApp(p) /\ <<p, q>> \in Ends
    /\ at' = Queued(<<p, q>>)
    /\ UNCHANGED <<msg, padded, established, signer>>

(* MFConnection_SetKey, with the key of the peer.                          *)
SetKey(e) ==
    /\ established' = established \cup {e}
    /\ UNCHANGED <<msg, padded, at, signer>>

(***************************************************************************)
(* The broker.  The answers of the message callback are chosen freely; it  *)
(* cannot change the message.                                              *)
(***************************************************************************)
(* POLLOUT.  seal is the answer to bmetAboutToEncrypt, go the one to       *)
(* bmetCannotEncrypt, sign the one to bmetAboutToSign.                     *)
Transmit(e) ==
    \E seal, go, sign \in BOOLEAN :
        LET sealing == HEADER \notin msg.flags /\ seal
            stopped == sealing /\ e \notin established /\ ~go
            m1 == IF sealing /\ e \in established
                  THEN HeaderEncrypt(msg, e[2]) ELSE msg
            signing == ~stopped /\ SIGNED \notin m1.flags /\ sign
        IN  /\ at = Queued(e)
            /\ at' = IF stopped THEN Dropped("unsent", e) ELSE OnWire(e)
            /\ msg' = IF signing THEN Sign(m1, BrokerKey(e[1])) ELSE m1
            /\ signer' = IF signing THEN BROKER
                         ELSE IF m1 = msg THEN signer ELSE NoKey
            /\ UNCHANGED <<padded, established>>

(* POLLIN at the peer.  The signature covers the sealed header, so it is   *)
(* checked first; go is the answer to bmetCannotVerify.                    *)
Receive(e) ==
    \E go \in BOOLEAN :
        LET verified == SIGNED \in msg.flags =>
                IF <<e[2], e[1]>> \in established THEN Verify(msg, e[1])
                ELSE go
            sealed == HEADER \in msg.flags
            readable == sealed => Opens(msg.header, BrokerKey(e[2]))
        IN  /\ at = OnWire(e)
            /\ at' = CASE ~verified -> Dropped("signature", e)
                       [] verified /\ ~readable -> Dropped("decryption", e)
                       [] OTHER -> InApp(e[2])
            /\ msg' = IF verified /\ sealed
                      THEN HeaderDecrypt(msg, BrokerKey(e[2])) ELSE msg
            /\ signer' = IF msg' = msg THEN signer ELSE NoKey
            /\ UNCHANGED <<padded, established>>

Next ==
    \/ \E p \in Parties :
        \/ \E r \in Parties : CallDataEncrypt(p, r) \/ CallHeaderEncrypt(p, r)
        \/ CallDataDecrypt(p) \/ CallHeaderDecrypt(p)
        \/ CallSign(p) \/ CallSet(p)
        \/ \E q \in Parties : SendAsync(p, q)
    \/ \E e \in Ends : SetKey(e) \/ Transmit(e) \/ Receive(e)

Spec == Init /\ [][Next]_vars

-----------------------------------------------------------------------------
(* What a signature was made over differs from the message as it stands at *)
(* most in a counter or context set since, through any sequence of calls   *)
(* and hops (mfmessages.c:58, 73, 113, 127; not 136 and 144).              *)
SignatureCurrent ==
    SIGNED \in msg.flags =>
        /\ msg.sig.what.flags = msg.flags
        /\ msg.sig.what.data = msg.data
        /\ msg.sig.what.header.key = msg.header.key

(* A message has the shape its flags announce: a part is sealed, and a     *)
(* signature there and current, if and only if its flag is set.            *)
TypeOK ==
    /\ msg.flags \subseteq {SIGNED, HEADER, DATA}
    /\ msg.header \in Headers /\ msg.data \in Bodies
    /\ HEADER \in msg.flags <=> msg.header.key # NoKey
    /\ DATA \in msg.flags <=> msg.data.key # NoKey
    /\ SIGNED \in msg.flags <=> msg.sig # Unsigned
    /\ SignatureCurrent
    /\ padded \in BOOLEAN
    /\ at.place \in {"app", "queue", "wire", "unsent", "signature",
                     "decryption"}
    /\ established \subseteq Ends
    /\ signer \in Parties \cup {NoKey, BROKER}

(* Over an established connection the broker accepts a signed message if   *)
(* and only if the application of the peer signed it as it stands: neither *)
(* the signature of somebody it is relayed for, nor one made by the peer's *)
(* broker, nor one made before the message changed (mfbroker.c:218-224).   *)
PeerSignature ==
    [][\A e \in Ends :
        (/\ at = OnWire(e) /\ at' # at
         /\ SIGNED \in msg.flags /\ <<e[2], e[1]>> \in established)
        => (at'.place = "signature" <=> signer # e[1])]_vars

(* The message after whoever can open its header has done so, and party p  *)
(* has tried to open its data.                                             *)
Recovered(m, p) ==
    DataDecrypt(HeaderDecrypt(m, m.header.key), p)

(* Data sealed for a party can be had back wherever the message has been,  *)
(* sealed, opened, numbered and relayed, with two exceptions and in them   *)
(* never: it had room behind its data when the data was sealed             *)
(* (mfmessages.c:56), or its header was given a counter or a context while *)
(* sealed (mfmessages.c:136 and 144), which spoils the DataEncryption that *)
(* is sealed with it (mfmessages.c:111).                                   *)
DataOpens ==
    \A p \in Parties : msg.data.key = p =>
        ((Recovered(msg, p).data.key = NoKey) <=>
            (~padded /\ (HEADER \in msg.flags => msg.header.intact)))

(* A header sealed for the owner of a broker is opened by that broker.     *)
HeaderOpens ==
    at.place = "decryption" =>
        ~(msg.header.intact /\ msg.header.key = at.end[2])
=============================================================================
