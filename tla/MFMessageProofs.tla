-------------------------- MODULE MFMessageProofs --------------------------
(***************************************************************************)
(* Proofs about the life of a message (MFMessage): the shape a message has,*)
(* when sealed data opens, and whose signature a broker accepts, whatever  *)
(* users there are and however often the message is sent on; and the sizes *)
(* of protocol messages (MFProtocol), for every length and count.          *)
(***************************************************************************)
EXTENDS MFMessage, MFProtocol, TLAPS

(***************************************************************************)
(* The inductive invariant.                                                *)
(***************************************************************************)
(* What there is to know of a message, a place and a signer.               *)
Contents == [flags : SUBSET {SIGNED, HEADER, DATA}, header : Headers,
             data : Bodies]

Signatures == {Unsigned} \cup [by : Parties \cup {ZeroKey}, what : Contents]

Messages == [flags : SUBSET {SIGNED, HEADER, DATA}, sig : Signatures,
             header : Headers, data : Bodies]

Places == [place : {"app"}, party : Parties]
            \cup [place : {"queue", "wire", "unsent", "signature",
                           "decryption"}, end : Ends]

(* A signed header can only have got later: its counter and context are    *)
(* given once, and bytes once spoilt remain so.                            *)
Since(old, new) ==
    /\ old.key = new.key
    /\ old.counter <= new.counter /\ old.context <= new.context
    /\ new.intact => old.intact

(* Only a sealed header is ever spoilt.                                    *)
Sound(h) == h.key = NoKey => h.intact

WellFormed(m) ==
    /\ m \in Messages
    /\ HEADER \in m.flags <=> m.header.key # NoKey
    /\ Sound(m.header)
    /\ DATA \in m.flags <=> m.data.key # NoKey
    /\ SIGNED \in m.flags <=> m.sig # Unsigned
    /\ SIGNED \in m.flags =>
        /\ m.sig.what.flags = m.flags /\ m.sig.what.data = m.data
        /\ Since(m.sig.what.header, m.header)

(* Whose signature a receiver would accept.                                *)
SignerOf(m) ==
    IF SIGNED \notin m.flags \/ m.sig.what # Content(m) THEN NoKey
    ELSE IF m.sig.by = ZeroKey THEN BROKER ELSE m.sig.by

(* Sealed data is as it was sealed, or the room behind it was filled.      *)
DataAsSealed(m, room) == m.data.key # NoKey => (m.data.intact <=> ~room)

IInv ==
    /\ WellFormed(msg)
    /\ signer = SignerOf(msg)
    /\ DataAsSealed(msg, padded)
    /\ at \in Places /\ established \subseteq Ends /\ padded \in BOOLEAN
-----------------------------------------------------------------------------
(* What the operations on a message have in common.                        *)
Keys == Parties \cup {ZeroKey}

PartsFlagged(m) ==
    /\ HEADER \in m.flags <=> m.header.key # NoKey
    /\ Sound(m.header)
    /\ DATA \in m.flags <=> m.data.key # NoKey

(* The markers are not parties, and a broker is not a user.                *)
LEMMA Names == /\ Server \in Parties /\ NoKey # ZeroKey /\ NoKey # BROKER
               /\ \A p \in Parties : p # NoKey /\ p # ZeroKey /\ p # BROKER
BY MessageAssumption DEF NoKey, ZeroKey, BROKER, Parties

(* A new message.                                                          *)
LEMMA AllocFacts == WellFormed(Alloc) /\ SignerOf(Alloc) = NoKey
                    /\ Alloc.data.key = NoKey
BY Names
   DEF Alloc, WellFormed, SignerOf, Messages, Headers, Bodies, Signatures,
       Unsigned, SIGNED, HEADER, DATA, NoKey, Sound

(* A signature is the signer's, and stands for the message as it is.       *)
LEMMA SignFacts ==
    ASSUME NEW m, WellFormed(m), NEW key \in Keys
    PROVE  /\ WellFormed(Sign(m, key))
           /\ SignerOf(Sign(m, key)) = IF key = ZeroKey THEN BROKER ELSE key
           /\ Sign(m, key).data = m.data
<1> DEFINE content == [flags |-> m.flags \cup {SIGNED}, header |-> m.header,
                       data |-> m.data]
<1>1. m \in Messages
  BY DEF WellFormed
<1>2. /\ Sign(m, key).flags = m.flags \cup {SIGNED}
      /\ Sign(m, key).header = m.header /\ Sign(m, key).data = m.data
      /\ Sign(m, key).sig.by = key
      /\ Sign(m, key).sig.what = content
  BY <1>1 DEF Sign, Messages, Content
<1>3. content \in Contents
  BY <1>1 DEF Messages, Contents
<1>4. Sign(m, key) \in Messages
  BY <1>1, <1>3 DEF Sign, Messages, Content, Signatures, Keys
<1>5. Sign(m, key).sig # Unsigned
  BY <1>2, Names DEF Unsigned, Keys
<1>6. Since(m.header, m.header)
  BY <1>1 DEF Since, Messages, Headers
<1>7. WellFormed(Sign(m, key))
  BY <1>2, <1>4, <1>5, <1>6 DEF WellFormed, SIGNED, HEADER, DATA
<1>8. SignerOf(Sign(m, key)) = IF key = ZeroKey THEN BROKER ELSE key
  BY <1>2 DEF SignerOf, Content
<1>. QED BY <1>2, <1>7, <1>8

(* A message without a signature, its parts sealed as the flags say.       *)
LEMMA UnsignFacts ==
    ASSUME NEW m \in Messages, PartsFlagged(m)
    PROVE  /\ WellFormed(Unsign(m)) /\ SignerOf(Unsign(m)) = NoKey
           /\ Unsign(m).data = m.data
<1>1. /\ Unsign(m).flags = m.flags \ {SIGNED} /\ Unsign(m).sig = Unsigned
      /\ Unsign(m).header = m.header /\ Unsign(m).data = m.data
      /\ Unsign(m) \in Messages
  BY DEF Unsign, Messages, Signatures
<1>. QED BY <1>1 DEF WellFormed, PartsFlagged, SignerOf, SIGNED, HEADER, DATA

(* Sealing the data and opening it.                                        *)
LEMMA DataFacts ==
    ASSUME NEW m, WellFormed(m), NEW key \in Parties, padded \in BOOLEAN
    PROVE  /\ WellFormed(DataEncrypt(m, key))
           /\ SignerOf(DataEncrypt(m, key)) = NoKey
           /\ DataAsSealed(DataEncrypt(m, key), padded)
           /\ WellFormed(DataDecrypt(m, key))
           /\ DataAsSealed(m, padded)
                => DataAsSealed(DataDecrypt(m, key), padded)
           /\ SignerOf(DataDecrypt(m, key)) =
                IF DataDecrypt(m, key) = m THEN SignerOf(m) ELSE NoKey
           /\ DataDecrypt(m, key).data.key =
                IF m.header.key = NoKey /\ Opens(m.data, key)
                THEN NoKey ELSE m.data.key
<1>1. m \in Messages
  BY DEF WellFormed
<1>2. WellFormed(DataEncrypt(m, key)) /\ SignerOf(DataEncrypt(m, key)) = NoKey
      /\ DataAsSealed(DataEncrypt(m, key), padded)
  <2> DEFINE s == [m EXCEPT !.data = [key |-> key, intact |-> ~padded],
                            !.flags = @ \cup {DATA}]
  <2>1. s \in Messages
    BY <1>1 DEF Messages, Bodies
  <2>2. /\ s.flags = m.flags \cup {DATA} /\ s.header = m.header
        /\ s.data = [key |-> key, intact |-> ~padded]
    BY <1>1 DEF Messages
  <2>3. PartsFlagged(s)
    BY <2>2, Names DEF WellFormed, PartsFlagged, HEADER, DATA
  <2>4. WellFormed(Unsign(s)) /\ SignerOf(Unsign(s)) = NoKey
        /\ Unsign(s).data = s.data
    BY <2>1, <2>3, UnsignFacts
  <2>5. DataEncrypt(m, key) = Unsign(s)
    BY DEF DataEncrypt
  <2>6. s.data.intact <=> ~padded
    <3>1. [key |-> key, intact |-> ~padded].intact <=> ~padded
      OBVIOUS
    <3>. QED BY <2>2, <3>1
  <2>. QED BY <2>4, <2>5, <2>6 DEF DataAsSealed
<1>3. CASE m.header.key = NoKey /\ Opens(m.data, key)
  <2> DEFINE s == [m EXCEPT !.data.key = NoKey, !.flags = @ \ {DATA}]
  <2>1. s \in Messages
    BY <1>1 DEF Messages, Bodies
  <2>2. /\ s.flags = m.flags \ {DATA} /\ s.header = m.header
        /\ s.data = [m.data EXCEPT !.key = NoKey]
    BY <1>1 DEF Messages
  <2>3. s.data.key = NoKey
    BY <1>1, <2>2 DEF Messages, Bodies
  <2>4. PartsFlagged(s)
    BY <2>2, <2>3 DEF WellFormed, PartsFlagged, HEADER, DATA
  <2>5. DataDecrypt(m, key) = Unsign(s)
    BY <1>3 DEF DataDecrypt
  <2>6. /\ WellFormed(Unsign(s)) /\ SignerOf(Unsign(s)) = NoKey
        /\ Unsign(s).data = s.data
    BY <2>1, <2>4, UnsignFacts
  <2>7. m.data.key # NoKey
    BY <1>3, Names DEF Opens
  <2>8. Unsign(s) # m
    BY <2>3, <2>6, <2>7
  <2>. QED BY <1>2, <1>3, <2>3, <2>5, <2>6, <2>8 DEF DataAsSealed
<1>4. CASE ~(m.header.key = NoKey /\ Opens(m.data, key))
  <2>1. DataDecrypt(m, key) = m
    BY <1>4 DEF DataDecrypt
  <2>. QED BY <1>2, <1>4, <2>1
<1>. QED BY <1>3, <1>4

(* Sealing the header and opening it; either changes the message.          *)
LEMMA HeaderFacts ==
    ASSUME NEW m, WellFormed(m), NEW key \in Keys
    PROVE  /\ HeaderDecrypt(m, key).data = m.data
           /\ WellFormed(HeaderDecrypt(m, key))
           /\ SignerOf(HeaderDecrypt(m, key)) =
                IF Opens(m.header, key) THEN NoKey ELSE SignerOf(m)
           /\ HeaderDecrypt(m, key) = m <=> ~Opens(m.header, key)
           /\ HeaderDecrypt(m, key).header.key =
                IF Opens(m.header, key) THEN NoKey ELSE m.header.key
           /\ key \in Parties =>
                /\ WellFormed(HeaderEncrypt(m, key))
                /\ SignerOf(HeaderEncrypt(m, key)) = NoKey
                /\ HeaderEncrypt(m, key).data = m.data
                /\ HEADER \in HeaderEncrypt(m, key).flags
<1>1. m \in Messages
  BY DEF WellFormed
<1>2. ASSUME key \in Parties
      PROVE  /\ WellFormed(HeaderEncrypt(m, key))
             /\ SignerOf(HeaderEncrypt(m, key)) = NoKey
             /\ HeaderEncrypt(m, key).data = m.data
             /\ HEADER \in HeaderEncrypt(m, key).flags
  <2> DEFINE s == [m EXCEPT !.header.key = key, !.flags = @ \cup {HEADER}]
  <2>1. s \in Messages
    BY <1>1, <1>2 DEF Messages, Headers
  <2>2. /\ s.flags = m.flags \cup {HEADER}
        /\ s.header = [m.header EXCEPT !.key = key] /\ s.data = m.data
    BY <1>1 DEF Messages
  <2>3. s.header.key = key
    BY <1>1, <2>2 DEF Messages, Headers
  <2>4. PartsFlagged(s)
    <3>1. Sound(s.header)
      BY <1>2, <2>3, Names DEF Sound
    <3>. QED BY <1>2, <2>2, <2>3, <3>1, Names
             DEF WellFormed, PartsFlagged, HEADER, DATA
  <2>5. HeaderEncrypt(m, key) = Unsign(s)
    BY DEF HeaderEncrypt
  <2>6. /\ WellFormed(Unsign(s)) /\ SignerOf(Unsign(s)) = NoKey
        /\ Unsign(s).data = s.data
    BY <2>1, <2>4, UnsignFacts
  <2>7. HEADER \in Unsign(s).flags
    BY <2>1, <2>2 DEF Unsign, Messages, HEADER, SIGNED
  <2>. QED BY <2>2, <2>5, <2>6, <2>7
<1>3. CASE Opens(m.header, key)
  <2> DEFINE s == [m EXCEPT !.header.key = NoKey, !.flags = @ \ {HEADER}]
  <2>1. s \in Messages
    BY <1>1 DEF Messages, Headers
  <2>2. /\ s.flags = m.flags \ {HEADER}
        /\ s.header = [m.header EXCEPT !.key = NoKey] /\ s.data = m.data
    BY <1>1 DEF Messages
  <2>3. s.header.key = NoKey /\ s.header.intact = m.header.intact
    BY <1>1, <2>2 DEF Messages, Headers
  <2>4. PartsFlagged(s)
    <3>1. Sound(s.header)
      BY <1>3, <2>3 DEF Sound, Opens
    <3>. QED BY <2>2, <2>3, <3>1
             DEF WellFormed, PartsFlagged, HEADER, DATA
  <2>5. HeaderDecrypt(m, key) = Unsign(s)
    BY <1>3 DEF HeaderDecrypt
  <2>6. /\ WellFormed(Unsign(s)) /\ SignerOf(Unsign(s)) = NoKey
        /\ Unsign(s).data = s.data
    BY <2>1, <2>4, UnsignFacts
  <2>7. Unsign(s).header.key = NoKey
    BY <2>1, <2>3 DEF Unsign, Messages
  <2>8. Unsign(s) # m
    <3>1. m.header.key # NoKey
      BY <1>3, Names DEF Opens, Keys
    <3>. QED BY <2>7, <3>1
  <2>. QED BY <1>2, <1>3, <2>2, <2>5, <2>6, <2>7, <2>8
<1>4. CASE ~Opens(m.header, key)
  <2>1. HeaderDecrypt(m, key) = m
    BY <1>4 DEF HeaderDecrypt
  <2>. QED BY <1>2, <1>4, <2>1
<1>. QED BY <1>3, <1>4

(* A change of the header that only makes it later leaves the signature    *)
(* where it is, and nobody's.                                              *)
LEMMA LaterFacts ==
    ASSUME NEW m, WellFormed(m),
           NEW h \in Headers, Since(m.header, h), h # m.header,
           Sound(h)
    PROVE  /\ WellFormed([m EXCEPT !.header = h])
           /\ SignerOf([m EXCEPT !.header = h]) = NoKey
           /\ [m EXCEPT !.header = h].data = m.data
<1> DEFINE s == [m EXCEPT !.header = h]
<1>1. m \in Messages
  BY DEF WellFormed
<1>2. /\ s \in Messages /\ s.flags = m.flags /\ s.sig = m.sig /\ s.header = h
      /\ s.data = m.data
  BY <1>1 DEF Messages
<1>3. ASSUME SIGNED \in m.flags
      PROVE  Since(m.sig.what.header, h) /\ m.sig.what.header # h
  <2>1. m.sig.what \in Contents
    BY <1>1, <1>3 DEF WellFormed, Messages, Signatures
  <2>2. m.sig.what.header \in Headers /\ m.header \in Headers
    BY <1>1, <2>1 DEF Contents, Messages
  <2>3. Since(m.sig.what.header, m.header)
    BY <1>3 DEF WellFormed
  <2>. QED BY <2>2, <2>3 DEF Since, Headers
<1>4. m.header.key = h.key
  BY DEF Since
<1>5. WellFormed(s)
  BY <1>2, <1>3, <1>4 DEF WellFormed
<1>6. SignerOf(s) = NoKey
  BY <1>2, <1>3 DEF SignerOf, Content
<1>. QED BY <1>2, <1>5, <1>6

(* The header after a counter or context was set.                          *)
LEMMA SetFacts ==
    ASSUME NEW m, WellFormed(m),
           NEW r, r = SetCounter(m, 1) \/ r = SetContext(m, 1)
    PROVE  /\ WellFormed(r) /\ r.data = m.data
           /\ SignerOf(r) = IF r = m THEN SignerOf(m) ELSE NoKey
<1>1. m \in Messages /\ m.header \in Headers
  BY DEF WellFormed, Messages
<1>2. \E h \in Headers : /\ r = [m EXCEPT !.header = h]
                         /\ Since(m.header, h)
                         /\ Sound(h)
  <2>1. CASE m.header.key # NoKey
    <3>1. r = [m EXCEPT !.header = [m.header EXCEPT !.intact = FALSE]]
      BY <1>1, <2>1 DEF SetCounter, SetContext, Messages
    <3>2. [m.header EXCEPT !.intact = FALSE] \in Headers
      BY <1>1 DEF Headers
    <3>3. /\ [m.header EXCEPT !.intact = FALSE].key = m.header.key
          /\ [m.header EXCEPT !.intact = FALSE].counter = m.header.counter
          /\ [m.header EXCEPT !.intact = FALSE].context = m.header.context
          /\ [m.header EXCEPT !.intact = FALSE].intact = FALSE
          /\ m.header.counter \in Int /\ m.header.context \in Int
      BY <1>1 DEF Headers
    <3>4. Since(m.header, [m.header EXCEPT !.intact = FALSE])
      BY <3>3 DEF Since
    <3>5. Sound([m.header EXCEPT !.intact = FALSE])
      BY <2>1, <3>3 DEF Sound
    <3>. QED BY <3>1, <3>2, <3>4, <3>5
  <2>2. CASE m.header.key = NoKey /\ r = SetCounter(m, 1)
    <3>1. r = [m EXCEPT !.header = [m.header EXCEPT !.counter = 1]]
      BY <1>1, <2>2 DEF SetCounter, Messages
    <3>2. /\ [m.header EXCEPT !.counter = 1] \in Headers
          /\ Since(m.header, [m.header EXCEPT !.counter = 1])
          /\ [m.header EXCEPT !.counter = 1].intact = m.header.intact
          /\ [m.header EXCEPT !.counter = 1].key = m.header.key
      BY <1>1 DEF Headers, Since
    <3>3. Sound([m.header EXCEPT !.counter = 1])
      BY <3>2 DEF WellFormed, Sound
    <3>. QED BY <3>1, <3>2, <3>3
  <2>3. CASE m.header.key = NoKey /\ r = SetContext(m, 1)
    <3>1. r = [m EXCEPT !.header = [m.header EXCEPT !.context = 1]]
      BY <1>1, <2>3 DEF SetContext, Messages
    <3>2. /\ [m.header EXCEPT !.context = 1] \in Headers
          /\ Since(m.header, [m.header EXCEPT !.context = 1])
          /\ [m.header EXCEPT !.context = 1].intact = m.header.intact
          /\ [m.header EXCEPT !.context = 1].key = m.header.key
      BY <1>1 DEF Headers, Since
    <3>3. Sound([m.header EXCEPT !.context = 1])
      BY <3>2 DEF WellFormed, Sound
    <3>. QED BY <3>1, <3>2, <3>3
  <2>. QED BY <2>1, <2>2, <2>3
<1>3. PICK h \in Headers : /\ r = [m EXCEPT !.header = h]
                          /\ Since(m.header, h)
                          /\ Sound(h)
  BY <1>2
<1>4. r = [m EXCEPT !.header = h]
  BY <1>3
<1>5. CASE h = m.header
  <2>1. r = m
    BY <1>1, <1>4, <1>5 DEF Messages
  <2>. QED BY <2>1
<1>6. CASE h # m.header
  <2>1. r # m
    BY <1>1, <1>4, <1>6 DEF Messages
  <2>2. /\ WellFormed([m EXCEPT !.header = h])
        /\ SignerOf([m EXCEPT !.header = h]) = NoKey
        /\ [m EXCEPT !.header = h].data = m.data
    BY <1>3, <1>6, LaterFacts
  <2>. QED BY <1>4, <2>1, <2>2
<1>. QED BY <1>5, <1>6

(* An end joins two parties.                                               *)
LEMMA EndFacts ==
    ASSUME NEW e \in Ends
    PROVE  e[1] \in Parties /\ e[2] \in Parties /\ <<e[2], e[1]>> \in Ends
BY DEF Ends

(* Places differ by their name and by what they are of.                    *)
LEMMA PlaceFacts ==
    /\ \A p \in Parties : /\ InApp(p) \in Places
                          /\ InApp(p).place = "app" /\ InApp(p).party = p
    /\ \A e \in Ends : /\ Queued(e) \in Places /\ OnWire(e) \in Places
                       /\ OnWire(e).place = "wire" /\ OnWire(e).end = e
                       /\ Queued(e).place = "queue"
                       /\ \A why \in {"unsent", "signature", "decryption"} :
                             /\ Dropped(why, e) \in Places
                             /\ Dropped(why, e).place = why
BY DEF Places, InApp, Queued, OnWire, Dropped

(* The first state.                                                        *)
LEMMA InitHolds == Init => IInv
<1>. SUFFICES ASSUME Init PROVE IInv
  OBVIOUS
<1>1. PICK author \in Parties :
        /\ msg = Alloc /\ at = InApp(author)
        /\ established = {} /\ signer = NoKey /\ padded \in Paddings
  BY DEF Init
<1>2. padded \in BOOLEAN
  BY <1>1, MessageAssumption
<1>. QED BY <1>1, <1>2, AllocFacts, PlaceFacts DEF IInv, DataAsSealed

(* Every call of an application.                                           *)
LEMMA CallHolds ==
    ASSUME IInv, NEW p \in Parties,
           \/ \E r \in Parties :
                CallDataEncrypt(p, r) \/ CallHeaderEncrypt(p, r)
           \/ CallDataDecrypt(p) \/ CallHeaderDecrypt(p)
           \/ CallSign(p) \/ CallSet(p)
           \/ \E q \in Parties : SendAsync(p, q)
    PROVE  IInv'
<1>0. /\ WellFormed(msg) /\ signer = SignerOf(msg) /\ padded \in BOOLEAN
      /\ p \in Keys
  BY DEF IInv, Keys
<1>1. ASSUME NEW r \in Parties, CallDataEncrypt(p, r) PROVE IInv'
  BY <1>0, <1>1, DataFacts DEF CallDataEncrypt, IInv
<1>2. ASSUME NEW r \in Parties, CallHeaderEncrypt(p, r) PROVE IInv'
  BY <1>0, <1>2, HeaderFacts
     DEF CallHeaderEncrypt, IInv, Keys, DataAsSealed
<1>3. CASE CallDataDecrypt(p)
  BY <1>0, <1>3, DataFacts DEF CallDataDecrypt, IInv
<1>4. CASE CallHeaderDecrypt(p)
  BY <1>0, <1>4, HeaderFacts DEF CallHeaderDecrypt, IInv, DataAsSealed
<1>5. CASE CallSign(p)
  BY <1>0, <1>5, SignFacts, Names DEF CallSign, IInv, DataAsSealed
<1>6. CASE CallSet(p)
  BY <1>0, <1>6, SetFacts DEF CallSet, IInv, DataAsSealed
<1>7. ASSUME NEW q \in Parties, SendAsync(p, q) PROVE IInv'
  BY <1>7, PlaceFacts DEF SendAsync, IInv
<1>. QED BY <1>1, <1>2, <1>3, <1>4, <1>5, <1>6, <1>7

(* The broker seals and signs what is sent as its callback tells it.       *)
LEMMA TransmitHolds ==
    ASSUME IInv, NEW e \in Ends, Transmit(e)
    PROVE  IInv'
<1>1. PICK seal, go, sign \in BOOLEAN :
        LET sealing == HEADER \notin msg.flags /\ seal
            stopped == sealing /\ e \notin established /\ ~go
            m1 == IF sealing /\ e \in established
                  THEN HeaderEncrypt(msg, e[2]) ELSE msg
            signing == ~stopped /\ SIGNED \notin m1.flags /\ sign
        IN  /\ at = Queued(e)
            /\ at' = IF stopped THEN Dropped("unsent", e) ELSE OnWire(e)
            /\ msg' = IF signing THEN Sign(m1, BrokerKey(e[1])) ELSE m1
            /\ signer' = IF signing THEN BROKER
                         ELSE IF m1 = msg THEN signer ELSE NoKey
            /\ UNCHANGED <<padded, established>>
  BY DEF Transmit
<1> DEFINE sealing == HEADER \notin msg.flags /\ seal
           stopped == sealing /\ e \notin established /\ ~go
           m1 == IF sealing /\ e \in established
                 THEN HeaderEncrypt(msg, e[2]) ELSE msg
           signing == ~stopped /\ SIGNED \notin m1.flags /\ sign
<1>2. /\ at' = IF stopped THEN Dropped("unsent", e) ELSE OnWire(e)
      /\ msg' = IF signing THEN Sign(m1, ZeroKey) ELSE m1
      /\ signer' = IF signing THEN BROKER
                   ELSE IF m1 = msg THEN signer ELSE NoKey
      /\ padded' = padded /\ established' = established
  BY <1>1 DEF BrokerKey
<1>3. /\ WellFormed(msg) /\ signer = SignerOf(msg) /\ e[2] \in Keys
      /\ e[2] \in Parties
  BY EndFacts DEF IInv, Keys
<1>4. /\ WellFormed(m1) /\ m1.data = msg.data
      /\ SignerOf(m1) = IF m1 = msg THEN signer ELSE NoKey
  <2>1. CASE sealing /\ e \in established
    <3>1. m1 = HeaderEncrypt(msg, e[2])
      BY <2>1
    <3>2. m1 # msg
      BY <1>3, <2>1, <3>1, HeaderFacts
    <3>. HIDE DEF m1
    <3>. QED BY <1>3, <3>1, <3>2, HeaderFacts
  <2>2. CASE ~(sealing /\ e \in established)
    BY <1>3, <2>2
  <2>. QED BY <2>1, <2>2
<1>. HIDE DEF m1, stopped
<1>5. at' \in Places
  BY <1>2, PlaceFacts
<1>6. WellFormed(msg') /\ msg'.data = msg.data /\ signer' = SignerOf(msg')
  <2>1. CASE signing
    BY <1>2, <1>4, <2>1, SignFacts DEF Keys
  <2>2. CASE ~signing
    BY <1>2, <1>4, <2>2
  <2>. QED BY <2>1, <2>2
<1>. QED BY <1>2, <1>5, <1>6 DEF IInv, DataAsSealed

(* The broker of the peer checks what it receives and opens it.            *)
LEMMA ReceiveHolds ==
    ASSUME IInv, NEW e \in Ends, Receive(e)
    PROVE  IInv'
<1>1. /\ at' \in {Dropped("signature", e), Dropped("decryption", e), InApp(e[2])}
      /\ msg' \in {msg, HeaderDecrypt(msg, ZeroKey)}
      /\ signer' = IF msg' = msg THEN signer ELSE NoKey
      /\ padded' = padded /\ established' = established
  BY DEF Receive, BrokerKey
<1>2. WellFormed(msg) /\ signer = SignerOf(msg) /\ ZeroKey \in Keys
  BY DEF IInv, Keys
<1>3. at' \in Places
  <2>1. /\ Dropped("signature", e) \in Places
        /\ Dropped("decryption", e) \in Places
    BY PlaceFacts
  <2>2. InApp(e[2]) \in Places
    BY PlaceFacts, EndFacts
  <2>. QED BY <1>1, <2>1, <2>2
<1>4. /\ WellFormed(msg') /\ msg'.data = msg.data
      /\ SignerOf(msg') = IF msg' = msg THEN signer ELSE NoKey
  BY <1>1, <1>2, HeaderFacts
<1>. QED BY <1>1, <1>3, <1>4 DEF IInv, DataAsSealed

(* Every step keeps the invariant.                                         *)
LEMMA StepHolds == IInv /\ [Next]_vars => IInv'
<1>. SUFFICES ASSUME IInv, [Next]_vars PROVE IInv'
  OBVIOUS
<1>1. CASE UNCHANGED vars
  BY <1>1 DEF vars, IInv
<1>2. ASSUME NEW e \in Ends, SetKey(e) PROVE IInv'
  BY <1>2 DEF SetKey, IInv
<1>. QED BY <1>1, <1>2, CallHolds, TransmitHolds, ReceiveHolds DEF Next

(* It holds in every reachable state.                                      *)
LEMMA Invariance == Spec => []IInv
BY InitHolds, StepHolds, PTL DEF Spec

(* A message has the shape its flags announce, and a signature was made    *)
(* over what the message is but for a counter or context, after any        *)
(* sequence of calls and hops (mfmessages.c:42-146).                       *)
THEOREM ShapeCorrect == Spec => []TypeOK
<1>1. IInv => TypeOK
  <2>. SUFFICES ASSUME IInv PROVE TypeOK
    OBVIOUS
  <2>1. WellFormed(msg) /\ msg \in Messages
    BY DEF IInv, WellFormed
  <2>2. SignerOf(msg) \in Parties \cup {NoKey, BROKER}
    <3>1. CASE SIGNED \in msg.flags
      <4>1. msg.sig.by \in Parties \cup {ZeroKey}
        BY <2>1, <3>1 DEF WellFormed, Messages, Signatures
      <4>. QED BY <4>1 DEF SignerOf
    <3>2. CASE SIGNED \notin msg.flags
      BY <3>2 DEF SignerOf
    <3>. QED BY <3>1, <3>2
  <2>3. SignatureCurrent
    BY <2>1 DEF WellFormed, SignatureCurrent, Since
  <2>4. at.place \in {"app", "queue", "wire", "unsent", "signature",
                      "decryption"}
    BY DEF IInv, Places
  <2>. QED BY <2>1, <2>2, <2>3, <2>4 DEF IInv, TypeOK, WellFormed, Messages
<1>. QED BY <1>1, Invariance, PTL

(* Data sealed for a party can be had back exactly if there was no room    *)
(* behind it when it was sealed (mfmessages.c:56) and nobody wrote into    *)
(* its header while that was sealed (mfmessages.c:111, 136, 144).          *)
THEOREM SealedDataOpens == Spec => []DataOpens
<1>1. ASSUME IInv, NEW p \in Parties, msg.data.key = p
      PROVE  (Recovered(msg, p).data.key = NoKey) <=>
                (~padded /\ (HEADER \in msg.flags => msg.header.intact))
  <2> DEFINE key == msg.header.key
             opened == HeaderDecrypt(msg, key)
  <2>1. /\ WellFormed(msg) /\ padded \in BOOLEAN
        /\ msg.data.intact <=> ~padded
        /\ p # NoKey
        /\ HEADER \in msg.flags <=> key # NoKey
        /\ Sound(msg.header)
        /\ msg \in Messages
    BY <1>1, Names DEF IInv, WellFormed, DataAsSealed
  <2>2. /\ opened.data = msg.data
        /\ opened.header.key = NoKey <=>
              (HEADER \in msg.flags => msg.header.intact)
        /\ WellFormed(opened)
    <3>1. CASE key = NoKey
      <4> DEFINE s == [msg EXCEPT !.header.key = NoKey,
                                  !.flags = @ \ {HEADER}]
      <4>1. opened = Unsign(s)
        <5>1. Opens(msg.header, key)
          BY <2>1, <3>1 DEF Sound, Opens
        <5>. QED BY <5>1 DEF HeaderDecrypt
      <4>2. s = msg
        BY <2>1, <3>1 DEF Messages, Headers
      <4>3. PartsFlagged(msg)
        BY <2>1 DEF WellFormed, PartsFlagged
      <4>4. /\ WellFormed(Unsign(msg)) /\ Unsign(msg).data = msg.data
            /\ Unsign(msg).header = msg.header
        BY <2>1, <4>3, UnsignFacts DEF Unsign, Messages
      <4>. QED BY <2>1, <3>1, <4>1, <4>2, <4>4
    <3>2. CASE key # NoKey
      <4>1. key \in Keys
        BY <2>1, <3>2 DEF Messages, Headers, Keys
      <4>2. Opens(msg.header, key) <=> msg.header.intact
        BY DEF Opens
      <4>. QED BY <2>1, <3>2, <4>1, <4>2, HeaderFacts
    <3>. QED BY <3>1, <3>2
  <2>3. Recovered(msg, p) = DataDecrypt(opened, p)
    BY DEF Recovered
  <2>4. Opens(opened.data, p) <=> ~padded
    <3>1. Opens(msg.data, p) <=> ~padded
      BY <1>1, <2>1 DEF Opens
    <3>. QED BY <2>2, <3>1
  <2>5. Recovered(msg, p).data.key =
          IF opened.header.key = NoKey /\ Opens(opened.data, p)
          THEN NoKey ELSE opened.data.key
    BY <2>1, <2>2, <2>3, DataFacts
  <2>6. opened.data.key # NoKey
    <3>1. msg.data.key # NoKey
      BY <1>1, Names
    <3>. QED BY <2>2, <3>1
  <2>. HIDE DEF opened, key
  <2>7. Recovered(msg, p).data.key = NoKey
          <=> opened.header.key = NoKey /\ Opens(opened.data, p)
    BY <2>5, <2>6
  <2>. QED BY <2>2, <2>4, <2>7
<1>2. IInv => DataOpens
  BY <1>1 DEF DataOpens
<1>. QED BY <1>2, Invariance, PTL

(* Over an established connection a signed message is refused if and only  *)
(* if the peer's application did not sign it as it stands                  *)
(* (mfbroker.c:218-224).                                                   *)
THEOREM OnlyPeerSigns == Spec => PeerSignature
<1> DEFINE Checked == \A e \in Ends :
             (/\ at = OnWire(e) /\ at' # at
              /\ SIGNED \in msg.flags /\ <<e[2], e[1]>> \in established)
             => (at'.place = "signature" <=> signer # e[1])
<1>1. IInv /\ [Next]_vars => [Checked]_vars
  <2>. SUFFICES ASSUME IInv, Next, NEW e \in Ends,
                       at = OnWire(e), at' # at,
                       SIGNED \in msg.flags, <<e[2], e[1]>> \in established
                PROVE  at'.place = "signature" <=> signer # e[1]
    BY DEF vars
  <2>1. Receive(e)
    <3>1. \A p \in Parties : at # InApp(p)
      BY PlaceFacts
    <3>2. \A f \in Ends : at # Queued(f) /\ (at = OnWire(f) => f = e)
      BY PlaceFacts
    <3>3. PICK f \in Ends : SetKey(f) \/ Transmit(f) \/ Receive(f)
      BY <3>1
         DEF Next, CallDataEncrypt, CallHeaderEncrypt, CallDataDecrypt,
             CallHeaderDecrypt, CallSign, CallSet, SendAsync
    <3>4. ~SetKey(f) /\ ~Transmit(f)
      BY <3>2 DEF SetKey, Transmit
    <3>5. Receive(f) => at = OnWire(f)
      BY DEF Receive
    <3>. QED BY <3>2, <3>3, <3>4, <3>5
  <2> DEFINE Accepted == {Dropped("decryption", e), InApp(e[2])}
  <2>2. at' \in Accepted <=> Verify(msg, e[1])
    <3>1. /\ Verify(msg, e[1]) => at' \in Accepted
          /\ ~Verify(msg, e[1]) => at' = Dropped("signature", e)
      BY <2>1 DEF Receive
    <3>2. Dropped("signature", e) \notin Accepted
      BY PlaceFacts, EndFacts
    <3>. QED BY <3>1, <3>2
  <2>3. at'.place = "signature" <=> ~Verify(msg, e[1])
    <3>1. ~Verify(msg, e[1]) => at' = Dropped("signature", e)
      BY <2>1 DEF Receive
    <3>. QED BY <2>2, <3>1, PlaceFacts, EndFacts
  <2>4. signer = e[1] <=> Verify(msg, e[1])
    <3>1. e[1] \in Parties /\ e[1] # NoKey /\ e[1] # ZeroKey /\ e[1] # BROKER
      BY EndFacts, Names
    <3>2. signer = IF msg.sig.what # Content(msg) THEN NoKey
                   ELSE IF msg.sig.by = ZeroKey THEN BROKER ELSE msg.sig.by
      BY DEF IInv, SignerOf
    <3>. QED BY <3>1, <3>2 DEF Verify
  <2>. QED BY <2>3, <2>4
<1>2. Spec => [][Checked]_vars
  BY <1>1, Invariance, PTL DEF Spec
<1>. QED BY <1>2 DEF PeerSignature

-----------------------------------------------------------------------------
(***************************************************************************)
(* The memory of a message and of its body (MFProtocol), for every length  *)
(* and count.                                                              *)
(***************************************************************************)
(* A count of 32 bits is at most the count it was made from.               *)
LEMMA CountBounds ==
    ASSUME NEW n \in Nat
    PROVE  Count(n) \in 0 .. n
<1>1. 2^32 = 4294967296
  OBVIOUS
<1>2. n % 4294967296 \in 0 .. n
  OBVIOUS
<1> QED
  BY <1>1, <1>2 DEF Count

(* MFProtocol_ServerInfoOut writes inside the body it allocates, whatever  *)
(* the length of the name and the two counts; name, users and channels do  *)
(* not overlap, and the name keeps a terminating zero (mfprotocol.c:44).   *)
THEOREM ServerInfoFits ==
    ASSUME NEW n \in Nat, NEW users \in Nat, NEW channels \in Nat
    PROVE  /\ Inside(ServerNameWrite(n), ServerInfoBody(users, channels))
           /\ Inside(UsersWrite(users), ServerInfoBody(users, channels))
           /\ Inside(ChannelsWrite(users, channels),
                     ServerInfoBody(users, channels))
           /\ Apart(ServerNameWrite(n), UsersWrite(users))
           /\ Apart(UsersWrite(users), ChannelsWrite(users, channels))
           /\ ServerNameWrite(n).end < ServerNameOffset + ServerNameSize
<1> DEFINE u == Count(users)
           c == Count(channels)
<1>1. u \in 0 .. users /\ c \in 0 .. channels
  BY CountBounds
<1> HIDE DEF u, c
<1>2. /\ UsersWrite(users) = Write(ServerInfoSize, u * UserInfoSize)
      /\ ChannelsWrite(users, channels) =
            Write(ServerInfoSize + u * UserInfoSize, c * ChannelInfoSize)
  BY DEF UsersWrite, ChannelsWrite, u, c
<1> QED
  BY <1>1, <1>2
     DEF Inside, Apart, Write, ServerNameWrite, ServerNameLength,
         ServerInfoBody, ServerInfoSize, ServerNameOffset, ServerNameSize,
         UserInfoSize, ChannelInfoSize, GuidSize, PublicKeySize,
         SignatureSize, SeedSize

(* MFProtocol_NewUserIn writes inside its structure exactly if the name    *)
(* has at most 64 characters, and leaves a terminator only if it is        *)
(* shorter: nothing in it limits the name (mfprotocol.c:97).               *)
THEOREM NewUserFits ==
    ASSUME NEW n \in Nat
    PROVE  /\ Inside(UserNameWrite(n), NewUserSize) <=> n <= UserNameSize
           /\ UserNameWrite(n).end < NewUserSize <=> n < UserNameSize
  BY DEF Inside, Write, UserNameWrite, NewUserSize, UserNameOffset,
         UserNameSize, PublicKeySize

(* MFProtocol_ErrorMessage writes exactly up to the end of its body.       *)
THEOREM ErrorMessageFits ==
    ASSUME NEW n \in Nat
    PROVE  /\ Inside(ErrorTextWrite(n), ErrorBody(n))
           /\ ErrorTextWrite(n).end = ErrorBody(n)
  BY DEF Inside, Write, ErrorTextWrite, ErrorBody, ErrorSize

(* MFMessage_Alloc copies the data inside the message it allocates exactly *)
(* if header and data together have fewer than 2^32 bytes                  *)
(* (mfmessages.c:18).                                                      *)
THEOREM MessageFits ==
    ASSUME NEW length \in Nat
    PROVE  Inside(DataWrite(length), MessageTotal(length))
             <=> HeaderSize + length < 2^32
<1> DEFINE W == 4294967296
<1>1. 2^32 = W
  OBVIOUS
<1>2. HeaderSize = 224
  BY DEF HeaderSize, SignatureSize, GuidSize
<1>3. Inside(DataWrite(length), MessageTotal(length))
        <=> 224 + length <= (224 + (length % W)) % W
  BY <1>1, <1>2 DEF Inside, Write, DataWrite, MessageTotal
<1>4. CASE 224 + length < W
  BY <1>1, <1>2, <1>3, <1>4
<1>5. CASE 224 + length >= W
  <2>1. (224 + (length % W)) % W < W
    OBVIOUS
  <2> QED
    BY <1>1, <1>2, <1>3, <1>5, <2>1
<1> QED
  BY <1>4, <1>5, <1>2
=============================================================================
