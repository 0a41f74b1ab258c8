----------------------------- MODULE Handshake -----------------------------
(***************************************************************************)
(* The 0-RTT handshakes that open a proxied connection: rawstream's over   *)
(* TCP and h1session's inside a chunked HTTP/1.1 POST.  The client sends   *)
(* its hello and the encrypted OPEN frame in one flight; the server        *)
(* authenticates the hello against its users, decrypts the frame, spends   *)
(* the nonce and answers; both derive the session keys.                    *)
(*                                                                         *)
(* Bytes are units: the fixed part of a hello, each byte of its padding,   *)
(* the OPEN frame's length and its body, an HTTP head, a chunk's size line *)
(* and its CRLF.  A MAC or a derived key is the tuple it is computed from. *)
(* The connection may break at any unit, either deadline may expire, the   *)
(* dial's context may be cancelled and the replay cache may refuse.        *)
(***************************************************************************)
EXTENDS Integers, Sequences, FiniteSets

CONSTANTS Keys,       \* the server's users, in order
          Stranger,   \* a user the server does not have
          MaxSkew,    \* MaxTimestampSkew
          MaxPad,     \* MaxPolymorphicPadding
          DomainLens  \* bound: lengths of domain names tried

ASSUME HandshakeAssumption ==
  /\ Keys # <<>> /\ \A i \in 1..Len(Keys) : Keys[i] # Stranger
  /\ MaxSkew \in Nat /\ MaxPad \in Nat
  /\ DomainLens \subseteq 1..255

VARIABLES
  mode,          \* "raw" or "h1"
  user, idOK,    \* whose PSK the client has; its server ID is the server's
  skew,          \* the client's clock minus the server's
  cpad, spad,    \* padding lengths drawn by the client and by the server
  target,        \* the address to open: its kind and its length
  cpc, spc,      \* the two sides, up to "done" or "failed"
  c2s, s2c,      \* units under way
  hello, reply,  \* the hello each side has read
  matched, asked,   \* the server's user and target
  ckeys, skeys,  \* session keys
  armed,         \* sides whose handshake deadline is set
  broken,        \* the connection is gone
  fault          \* history: what went wrong outside the two sides

input == <<mode, user, idOK, skew, cpad, spad, target>>
client == <<cpc, reply, ckeys>>
server == <<spc, hello, matched, asked, skeys>>
handshakeVars == <<input, client, server, c2s, s2c, armed, broken,
                   fault>>

None == [u |-> "none"]
Users == {Keys[i] : i \in 1..Len(Keys)} \cup {Stranger}
Targets == {[kind |-> "ip4", len |-> 4], [kind |-> "ip6", len |-> 16]}
             \cup {[kind |-> "domain", len |-> n] : n \in DomainLens}

HandshakeInit ==
  /\ mode \in {"raw", "h1"}
  /\ user \in Users /\ idOK \in BOOLEAN
  /\ skew \in -(MaxSkew + 1)..(MaxSkew + 1)
  /\ cpad \in 0..MaxPad /\ spad \in 0..MaxPad
  /\ target \in Targets
  /\ mode = "h1" => idOK /\ cpad = 0 /\ spad = 0
  /\ cpc = "send" /\ spc = IF mode = "raw" THEN "hello" ELSE "head"
  /\ c2s = <<>> /\ s2c = <<>> /\ hello = None /\ reply = None
  /\ matched = Stranger /\ asked = None /\ ckeys = None /\ skeys = None
  /\ armed = IF mode = "raw" THEN {"client", "server"} ELSE {"client"}
  /\ broken = FALSE /\ fault = FALSE

Pads(n) == [i \in 1..n |-> [u |-> "pad"]]
After(s, n) == SubSeq(s, n + 1, Len(s))
Fresh(ts) == ts \in -MaxSkew..MaxSkew

-----------------------------------------------------------------------------
(* OPEN frames *)

\* encodeTargetAddress: a type byte, for a domain its length, the host, a port.
EncodeTarget(t) ==
  CASE t.kind = "ip4" -> <<1>> \o [i \in 1..4 |-> 0] \o <<0, 0>>
    [] t.kind = "ip6" -> <<4>> \o [i \in 1..16 |-> 0] \o <<0, 0>>
    [] OTHER -> <<3, t.len>> \o [i \in 1..t.len |-> 0] \o <<0, 0>>

\* decodeTargetAddress, which first asks for the length of the shortest IP form.
DecodeTarget(b) ==
  CASE Len(b) < 7 -> None
    [] b[1] = 1 -> [kind |-> "ip4", len |-> 4]
    [] b[1] = 4 /\ Len(b) >= 19 -> [kind |-> "ip6", len |-> 16]
    [] b[1] = 3 /\ b[2] # 0 /\ Len(b) >= b[2] + 4 ->
         [kind |-> "domain", len |-> b[2]]
    [] OTHER -> None

\* Encode0RTTOpenFrame and Decode0RTTOpenFrame: the padding goes first.
RawEncodeOpen(pad) == <<pad>> \o [i \in 1..pad |-> 9] \o EncodeTarget(target)
RawDecodeOpen(b) ==
  IF Len(b) < 1 + b[1] THEN None ELSE DecodeTarget(After(b, 1 + b[1]))

\* EncodeOpenFrame and DecodeOpenFrame: a command byte and the same address,
\* seven bytes in all at least.
H1EncodeOpen == <<1>> \o EncodeTarget(target)
H1DecodeOpen(b) ==
  LET n == IF b[2] = 3 THEN b[3] + 1 ELSE IF b[2] = 1 THEN 4 ELSE 16
  IN  IF Len(b) < 7 \/ b[1] # 1 \/ Len(b) < 2 + n + 2 THEN None
      ELSE IF b[2] = 3 THEN [kind |-> "domain", len |-> b[3]]
      ELSE IF b[2] = 1 THEN [kind |-> "ip4", len |-> 4]
      ELSE [kind |-> "ip6", len |-> 16]

-----------------------------------------------------------------------------
(* Hellos and keys *)

RawClientHello ==
  [u |-> "hello", pad |-> cpad, ts |-> skew,
   tag |-> <<"client", user, idOK, skew, cpad>>]
H1ClientHello ==
  [u |-> "hello", pad |-> 0, ts |-> skew, tag |-> <<"client", user, skew>>]

\* MatchHeader: the first user under whose key the tag, and with it the padding
\* length and the time, are right.
RawMatch(h) ==
  {i \in 1..Len(Keys) :
     h.tag = <<"client", Keys[i], TRUE, h.ts, h.pad>> /\ Fresh(h.ts)}
H1Match(h) ==
  {i \in 1..Len(Keys) : h.tag = <<"client", Keys[i], h.ts>> /\ Fresh(h.ts)}

RawOpenKey(k, id, ts) == <<"raw 0rtt", k, id, ts>>
H1OpenKey(k, ts) == <<"h1 0rtt", k, ts>>
RawSessionKeys(k, id, ts) == [u |-> "keys", from |-> <<"raw", k, id, ts>>]
H1SessionKeys(k) == [u |-> "keys", from |-> <<"h1", k>>]

RawServerHello(k, ts) ==
  [u |-> "hello", pad |-> spad, tag |-> <<"server", k, TRUE, ts, spad>>]
H1ServerHello(k) == [u |-> "hello", pad |-> 0, tag |-> <<"server", k>>]

RawVerify(h) ==
  h.u = "hello" /\ h.tag = <<"server", user, idOK, skew, h.pad>>
H1Verify(h) == h.u = "hello" /\ h.tag = <<"server", user>>

-----------------------------------------------------------------------------
(* The client: dialRawStream and dialPlainH1 *)

ClientFails ==
  /\ cpc' = "failed" /\ armed' = armed \ {"client"}
  /\ UNCHANGED <<reply, ckeys>>

ClientDone(keys) ==
  /\ cpc' = "done" /\ ckeys' = keys /\ armed' = armed \ {"client"}
  /\ UNCHANGED reply

RawSendFlight(pad) ==
  /\ mode = "raw" /\ cpc = "send" /\ ~broken
  /\ LET frame == RawEncodeOpen(pad)
     IN  c2s' = <<RawClientHello>> \o Pads(cpad)
                \o << [u |-> "len", n |-> Len(frame)],
                      [u |-> "open", key |-> RawOpenKey(user, idOK, skew),
                       text |-> frame] >>
  /\ cpc' = "reply"
  /\ UNCHANGED <<input, reply, ckeys, server, s2c, armed, broken,
                 fault>>

\* ReadAndVerifyPolymorphicServerHello: the padding is read once the fixed part
\* is authenticated.
RawReadReply ==
  /\ mode = "raw" /\ cpc = "reply" /\ s2c # <<>>
  /\ s2c' = Tail(s2c)
  /\ IF RawVerify(Head(s2c))
     THEN cpc' = "pad" /\ reply' = Head(s2c) /\ UNCHANGED <<ckeys, armed>>
     ELSE ClientFails
  /\ UNCHANGED <<input, server, c2s, broken, fault>>

RawReadReplyPad ==
  /\ mode = "raw" /\ cpc = "pad" /\ Len(s2c) >= reply.pad
  /\ s2c' = After(s2c, reply.pad)
  /\ ClientDone(RawSessionKeys(user, idOK, skew))
  /\ UNCHANGED <<input, server, c2s, broken, fault>>

H1SendFlight ==
  /\ mode = "h1" /\ cpc = "send" /\ ~broken
  /\ c2s' = << [u |-> "head"], H1ClientHello,
               [u |-> "len", n |-> Len(H1EncodeOpen)],
               [u |-> "open", key |-> H1OpenKey(user, skew),
                text |-> H1EncodeOpen] >>
  /\ cpc' = "head"
  /\ UNCHANGED <<input, reply, ckeys, server, s2c, armed, broken,
                 fault>>

\* readH1ResponseHeaders wants a chunked 200; the fallback's answer is not one
\* of ours, and neither is an error's.
H1ReadHead ==
  /\ mode = "h1" /\ cpc = "head" /\ s2c # <<>>
  /\ s2c' = Tail(s2c)
  /\ IF Head(s2c).u = "head"
     THEN cpc' = "line" /\ UNCHANGED <<reply, ckeys, armed>>
     ELSE ClientFails
  /\ UNCHANGED <<input, server, c2s, broken, fault>>

H1ReadChunk ==
  /\ mode = "h1" /\ cpc = "line" /\ Len(s2c) >= 2
  /\ s2c' = After(s2c, 2)
  /\ IF s2c[1].u = "line" /\ H1Verify(s2c[2])
     THEN cpc' = "crlf" /\ reply' = s2c[2] /\ UNCHANGED <<ckeys, armed>>
     ELSE ClientFails
  /\ UNCHANGED <<input, server, c2s, broken, fault>>

H1ReadCRLF ==
  /\ mode = "h1" /\ cpc = "crlf" /\ s2c # <<>>
  /\ s2c' = Tail(s2c)
  /\ IF Head(s2c).u = "crlf" THEN ClientDone(H1SessionKeys(user))
                             ELSE ClientFails
  /\ UNCHANGED <<input, server, c2s, broken, fault>>

-----------------------------------------------------------------------------
(* The server: handleConnection and servePlainH1 *)

ServerFails ==
  /\ spc' = "failed" /\ armed' = armed \ {"server"}
  /\ UNCHANGED <<hello, matched, asked, skeys, s2c, fault>>

\* The replay cache refuses the nonce: spent, or the store is unavailable.
NonceRefused ==
  /\ spc' = "failed" /\ armed' = armed \ {"server"} /\ fault' = TRUE
  /\ UNCHANGED <<hello, matched, asked, skeys, s2c>>

First(S) == CHOOSE i \in S : \A j \in S : i <= j

RawReadHello ==
  /\ mode = "raw" /\ spc = "hello" /\ c2s # <<>>
  /\ c2s' = Tail(c2s)
  /\ LET h == Head(c2s)
     IN  IF RawMatch(h) = {} THEN ServerFails
         ELSE /\ spc' = "pad" /\ hello' = h
              /\ matched' = Keys[First(RawMatch(h))]
              /\ UNCHANGED <<asked, skeys, s2c, armed, fault>>
  /\ UNCHANGED <<input, client, broken>>

\* Variant: the padding is left on the connection.
RawSkipHelloPad(seen) ==
  /\ mode = "raw" /\ spc = "pad" /\ Len(c2s) >= hello.pad
  /\ UNCHANGED c2s
  /\ IF seen THEN NonceRefused
     ELSE spc' = "len" /\ UNCHANGED <<hello, matched, asked, skeys, s2c, armed,
                                      fault>>
  /\ UNCHANGED <<input, client, broken>>

\* The padding, then the early look into the replay cache.
RawReadHelloPad(seen) ==
  /\ mode = "raw" /\ spc = "pad" /\ Len(c2s) >= hello.pad
  /\ c2s' = After(c2s, hello.pad)
  /\ IF seen THEN NonceRefused
     ELSE spc' = "len" /\ UNCHANGED <<hello, matched, asked, skeys, s2c, armed,
                                      fault>>
  /\ UNCHANGED <<input, client, broken>>

ReadOpenLen ==
  /\ spc = "len" /\ c2s # <<>>
  /\ c2s' = Tail(c2s)
  /\ IF Head(c2s).u = "len"
     THEN spc' = "open" /\ UNCHANGED <<hello, matched, asked, skeys, s2c,
                                       armed, fault>>
     ELSE ServerFails
  /\ UNCHANGED <<input, client, broken>>

\* Only a frame that decrypts and decodes spends the nonce and is answered;
\* then the deadline is cleared.
RawReadOpen(accepted) ==
  /\ mode = "raw" /\ spc = "open" /\ c2s # <<>>
  /\ c2s' = Tail(c2s)
  /\ LET f == Head(c2s)
         t == RawDecodeOpen(f.text)
     IN  IF f.key # RawOpenKey(matched, TRUE, hello.ts) \/ t = None
         THEN ServerFails
         ELSE IF ~accepted THEN NonceRefused
         ELSE /\ s2c' = <<RawServerHello(matched, hello.ts)>> \o Pads(spad)
              /\ spc' = "done" /\ asked' = t
              /\ skeys' = RawSessionKeys(matched, TRUE, hello.ts)
              /\ armed' = armed \ {"server"}
              /\ UNCHANGED <<hello, matched, fault>>
  /\ UNCHANGED <<input, client, broken>>

\* net/http takes the head; the nonce is spent and the answer sent before the
\* OPEN frame is read.  A hello that does not match gets the fallback's page.
H1ReadHello(accepted) ==
  /\ mode = "h1" /\ spc = "head" /\ Len(c2s) >= 2
  /\ c2s' = After(c2s, 2)
  /\ LET h == c2s[2]
     IN  \/ /\ H1Match(h) = {} \/ ~accepted
            /\ s2c' = << [u |-> "page"] >> /\ spc' = "failed"
            /\ fault' = (fault \/ ~accepted)
            /\ UNCHANGED <<hello, matched, skeys>>
         \/ /\ H1Match(h) # {} /\ accepted
            /\ hello' = h /\ matched' = Keys[First(H1Match(h))]
            /\ skeys' = H1SessionKeys(matched')
            /\ s2c' = << [u |-> "head"], [u |-> "line"],
                         H1ServerHello(matched'), [u |-> "crlf"] >>
            /\ spc' = "len"
            /\ UNCHANGED fault
  /\ UNCHANGED <<input, client, asked, armed, broken>>

H1ReadOpen ==
  /\ mode = "h1" /\ spc = "open" /\ c2s # <<>>
  /\ c2s' = Tail(c2s)
  /\ LET f == Head(c2s)
         t == H1DecodeOpen(f.text)
     IN  IF f.key # H1OpenKey(matched, hello.ts) \/ t = None
         THEN ServerFails
         ELSE /\ spc' = "done" /\ asked' = t
              /\ UNCHANGED <<hello, matched, skeys, s2c, armed, fault>>
  /\ UNCHANGED <<input, client, broken>>

-----------------------------------------------------------------------------
(* The environment *)

\* A deadline that is set expires: the read under way fails.
Expire(side) ==
  /\ side \in armed
  /\ armed' = armed \ {side}
  /\ fault' = (fault \/ (IF side = "client" THEN cpc ELSE spc) # "done")
  /\ cpc' = IF side = "client" THEN "failed" ELSE cpc
  /\ spc' = IF side = "server" THEN "failed" ELSE spc
  /\ UNCHANGED <<input, reply, ckeys, hello, matched, asked, skeys, c2s, s2c,
                 broken>>

\* The connection breaks, or the dial's context closes it: m and n of the units
\* under way still arrive.
BreakConn(m, n) ==
  /\ ~broken /\ m <= Len(c2s) /\ n <= Len(s2c)
  /\ c2s' = SubSeq(c2s, 1, m) /\ s2c' = SubSeq(s2c, 1, n)
  /\ broken' = TRUE /\ fault' = TRUE
  /\ UNCHANGED <<input, client, server, armed>>

\* Nothing more comes, from a broken connection or from a peer that gave up: a
\* side that needs more units than it has fails.
ClientEnds ==
  /\ cpc \notin {"done", "failed"} /\ (broken \/ spc = "failed")
  /\ Len(s2c) < CASE cpc = "pad" -> reply.pad [] cpc = "line" -> 2 [] OTHER -> 1
  /\ ClientFails
  /\ UNCHANGED <<input, server, c2s, s2c, broken, fault>>

ServerEnds ==
  /\ spc \notin {"done", "failed"} /\ (broken \/ cpc = "failed")
  /\ Len(c2s) < CASE spc = "pad" -> hello.pad [] spc = "head" -> 2 [] OTHER -> 1
  /\ ServerFails
  /\ UNCHANGED <<input, client, c2s, broken>>

HandshakeNext ==
  \/ \E pad \in 0..MaxPad : RawSendFlight(pad)
  \/ RawReadReply \/ RawReadReplyPad
  \/ H1SendFlight \/ H1ReadHead \/ H1ReadChunk \/ H1ReadCRLF
  \/ RawReadHello \/ ReadOpenLen \/ H1ReadOpen
  \/ \E ok \in BOOLEAN : RawReadHelloPad(ok) \/ RawReadOpen(ok)
                           \/ H1ReadHello(ok)
  \/ \E side \in {"client", "server"} : Expire(side)
  \/ \E m, n \in 0..(MaxPad + 4) : BreakConn(m, n)
  \/ ClientEnds \/ ServerEnds

-----------------------------------------------------------------------------
(* Properties *)

\* What the server must refuse: another user, another server's client, a clock
\* too far off.
Honest == user # Stranger /\ idOK /\ Fresh(skew)

\* A side fails only when the peer must be refused or something outside the two
\* went wrong: no deadline of the handshake outlives it, and every address the
\* encoders write (domains of 1 to 255 bytes) is one the decoders read.
FailsForCause == cpc = "failed" \/ spc = "failed" => fault \/ ~Honest

\* When both sides are done they agree on the user, the target and the keys;
\* a side that is done has read its whole handshake, padding and chunk framing
\* included, so that the next unit is the stream's first; the server opens a
\* target only for one of its users; and a side fails only for cause.
HandshakeAgrees ==
  /\ cpc = "done" /\ spc = "done" =>
       ckeys = skeys /\ matched = user /\ asked = target
  /\ cpc = "done" => s2c = <<>> /\ skeys # None
  /\ spc = "done" => c2s = <<>> /\ Honest
  /\ FailsForCause
=============================================================================
