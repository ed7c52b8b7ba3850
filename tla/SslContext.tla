----------------------------- MODULE SslContext ------------------------------
(***************************************************************************)
(* net::ssl::context: the TLS context a client is built with.  Base gives  *)
(* it what the configuration names, one option after the other, Client     *)
(* adds root certificates of its own if the configuration names none.      *)
(* Whatever OpenSSL refuses throws, and there is no client.                *)
(*                                                                         *)
(* A text of the configuration is "" if it is not given, "pem", "locked"   *)
(* (a key that needs the password) or "junk"; "number" is no text at all.  *)
(* Left out: the options and the verification mode, which cannot fail.     *)
(* OpenSSL asks at the terminal for a password no callback gives; here the *)
(* key is refused.  Whether a key fits its certificate is not looked at.   *)
(***************************************************************************)
EXTENDS Naturals, Sequences, SequencesExt

\* The texts that GetKey reads, in the order Base::Init hands them to OpenSSL.
KeyTexts == <<"private_key", "rsa_private_key", "certificate", "certificate_chain",
              "tmp_dh", "certificate_authority">>

\* SSLContext::Parse reads them all.
KeysReadable(doc) ==
  /\ doc.password # "number"
  /\ \A i \in 1 .. Len(KeyTexts) : doc[KeyTexts[i]] # "number"

\* OpenSSL takes a text in PEM, asking the password callback for a locked one.
Loads(text, unlocks) == text = "pem" \/ (text = "locked" /\ unlocks)

EmptyContext == [unlocks |-> FALSE, loaded |-> {}, failed |-> FALSE]

\* set_password_callback, if there is a password.
SetPassword(ctx, doc) == [ctx EXCEPT !.unlocks = @ \/ doc.password # ""]

\* One "if (!text.empty())" of Base::Init; nothing follows the one that throws.
Use(ctx, doc, name) ==
  IF ctx.failed \/ doc[name] = "" THEN ctx
  ELSE IF Loads(doc[name], ctx.unlocks) THEN [ctx EXCEPT !.loaded = @ \cup {name}]
  ELSE [ctx EXCEPT !.failed = TRUE]

UseAll(ctx, doc) ==
  LET U[n \in 0 .. Len(KeyTexts)] ==
        IF n = 0 THEN ctx ELSE Use(U[n - 1], doc, KeyTexts[n])
  IN U[Len(KeyTexts)]

\* Mutant: the password callback is set after the keys are read.
BasePasswordLast(doc) == SetPassword(UseAll(EmptyContext, doc), doc)

\* Base::Init.
Base(doc) == UseAll(SetPassword(EmptyContext, doc), doc)

PointerSize == 8
FirstRootLength == 1367

\* Mutant: the array itself, and so all of its 2679 characters.
RootHandedWhole == 2679

\* sizeof(kRootCA): kRootCA is deduced to be a pointer.
RootHanded == PointerSize

\* Client: Base, then Client::Init.  A buffer without a whole certificate is refused.
Context(doc) ==
  LET base == Base(doc)
  IN IF base.failed \/ doc.certificate_authority # "" THEN base
     ELSE IF RootHanded >= FirstRootLength
          THEN [base EXCEPT !.loaded = @ \cup {"root"}]
          ELSE [base EXCEPT !.failed = TRUE]
=============================================================================
