-------------------------- MODULE EDataBookFactory --------------------------
(***************************************************************************)
(* The factory of books (addressbook/libedata-book/e-data-book-factory.c)  *)
(* and the clients of a book backend (e-book-backend.c).  map_mutex is     *)
(* never held from one step to the next.  remove_client holds              *)
(* clients_mutex until the factory has dealt with last_client_gone.        *)
(***************************************************************************)
EXTENDS EDataFactory

VARIABLE bookMode        \* factory->priv->mode

BookInit == bookMode = "online"

BookAt(c, p) == Up /\ At(c, p, Books)

-----------------------------------------------------------------------------
(* getBook, in the thread of the request                                   *)

\* map_mutex is released before the client is added.
getBook(c, u) ==
    /\ Up
    /\ client[c].pc = "new"
    /\ LookupOrLaunch(c, u)
    /\ UNCHANGED <<main, server, raced, stranded, bookMode>>

getBook_fails(c) ==
    /\ Up
    /\ client[c].pc = "new"
    /\ Refused(c)
    /\ UNCHANGED <<raced, bookMode>>

\* The main loop holds clients_mutex while it drops the backend.
e_book_backend_add_client(c) ==
    /\ BookAt(c, "add")
    /\ ~(main.pc \in {"bookGone", "bookCheck"} /\ main.backend = Of(c))
    /\ AddClient(c)
    /\ raced' = (raced \/ table[client[c].uri] # Of(c) \/ server = "quitting")
    /\ Goes(c, "mode")
    /\ UNCHANGED <<table, main, server, bookMode>>

getBook_mode(c) ==
    /\ BookAt(c, "mode")
    /\ client' = [client EXCEPT ![c] = [@ EXCEPT !.pc = "set", !.mode = bookMode]]
    /\ UNCHANGED <<table, backend, main, server, raced, stranded, bookMode>>

e_book_backend_set_mode(c) ==
    /\ BookAt(c, "set")
    /\ backend' = [backend EXCEPT ![Of(c)].mode = client[c].mode]
    /\ Goes(c, "connected")
    /\ UNCHANGED <<table, main, server, raced, stranded, bookMode>>

\* Only a book that was opened has a source, and with it a URI.  The thread of the
\* request goes on when the client is removed meanwhile.
e_book_backend_open(c) ==
    /\ BookAt(c, "connected")
    /\ ~backend[Of(c)].loaded
    /\ backend' = [backend EXCEPT ![Of(c)].loaded = TRUE]
    /\ UNCHANGED <<table, client, main, server, raced, stranded, bookMode>>

-----------------------------------------------------------------------------
(* The main loop                                                           *)

\* listener_died_cb and e_book_backend_remove_client
book_listener_died(c) ==
    /\ Up
    /\ Breaks(c, Books)
    /\ RemoveClient(c)
    /\ main' = IF backend[Of(c)].clients \subseteq {c} THEN [pc |-> "bookGone", backend |-> Of(c)] ELSE main
    /\ UNCHANGED <<table, server, stranded, bookMode>>

\* The entry of the URI is removed, whichever backend it holds; without a source
\* the backend stays in the table.
book_last_client_gone ==
    /\ Up /\ MainAt("bookGone")
    /\ table' = IF backend[main.backend].loaded THEN [table EXCEPT ![backend[main.backend].uri] = None] ELSE table
    /\ stranded' = IF backend[main.backend].loaded THEN stranded ELSE stranded \cup {main.backend}
    /\ MainGoes("bookCheck")
    /\ UNCHANGED <<backend, client, server, raced, bookMode>>

\* Whether last_book_gone is emitted
BooksGone == MainAt("bookCheck") /\ Running(Books) = {}

book_check ==
    /\ Up /\ MainAt("bookCheck")
    /\ main' = Idle
    /\ UNCHANGED <<table, backend, client, server, raced, stranded, bookMode>>

\* mutant: the mode is not kept for the requests to come
SetsRunningOnly(m) ==
    /\ Up /\ MainAt("bookMode")
    /\ SetModes(Books, m)
    /\ raced' = (raced \/ \E c \in Clients : At(c, "set", Books))
    /\ main' = Idle
    /\ UNCHANGED <<table, client, server, stranded, bookMode>>

\* A request that has read the mode by now will set the backend to the old one.
e_data_book_factory_set_backend_mode(m) ==
    /\ Up /\ MainAt("bookMode")
    /\ bookMode' = m
    /\ SetModes(Books, m)
    /\ raced' = (raced \/ \E c \in Clients : At(c, "set", Books))
    /\ main' = Idle
    /\ UNCHANGED <<table, client, server, stranded>>

\* Backends count only if one of them has a client in another process.
book_n_backends ==
    IF \E u \in Running(Books) : backend[table[u]].clients # {} THEN Cardinality(Running(Books)) ELSE 0
=============================================================================
