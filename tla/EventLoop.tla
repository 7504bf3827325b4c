----------------------------- MODULE EventLoop ------------------------------
(***************************************************************************)
(* src/framework/core/op_event_loop_epoll.c: the loop that runs the        *)
(* callbacks of descriptors.  A thread owns its loop, so that what its     *)
(* functions do is given as operators on a record, and the modules of the  *)
(* owners say when they are called.                                        *)
(*                                                                         *)
(* An event is known by its descriptor: the owners modelled here close a   *)
(* descriptor in on_delete, and so never have two events for one.  They    *)
(* use neither timers, nor files, nor the functions that delete or disable *)
(* an event from outside of its callbacks.                                 *)
(***************************************************************************)
EXTENDS Integers, Sequences, SequencesExt, FiniteSets, Functions, Bags

\* The callbacks of an event that the loop asks for, each with its name.
callbacks(on_read, on_write) == [on_read |-> on_read, on_write |-> on_write]

op_event_loop_allocate(edge) ==
    [running |-> FALSE,             \* OP_EVENT_LOOP_RUNNING
     edge |-> edge,                 \* OP_EVENT_LOOP_EDGETRIGGER
     events |-> << >>,              \* events_list: the callbacks of every event
     update_list |-> EmptyBag,      \* how often every event is on it
     remove_list |-> {},
     epoll |-> << >>,               \* what epoll watches every descriptor for
     fresh |-> {},                  \* descriptors that epoll may report, if edge
     nb_epoll_events |-> 0]

NoEvents == << >>

\* A function where it is defined, and another one elsewhere.
override(f, g) ==
    [x \in DOMAIN f \union DOMAIN g |-> IF x \in DOMAIN f THEN f[x] ELSE g[x]]

\* op_event_loop_add_fd(), for each of some descriptors.
op_event_loop_add_fds(loop, fds, c) ==
    [loop EXCEPT !.events = override([fd \in fds |-> c], @),
                 !.update_list = @ (+) SetToBag(fds)]

op_event_loop_add_fd(loop, fd, c) == op_event_loop_add_fds(loop, {fd}, c)

op_event_loop_update_fd(loop, fd, c) ==
    IF fd \notin DOMAIN loop.events THEN loop
    ELSE [loop EXCEPT !.events[fd] = c, !.update_list = @ (+) SetToBag({fd})]

op_event_loop_exit(loop) == [loop EXCEPT !.running = FALSE]

\* A callback that returns an error, or a descriptor that hangs up.
insert_removal(loop, fd) == [loop EXCEPT !.remove_list = @ \union {fd}]

events_mask(c) ==
    (IF c.on_read # "NULL" THEN {"EPOLLIN"} ELSE {})
        \union (IF c.on_write # "NULL" THEN {"EPOLLOUT"} ELSE {})

\* epoll_ctl() adds what it does not know and makes it report again what it knows.
_do_event_updates(loop) ==
    LET updated == DOMAIN loop.update_list
        new     == updated \ DOMAIN loop.epoll
    IN [loop EXCEPT
          !.update_list = EmptyBag,
          !.epoll = override([fd \in updated |-> events_mask(loop.events[fd])], @),
          !.fresh = @ \union updated,
          !.nb_epoll_events = @ + Cardinality(new)]

Always == {"EPOLLHUP", "EPOLLERR"}

\* epoll_wait(): the descriptors it reports, each with what it is ready for.
epoll_wait(loop, ready) ==
    LET report(fd) == ready[fd] \intersect
                        (loop.epoll[fd] \union Always
                            \union IF loop.edge THEN {"EPOLLRDHUP"} ELSE {})
        reported == {fd \in DOMAIN loop.epoll :
                        report(fd) # {} /\ (loop.edge => fd \in loop.fresh)}
    IN [fd \in reported |-> report(fd)]

waited(loop) == [loop EXCEPT !.fresh = {}]

\* Something happens to a descriptor: an edge.
wakeup(loop, fd) ==
    IF loop.edge /\ fd \in DOMAIN loop.epoll THEN [loop EXCEPT !.fresh = @ \union {fd}]
    ELSE loop

hangup(events) == events \intersect (Always \union {"EPOLLRDHUP"}) # {}

\* What the handling of one event leaves behind.
handled(loop, fd, events, error) ==
    IF error \/ hangup(events) THEN insert_removal(loop, fd) ELSE loop

_do_event_removals(loop) ==
    LET gone == loop.remove_list
    IN [loop EXCEPT
          !.remove_list = {},
          !.nb_epoll_events = @ - Cardinality(gone \intersect DOMAIN loop.epoll),
          !.epoll = Restrict(@, DOMAIN @ \ gone),
          !.fresh = @ \ gone,
          !.update_list = Restrict(@, DOMAIN @ \ gone),
          !.events = Restrict(@, DOMAIN @ \ gone)]

op_event_loop_purge(loop) ==
    _do_event_removals([loop EXCEPT !.remove_list = DOMAIN loop.events])

\* Nothing that a removal freed is left on a list or in epoll, no event is twice
\* on a list of updates, whose links would then be a circle, and the count by
\* which the loop decides to wait (line 674) and that must be zero when it is
\* freed (104) is that of what epoll watches.
LoopSound(loop, batch) ==
    /\ DOMAIN loop.update_list \union loop.remove_list \union DOMAIN loop.epoll
         \union DOMAIN batch \subseteq DOMAIN loop.events
    /\ \A fd \in DOMAIN loop.update_list : loop.update_list[fd] = 1
    /\ loop.nb_epoll_events = Cardinality(DOMAIN loop.epoll)
=============================================================================
