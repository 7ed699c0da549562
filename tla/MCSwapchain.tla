---------------------------- MODULE MCSwapchain ----------------------------
(* TLC instances of Swapchain: surfaces with a free and with a fixed extent, *)
(* with and without MAILBOX, narrow and wide in the number of images.        *)
EXTENDS Swapchain

Surface(min, max, mailbox, current, least) ==
    [min |-> min, max |-> max, mailbox |-> mailbox, current |-> current,
     least |-> least]

MCSurfaces == {Surface(1, 0, TRUE, NoSize, 0), Surface(3, 0, FALSE, 1, 1)}
MCNarrow == {Surface(1, 2, FALSE, NoSize, 1), Surface(2, 2, FALSE, 1, 1),
             Surface(2, 2, TRUE, 1, 1), Surface(4, 0, FALSE, 1, 1)}
=============================================================================
