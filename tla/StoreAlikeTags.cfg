SPECIFICATION StoreSpec
CONSTANTS
    alice = alice
    bob = bob
    post = post
    Post = Post
    quoted = quoted
    wild = wild
    NoTag = NoTag
    Authors = {alice, bob}
    DTags = {post, Post, quoted, wild}
    Events <- AlikeEvents
    Like <- SqlLike
INVARIANT ParameterizedLatest
