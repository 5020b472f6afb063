SPECIFICATION FetchSpec
CONSTANTS
    c1 = c1  c2 = c2  c3 = c3  k1 = k1  k2 = k2  k3 = k3
    Nil = Nil
    Asker = {c1, c2, c3}
    Key = {k1, k2, k3}
    KeyOf <- MCKeyOf
    Frontier <- MCFrontier
    Prefetchable = {k1, k2}
    Concurrency = 2
INVARIANTS OneRequest PrefetchOnce
PROPERTY FetchesEnd
\* The fetches and the prefetcher end with the resolution.
CHECK_DEADLOCK FALSE
