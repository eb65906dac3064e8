SPECIFICATION Spec
CONSTANTS
    Modules = {a}
    Threads = {owner, asio}
    Owner = owner
    Asio = asio
    None = None
    MaxLoads = 2
    MaxConsumers = 2
INVARIANTS ReadyMeansPublished NothingStranded ConsumerHoldsLast
VIEW MCView
