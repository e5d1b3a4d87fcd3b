CONSTANTS
    Listener = listener
    Sweeper = sweeper
    listener = listener
    sweeper = sweeper
SPECIFICATION Spec
PROPERTY CallbacksReturn
